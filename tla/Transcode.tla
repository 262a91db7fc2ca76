------------------------------- MODULE Transcode -------------------------------
(* The transcoder of internal/infrastructure/transcoder: one cache path, that  *)
(* of one source file at one quality.  Requests for the whole file join one    *)
(* transcode by lockInflight; requests for media segments start one in the     *)
(* background and read the file while it grows.  Modification times enter only *)
(* through cacheValid, so a file carries whether it is newer than the source.  *)
EXTENDS Fmp4, FiniteSets, SequencesExt

CONSTANTS
    Streams,      \* requests
    Segments,     \* the times, from and to, that segment requests ask for
    Background,   \* the goroutine of startTranscode
    Leftover,     \* a temporary file that a stopped server left behind
    NoFile,
    NoOne,
    Upsets,       \* what may go wrong: subset of {"fails", "slow", "replaced", "stops"}
    MaxUpsets,    \* bound
    MaxStreams    \* bound: requests made

ASSUME TranscodeAssumption ==
    /\ Segments \subseteq Nat \X Nat /\ \A s \in Segments : s[1] < s[2]
    /\ MaxUpsets \in Nat /\ MaxStreams \in Nat
    /\ Upsets \subseteq {"fails", "slow", "replaced", "stops"}
    /\ Background \notin Streams /\ Leftover \notin Streams \cup {Background} /\ NoOne \notin Streams \cup {Background}
    /\ NoFile \notin [content : Nat, size : 0..Total, newer : BOOLEAN]

VARIABLES
    source,    \* the number of times the source file was replaced
    tcache,    \* the cache file
    temps,     \* <cache path>.tmp.* by who writes it
    recent,    \* the temporary files with something in them, by modification time
    inflight,  \* who holds the entry of inflight
    running,   \* the entry of running
    tstep,     \* where each request and the background goroutine stand
    tasked,    \* what each request asks for
    opened,    \* the file a segment request has open, and its size when it was parsed
    answer,    \* the last answer of each request
    streamed,  \* requests made
    tupsets,   \* what went wrong
    retried,   \* history: one that had waited found no file and transcodes on its own
    midway     \* history: the source was replaced under a transcode

tvars == <<source, tcache, temps, recent, inflight, running, tstep, tasked, opened, answer, streamed, tupsets, retried, midway>>

Workers == Streams \cup {Background}
Questions == [kind : {"play", "seek", "init"}, start : {0}, need : {0}]
             \cup {[kind |-> "range", start |-> s[1], need |-> s[2]] : s \in Segments}
NoAnswer == [kind |-> "none", from |-> 0, to |-> 0, short |-> FALSE, done |-> FALSE]
Transcoding == {w \in Workers : tstep[w] \in {"ffmpeg", "pipe"}}

TranscodeTypeOK ==
    /\ \A w \in Workers \cup {Leftover} :
           temps[w] # NoFile => temps[w] \in [content : 0..source, size : 0..Total, newer : BOOLEAN]
    /\ tcache # NoFile => tcache \in [content : 0..source, size : 0..Total, newer : BOOLEAN]
    /\ inflight \in Streams \cup {NoOne} /\ running \in BOOLEAN
    /\ running <=> tstep[Background] # "idle"
    /\ \A w \in Workers : temps[w] # NoFile <=> w \in Transcoding \/ tstep[w] = "stuck"
    /\ inflight # NoOne => tstep[inflight] \in {"recheck", "ffmpeg", "pipe", "stuck"}

TranscodeInit ==
    /\ source = 0 /\ tcache = NoFile /\ recent = <<>>
    /\ temps = [w \in Workers \cup {Leftover} |-> NoFile]
    /\ inflight = NoOne /\ running = FALSE
    /\ tstep = [w \in Workers |-> "idle"]
    /\ tasked = [r \in Streams |-> [kind |-> "play", start |-> 0, need |-> 0]]
    /\ opened = [r \in Streams |-> NoFile] /\ answer = [r \in Streams |-> NoAnswer]
    /\ streamed = 0 /\ tupsets = 0 /\ retried = FALSE /\ midway = FALSE

MayUpset(what) == what \in Upsets /\ tupsets < MaxUpsets /\ tupsets' = tupsets + 1

CacheValid == tcache # NoFile /\ tcache.newer

Without(seq, w) ==
    IF \E i \in DOMAIN seq : seq[i] = w THEN RemoveAt(seq, CHOOSE i \in DOMAIN seq : seq[i] = w) ELSE seq

(* currentTranscodeFile: the cache, else the temporary file written last. *)
CurrentFile == IF CacheValid THEN tcache
               ELSE IF recent = <<>> THEN NoFile ELSE temps[recent[Len(recent)]]

(* A request ends. *)
Reply(r, kind, bytes, short) ==
    answer' = [answer EXCEPT ![r] = [kind |-> kind, from |-> bytes.from, to |-> bytes.to, short |-> short,
                                     done |-> CacheValid]]

NoBytes == [from |-> 0, to |-> 0]

(* ServeTranscoded, or ServeMse for a segment: the request comes in. *)
AskStream(r, q) ==
    /\ tstep[r] = "idle" /\ streamed < MaxStreams /\ streamed' = streamed + 1
    /\ tasked' = [tasked EXCEPT ![r] = q] /\ answer' = [answer EXCEPT ![r] = NoAnswer]
    /\ IF q.kind \in {"play", "seek"}
       THEN tstep' = [tstep EXCEPT ![r] = "look"] /\ UNCHANGED running
       ELSE \* startTranscode
            LET starts == ~running /\ ~CacheValid
            IN  /\ running' = (running \/ starts)
                /\ tstep' = [tstep EXCEPT ![r] = "poll", ![Background] = IF starts THEN "recheck" ELSE @]
    /\ UNCHANGED <<source, tcache, temps, recent, inflight, opened, tupsets, retried, midway>>

MustWait == inflight # NoOne

(* A hit is served; a miss joins the transcode in flight or becomes it.  Who    *)
(* waited looks again when it is over and then transcodes on its own.           *)
Look(r) ==
    /\ tstep[r] = "look" /\ r \in Streams
    /\ IF CacheValid THEN /\ Reply(r, "file", [from |-> 0, to |-> tcache.size], FALSE)
                          /\ tstep' = [tstep EXCEPT ![r] = "idle"] /\ UNCHANGED inflight
       ELSE /\ tstep' = [tstep EXCEPT ![r] = IF MustWait THEN "wait" ELSE "recheck"]
            /\ inflight' = IF MustWait THEN inflight ELSE r
            /\ UNCHANGED answer
    /\ UNCHANGED <<source, tcache, temps, recent, running, tasked, opened, streamed, tupsets, retried, midway>>

(* The deferred release, and that of the entry of running. *)
Unlocked(w) ==
    /\ inflight' = IF inflight = w THEN NoOne ELSE inflight
    /\ running' = (running /\ w # Background)
    /\ tstep' = [v \in Workers |-> IF v = w THEN "idle"
                                   ELSE IF inflight = w /\ tstep[v] = "wait" THEN "recheck" ELSE tstep[v]]

Recheck(w) ==
    /\ tstep[w] = "recheck"
    /\ IF CacheValid
       THEN /\ Unlocked(w) /\ UNCHANGED temps
            /\ IF w = Background THEN UNCHANGED answer
               ELSE Reply(w, "file", [from |-> 0, to |-> tcache.size], FALSE)
       ELSE \* transcodeToFile or transcodeAndStream: the temporary file, then ffmpeg
            /\ tstep' = [tstep EXCEPT ![w] = IF w # Background /\ tasked[w].kind = "play" THEN "pipe" ELSE "ffmpeg"]
            /\ temps' = [temps EXCEPT ![w] = [content |-> source, size |-> 0, newer |-> TRUE]]
            /\ UNCHANGED <<inflight, running, answer>>
    /\ retried' = (retried \/ (~CacheValid /\ w \notin {inflight, Background}))
    /\ UNCHANGED <<source, tcache, recent, tasked, opened, streamed, tupsets, midway>>

FfmpegWrites(w) ==
    /\ w \in Transcoding
    /\ \E size \in temps[w].size + 1..Total : temps' = [temps EXCEPT ![w].size = size, ![w].newer = TRUE]
    /\ recent' = Append(Without(recent, w), w)
    /\ UNCHANGED <<source, tcache, inflight, running, tstep, tasked, opened, answer, streamed, tupsets, retried, midway>>

ExitsWell(w) == w \in Transcoding /\ temps[w].size = Total

(* ffmpeg is done: the rename, and a request for the whole file is answered. *)
TranscodeDone(w) ==
    /\ ExitsWell(w)
    /\ tcache' = temps[w] /\ temps' = [temps EXCEPT ![w] = NoFile] /\ recent' = Without(recent, w)
    /\ Unlocked(w)
    /\ IF w = Background THEN UNCHANGED answer
       ELSE Reply(w, "file", [from |-> 0, to |-> temps[w].size], FALSE)
    /\ UNCHANGED <<source, tasked, opened, streamed, tupsets, retried, midway>>

(* ffmpeg fails, or the pipe saw nothing for ten seconds.  Then the answer is   *)
(* only given once ffmpeg closes its standard error, and nobody reads what it   *)
(* writes: a file of any size never ends, and the entry is never released.      *)
TranscodeFails(w) ==
    /\ w \in Transcoding /\ MayUpset("fails")
    /\ temps' = [temps EXCEPT ![w] = NoFile] /\ recent' = Without(recent, w) /\ Unlocked(w)
    /\ IF w = Background THEN UNCHANGED answer ELSE Reply(w, "error", NoBytes, FALSE)
    /\ UNCHANGED <<source, tcache, tasked, opened, streamed, retried, midway>>

NothingForTenSeconds(r) ==
    /\ tstep[r] = "pipe" /\ temps[r].size = 0 /\ MayUpset("slow")
    /\ tstep' = [tstep EXCEPT ![r] = "stuck"]
    /\ UNCHANGED <<source, tcache, temps, recent, inflight, running, tasked, opened, answer, streamed, retried, midway>>

(* serveMseInit and serveMseRange: a file is opened and parsed ...             *)
OpenFile(r) ==
    /\ tstep[r] = "poll" /\ CurrentFile # NoFile
    /\ opened' = [opened EXCEPT ![r] = CurrentFile] /\ tstep' = [tstep EXCEPT ![r] = "parsed"]
    /\ UNCHANGED <<source, tcache, temps, recent, inflight, running, tasked, answer, streamed, tupsets, retried, midway>>

(* ... and served from, when the index covers what is asked or, as far as      *)
(* cacheValid now says, nothing more is to come; else it is tried again.        *)

(* Mutant: what is there is served. *)
AlwaysOver == TRUE

NothingMoreComes == CacheValid

ServeSegment(r) ==
    LET q == tasked[r]
        n == opened[r].size
        Served(bytes, short) == /\ Reply(r, "segment", bytes, short)
                                /\ tstep' = [tstep EXCEPT ![r] = "idle"]
    IN  /\ tstep[r] = "parsed"
        /\ CASE q.kind = "init" /\ InitSize(n) > 0 -> Served([from |-> 0, to |-> InitSize(n)], FALSE)
             [] q.kind = "range" /\ Fragments(n) # {} /\ CoveredTime(n) >= q.need ->
                    Served(ExtractFragments(n, q.start, q.need), FALSE)
             [] q.kind = "range" /\ Fragments(n) # {} /\ CoveredTime(n) < q.need /\ NothingMoreComes ->
                    IF CoveredTime(n) > q.start THEN Served(ExtractFragments(n, q.start, CoveredTime(n)), TRUE)
                    ELSE /\ Reply(r, "out of range", NoBytes, TRUE)
                         /\ tstep' = [tstep EXCEPT ![r] = "idle"]
             [] OTHER -> tstep' = [tstep EXCEPT ![r] = "poll"] /\ UNCHANGED answer
        /\ opened' = [opened EXCEPT ![r] = NoFile]
        /\ UNCHANGED <<source, tcache, temps, recent, inflight, running, tasked, streamed, tupsets, retried, midway>>

(* The client is gone, or five minutes have passed. *)
GiveUp(r) ==
    /\ tstep[r] = "poll" /\ tstep' = [tstep EXCEPT ![r] = "idle"]
    /\ Reply(r, "error", NoBytes, FALSE)
    /\ UNCHANGED <<source, tcache, temps, recent, inflight, running, tasked, opened, streamed, tupsets, retried, midway>>

(* CleanCacheOnce, when the cache and what was left behind are a week old. *)
CleanCacheOnce ==
    /\ tcache # NoFile \/ temps[Leftover] # NoFile
    /\ tcache' = NoFile /\ temps' = [temps EXCEPT ![Leftover] = NoFile]
    /\ recent' = Without(recent, Leftover)
    /\ UNCHANGED <<source, inflight, running, tstep, tasked, opened, answer, streamed, tupsets, retried, midway>>

(* External: another file takes the place of the source; ffmpeg reads on.  As   *)
(* long as nothing was made from the source this makes no difference.          *)
Older(f) == IF f = NoFile THEN NoFile ELSE [f EXCEPT !.newer = FALSE]

SourceReplaced ==
    /\ tcache # NoFile \/ \E w \in DOMAIN temps : temps[w] # NoFile
    /\ MayUpset("replaced") /\ source' = source + 1
    /\ tcache' = Older(tcache) /\ temps' = [w \in DOMAIN temps |-> Older(temps[w])]
    /\ midway' = (midway \/ \E w \in DOMAIN temps : temps[w] # NoFile)
    /\ UNCHANGED <<recent, inflight, running, tstep, tasked, opened, answer, streamed, retried>>

(* The server stops and starts: the deferred removals do not run.  Of the files *)
(* left the newest is kept here, and ffmpeg is taken to stop as well.           *)
ServerStops ==
    /\ MayUpset("stops")
    /\ LET left == IF recent = <<>> THEN NoFile ELSE temps[recent[Len(recent)]]
       IN  /\ temps' = [w \in DOMAIN temps |-> IF w = Leftover THEN left ELSE NoFile]
           /\ recent' = IF left = NoFile THEN <<>> ELSE <<Leftover>>
    /\ inflight' = NoOne /\ running' = FALSE /\ tstep' = [w \in Workers |-> "idle"]
    /\ opened' = [r \in Streams |-> NoFile] /\ answer' = [r \in Streams |-> NoAnswer]
    /\ UNCHANGED <<source, tcache, tasked, streamed, retried, midway>>

TranscodeNext ==
    \/ \E r \in Streams : (\E q \in Questions : AskStream(r, q))
                          \/ Look(r) \/ NothingForTenSeconds(r) \/ OpenFile(r) \/ ServeSegment(r) \/ GiveUp(r)
    \/ \E w \in Workers : Recheck(w) \/ FfmpegWrites(w) \/ TranscodeDone(w) \/ TranscodeFails(w)
    \/ CleanCacheOnce \/ SourceReplaced \/ ServerStops

TranscodeSpec == TranscodeInit /\ [][TranscodeNext]_tvars

\* The cache never holds a part of a transcode, whatever ffmpeg, a replaced
\* source or a stop of the server do: a file is renamed into it only when ffmpeg
\* has ended well, and every whole file handed out is whole.
CacheIsWhole ==
    /\ tcache # NoFile => tcache.size = Total
    /\ \A r \in Streams : answer[r].kind = "file" => answer[r].to = Total

\* Requests for the whole file share one transcode; two run at once only after
\* one that had waited found no valid file when it looked again: the transcode
\* failed or its source was replaced, and all its waiters start, outside inflight.
TranscodesAreShared == retried \/ Cardinality(Transcoding \ {Background}) <= 1

\* A file that is served as up to date holds the current source, unless the
\* source was replaced while a transcode of it was running or left behind.
HitsAreCurrent == ~midway /\ CacheValid => tcache.content = source

\* What a segment request gets is a prefix of what the finished file would give
\* it, and less than was asked, or a refusal, only when a finished file exists.
SegmentsArePrefixes ==
    \A r \in Streams :
        LET q == tasked[r] IN
        /\ opened[r] # NoFile => IndexIsAPrefix(opened[r].size)
        /\ answer[r].short => answer[r].done
        /\ answer[r].kind = "segment" /\ q.kind = "range" =>
               LET whole == ExtractFragments(Total, q.start, q.need)
               IN  answer[r].from = whole.from /\ answer[r].to <= whole.to
        /\ answer[r].kind = "segment" /\ q.kind = "init" => answer[r].to = InitSize(Total)

\* fmp4.go: "requests wait until the requested data has been transcoded".  Does
\* not hold: a transcode that ends between the parsing of its temporary file and
\* the second cacheValid makes the request take the part for the whole.
RequestsWaitForTheirData ==
    \A r \in Streams :
        answer[r].short => CoveredTime(Total) < tasked[r].need

\* fmp4.go: "Incomplete trailing boxes are ignored so the file can be parsed
\* while it is still being written".  Does not hold: a moof whose mdat has not
\* begun is indexed, and served, as a fragment of its own.
NoFragmentIsTorn ==
    \A r \in Streams :
        answer[r].kind = "segment" => answer[r].to \in {InitSize(Total)} \cup {Offset[i + 2] : i \in Fragments(Total)}

\* The parts that hold, together, of a state that is well typed (transcoder.go,
\* fmp4.go).
TranscodeSound ==
    /\ TranscodeTypeOK
    /\ CacheIsWhole /\ TranscodesAreShared /\ HitsAreCurrent /\ SegmentsArePrefixes
===============================================================================
