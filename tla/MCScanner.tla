------------------------------- MODULE MCScanner -------------------------------
(* The two halves of ScannerService: the life of a scan, and the metadata      *)
(* registry that scans and requests build.  They share no field, so a behaviour *)
(* is one of a single half while the other stays as it began.                  *)
EXTENDS RegistryCache, ScanService

VARIABLE half

ScannerInit ==
    /\ half \in {"registry", "scan"}
    /\ RegistryInit /\ Init
    /\ half = "registry" => ~files

RegistrySteps == half = "registry" /\ RegistryNext /\ UNCHANGED <<half, vars>>
ScanSteps == half = "scan" /\ Next /\ UNCHANGED <<half, registryVars>>

ScannerNext == RegistrySteps \/ ScanSteps

ScannerSpec ==
    /\ ScannerInit
    /\ [][ScannerNext]_<<half, registryVars, vars>>
    /\ RegistryFairness /\ DeleteFairness
===============================================================================
