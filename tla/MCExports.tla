------------------------------ MODULE MCExports ------------------------------
(* Exported functions, and the job queue of the engine that runs them, in one *)
(* run: what happens is of the one that part names, and the other stays as it *)
(* is after import.                                                           *)
EXTENDS Exports, FiniteSets

CONSTANTS
    ProgramJobs, MaxMessages, Promises,
    MaxUses             \* bound: messages posted and promises rejected, together

ASSUME Bounds == IsFiniteSet(ProgramJobs) /\ MaxMessages \in Nat /\ MaxUses \in Nat

VARIABLES
    part,
    jobs, running, port, proxy, posted, handed, closes, threw, promise, pendingRejections,
    reported, before

jobVars == <<jobs, running, port, proxy, posted, handed, closes, threw, promise,
             pendingRejections, reported, before>>

Queue == INSTANCE Microtasks

BothInit == part \in {"exports", "microtasks"} /\ Init /\ Queue!Init

Uses == Queue!PostedCount + Cardinality({p \in Promises : promise[p] # "pending"})

BothNext ==
    \/ part = "exports" /\ Next /\ UNCHANGED <<part, jobVars>>
    \/ part = "microtasks" /\ Queue!Next /\ Uses' <= MaxUses /\ UNCHANGED <<part, vars>>

\* The fairness of each module (its FairSpec), of the one that part names.
BothFairness ==
    /\ WF_vars(part = "exports" /\ Export)
    /\ WF_vars(part = "exports" /\ Dropper)
    /\ WF_vars(part = "exports" /\ Runtime)
    /\ WF_jobVars(part = "microtasks" /\ Queue!Returns)
    /\ SF_jobVars(part = "microtasks" /\ Queue!Runs)

BothSpec == BothInit /\ [][BothNext]_<<part, vars, jobVars>> /\ BothFairness

-----------------------------------------------------------------------------
(* The properties of Microtasks, beside those of Exports.                    *)

\* A message port hands over what was posted, in order, and 'close' last.
PortsDeliver == Queue!TypeOK /\ Queue!PortsDeliver
\* A rejection is reported only when whoever could handle it has had his chance, and one
\* that stays without a handler is reported.
RejectionsAreReported == Queue!RejectionsAreReported
=============================================================================
