---------------------------- MODULE CheckPipeline ----------------------------
(***************************************************************************)
(* The last two passes of completePipeFile.sh: multi-value-analysis, and   *)
(* check-collectives on the program it has labelled.                       *)
(***************************************************************************)
EXTENDS CheckCollectives, MultiValueAnalysis

(* A program is run with the number of ranks that the check is given.      *)
ASSUME PipelineAssumption == Ranks = 0 .. (NumRanks - 1)

pipeVars == <<vars, cond, at, walk>>

InitPipe == InitMV /\ InitPass

(***************************************************************************)
(* The pass manager runs the second pass when the first one has returned.  *)
(***************************************************************************)
NextPipe ==
    \/ /\ NextMV
       /\ UNCHANGED <<hasMain, numExec, pc, comms, comm, walkVars, cell, pdfVars, errors>>
    \/ /\ walk = "done"
       /\ Next
       /\ UNCHANGED <<cond, at, walk>>

SpecPipe == InitPipe /\ [][NextPipe]_pipeVars

-----------------------------------------------------------------------------
(***************************************************************************)
(* The programs whose Static labels name no rank that stays away: no       *)
(* multi-valued conditional in another one, and the rank is only compared  *)
(* for equality, with nothing for which getExecutor stores no executor.    *)
(***************************************************************************)
KnownExecutors(c) == \A i \in DOMAIN c.cmps : c.cmps[i].ofRank => c.cmps[i].other # "varying"

LabelsAreExact ==
    \A o \in DOMAIN prog :
        /\ Cardinality(Dividing(o)) <= 1
        /\ \A b \in Dividing(o) : Equality(cond[b]) /\ KnownExecutors(cond[b])

(***************************************************************************)
(* CheckCollectives.cpp:374, "if the number of ranks for execution is      *)
(* given, check if each rank is executing the operation, provided that the *)
(* executing ranks are statically known": a container left out of the      *)
(* search for causes has, for every rank, a member that it executes.       *)
(***************************************************************************)
CoveredRanksCall ==
    /\ pc = "check" /\ cell.class <= NumClasses /\ cell.slot <= Len(order)
    /\ Members # <<>> /\ CoversAllRanks(Members, prog)
    =>      \A r \in 0 .. (NumRanks - 1) : \E m \in DOMAIN Members :
                r \in Executing(Members[m], 0)

CoveredRanksCallExact == LabelsAreExact => CoveredRanksCall

(***************************************************************************)
(* The check never asks an operation for an attribute isMultiValued that   *)
(* the analysis has not set: each conditional around a filed collective    *)
(* has been visited, with mv what the uniformity analysis said.            *)
(***************************************************************************)
MVnessDefined ==
    pc # "start" =>
        \A s \in DOMAIN order : \A k \in Classes : \A i \in DOMAIN order[s][k] :
            \A j \in DOMAIN prog[order[s][k][i]].path :
                LET b == prog[order[s][k][i]].path[j][1] IN
                    b <= at /\ prog[b].mv = IsMV(b)

=============================================================================
