------------------------------ MODULE Evidence ------------------------------
(***************************************************************************)
(* The verifier's decision (harness/agent/verifier.py): which claims an    *)
(* answer makes, and whether the evidence it cites holds against the run's *)
(* recorded steps and the workspace's baseline.                            *)
(*                                                                         *)
(* Abstracted: the phrases that make a claim (an answer is its set of      *)
(* claims), fingerprints (a file is who wrote it last), the notes, the     *)
(* tokens a command's kind is read from.                                   *)
(***************************************************************************)
EXTENDS Naturals, Sequences

CONSTANTS
  EvKeys,    \* call keys
  EvPaths,   \* workspace paths
  KindOf,    \* the verifier's class of a run_command key, None for other keys
  EvNone     \* Python's None; as a path, one without a fingerprint

CommandKinds == {"test", "lint", "typecheck", "build"}
FileKinds    == {"file", "patch"}

\* Claim, each named by the kind of evidence it needs.
Claims == CommandKinds \union FileKinds

\* CommandEvidence names a step, FileEvidence a path.
Evidence == [kind : CommandKinds, step : Nat \ {0}] \union
            [kind : FileKinds, path : EvPaths \union {EvNone}]

\* AnswerAction.
AnswerOf(claims, evidence) ==
  [action |-> "answer", claims |-> claims, evidence |-> evidence]

\* ExecutedToolStep.  A step's row id is unique, so it is enough to find it.
Executed == [id : Nat \ {0}, key : EvKeys, ok : BOOLEAN]

\* Defect: a cited step counts whatever its result was.
AnyCitedCommand(claim, evidence, history) ==
  \E i \in DOMAIN evidence, s \in DOMAIN history :
    /\ evidence[i].kind = claim
    /\ history[s].id = evidence[i].step
    /\ KindOf[history[s].key] = claim

\* _check_command_evidence: some cited step of this run is a command of the
\* kind claimed that exited 0.
CommandHolds(claim, evidence, history) ==
  \E i \in DOMAIN evidence, s \in DOMAIN history :
    /\ evidence[i].kind = claim
    /\ history[s].id = evidence[i].step
    /\ history[s].ok
    /\ KindOf[history[s].key] = claim

\* _check_file_written and _check_patch_applied: the first cited path that has
\* a fingerprint decides, those after it are not looked at.
FileHolds(claim, evidence, files, baseline) ==
  LET cited == {i \in DOMAIN evidence : /\ evidence[i].kind = claim
                                        /\ evidence[i].path # EvNone}
  IN \E i \in cited : /\ \A j \in cited : i <= j
                      /\ baseline[evidence[i].path] # files[evidence[i].path]

\* The files an answer cites, as they are.
Cited(evidence, files) ==
  {[path |-> evidence[i].path, by |-> files[evidence[i].path]] :
     i \in {j \in DOMAIN evidence : /\ evidence[j].kind \in FileKinds
                                    /\ evidence[j].path # EvNone}}

\* Verifier.verify.  An answer without a claim is verified, a claim without
\* evidence is not.
Verified(answer, history, files, baseline) ==
  \A claim \in answer.claims :
    IF claim \in FileKinds
    THEN FileHolds(claim, answer.evidence, files, baseline)
    ELSE CommandHolds(claim, answer.evidence, history)
=============================================================================
