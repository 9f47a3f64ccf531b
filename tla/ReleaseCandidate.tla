---------------------------- MODULE ReleaseCandidate ----------------------------
(***************************************************************************)
(* A release candidate (release_evidence.py) of one commit, with the       *)
(* public proof and the release record that it carries (public_proof.py,   *)
(* release_record.py): what build_release_candidate writes when its inputs *)
(* change under it or it is cut off, and what verify_release_candidate     *)
(* accepts.                                                                *)
(*                                                                         *)
(* A digest stands for what it is of.  The fingerprint of a proof is that  *)
(* of its project: run ids and times are not part of it.                   *)
(***************************************************************************)
EXTENDS Integers, SequencesExt

CONSTANT Selected  \* the commit to be released

-----------------------------------------------------------------------------
(* The public proof: proof-result.json, project.json, the run's directory and *)
(* evaluation-result.json.                                                    *)

\* run_public_proof
Proof(run, project) ==
  [result |-> [run |-> run, fingerprint |-> project], project |-> project,
   run |-> project, evaluation |-> "release"]

\* verify_public_proof: the fingerprint is that of the run and of the project.
VerifyProof(proof) ==
  /\ proof.run = proof.project
  /\ proof.result.fingerprint = proof.project
  /\ proof.evaluation = "release"

\* reproduce_public_proof
Reproduction(id, primary, project) ==
  [id |-> id, primary |-> primary.result.fingerprint, reproduced |-> project,
   pass |-> VerifyProof(primary) /\ primary.result.fingerprint = project]

Reproduces(reproduction, proof) ==
  /\ reproduction.pass
  /\ reproduction.primary = proof.result.fingerprint
  /\ reproduction.reproduced = proof.result.fingerprint

-----------------------------------------------------------------------------
(* The release record, the approval of one commit with its evidence. *)

\* create_release_record
ReleaseRecord(sha, proof, reproduction) ==
  [sha |-> sha, proof |-> proof.result, result |-> proof.result,
   project |-> proof.project, reproduction |-> reproduction]

\* verify_release_record
VerifyRecord(record, sha, proof, reproduction) ==
  /\ record.sha = sha
  /\ record.proof = proof.result
  /\ Reproduces(reproduction, proof)
  /\ record.result = proof.result
  /\ record.project = proof.project
  /\ record.reproduction = reproduction

-----------------------------------------------------------------------------
(* build_release_candidate.  world[t] is what the builder finds at time t:    *)
(* head and clean (the checkout), proof, reproduction and record.  at gives   *)
(* the time of each step.                                                     *)

\* assert_exact_clean_head
ExactHead(w) == w.head = Selected /\ w.clean

Checks == <<"head", "proof", "reproduction", "record">>

Admitted(world, at) ==
  LET verified == world[at["record"]]
  IN  /\ ExactHead(world[at["head"]])
      /\ VerifyProof(world[at["proof"]].proof)
      /\ world[at["reproduction"]].reproduction.pass
      /\ VerifyRecord(verified.record, Selected, verified.proof, verified.reproduction)

\* The files of the candidate in the order in which they are written.
Files ==
  <<"proof-result.json", "project.json", "run", "evaluation-result.json",
    "reproduction-report.json", "release-record.json", "release-record-gate.json",
    "sbom.cdx.json", "build-provenance.json", "conformance-report.json",
    "KNOWN-LIMITATIONS.md", "candidate-manifest.json", "SHA256SUMS">>

\* What a step writes that finds w.
Written(file, w) ==
  CASE file = "proof-result.json"        -> w.proof.result
    [] file = "project.json"             -> w.proof.project
    [] file = "run"                      -> w.proof.run
    [] file = "evaluation-result.json"   -> w.proof.evaluation
    [] file = "reproduction-report.json" -> w.reproduction
    [] file = "release-record.json"      -> w.record
    [] file = "sbom.cdx.json"            -> w.head
    [] file = "build-provenance.json"    ->
         [sha |-> Selected, checkout |-> w.head, result |-> w.proof.result,
          reproduction |-> w.reproduction, record |-> w.record]
    [] OTHER                             -> Selected

Steps == Checks \o Files

\* The directory after the first n files, if the build gets that far.
Candidate(world, at, n) ==
  IF Admitted(world, at)
    THEN [f \in ToSet(SubSeq(Files, 1, n)) |-> Written(f, world[at[f]])]
    ELSE << >>

-----------------------------------------------------------------------------
\* verify_release_candidate.  Nobody changes a candidate, so that the checksums,
\* written last, cover and match what is there.
VerifyCandidate(c) ==
  /\ DOMAIN c = ToSet(Files)
  /\ LET proof == [result |-> c["proof-result.json"], project |-> c["project.json"],
                   run |-> c["run"], evaluation |-> c["evaluation-result.json"]]
         selected == c["candidate-manifest.json"]
     IN  /\ VerifyProof(proof)
         /\ Reproduces(c["reproduction-report.json"], proof)
         /\ c["release-record-gate.json"] = selected
         /\ VerifyRecord(c["release-record.json"], selected, proof,
                         c["reproduction-report.json"])
         /\ c["build-provenance.json"].sha = selected
         /\ c["conformance-report.json"] = selected
=============================================================================
