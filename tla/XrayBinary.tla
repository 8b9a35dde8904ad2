----------------------------- MODULE XrayBinary -----------------------------
(***************************************************************************)
(* How a reconcile of the core manager comes by a working xray binary      *)
(* (ensureXrayBinary): it runs what is installed, else unpacks an archive  *)
(* it has, else downloads one.  No lock is taken, so two reconciles work   *)
(* on the same archive, its ".part" file and the same binary at once.      *)
(*                                                                         *)
(* A file is Nothing, Whole, Torn (its writer stopped half way) or the     *)
(* thread that is still writing it: a thread that removes a file another   *)
(* one writes leaves that writer with a file nobody sees.                  *)
(***************************************************************************)
EXTENDS Integers, FiniteSets

CONSTANTS Threads,        \* the reconciles that may run at once
          Nothing, Whole, Torn,
          LegacyBinary,   \* an older installation has a working binary to copy
          Urls,           \* how many URLs a reconcile tries
          MaxFaults       \* bound: lost downloads, crashes, slow starts

ASSUME BinaryAssumption ==
    /\ Cardinality({Nothing, Whole, Torn} \cup Threads) = 3 + Cardinality(Threads)
    /\ LegacyBinary \in BOOLEAN /\ Urls \in Nat /\ MaxFaults \in Nat

VARIABLES pc,        \* where each reconcile is
          binary,    \* the installed binary: Nothing, Torn or Whole
          archive,   \* the downloaded archive
          part,      \* its ".part" file
          tries,     \* of each reconcile: the downloads begun
          faults

binaryVars == <<pc, binary, archive, part, tries, faults>>

Step(t, from, to) == pc[t] = from /\ pc' = [pc EXCEPT ![t] = to]

(* What is there does not work: the next URL is tried, if there is one, or *)
(* the reconcile fails.                                                    *)
Failed(t, from) == Step(t, from, IF tries[t] < Urls THEN "fetch" ELSE "idle")

(* Linux neither runs a file that is being written nor lets one be written *)
(* that is running.                                                        *)
Unpacking == {t \in Threads : pc[t] = "unpacking"}
Works == binary = Whole /\ Unpacking = {}

Inspect(t) ==
    /\ Step(t, "inspect", IF Works THEN "write" ELSE "local")
    /\ tries' = [tries EXCEPT ![t] = 0]
    /\ UNCHANGED <<binary, archive, part, faults>>

Unpack(t, from) ==
    /\ Step(t, from, "unpacking")
    /\ binary' = Torn
    /\ UNCHANGED <<archive, part, tries, faults>>

UnpackLocal(t, busy) ==
    /\ ~busy /\ (LegacyBinary \/ archive = Whole)
    /\ Unpack(t, "local")

NothingLocal(t, busy) ==
    /\ busy \/ ~(LegacyBinary \/ archive = Whole)
    /\ Failed(t, "local")
    /\ UNCHANGED <<binary, archive, part, tries, faults>>

Unpacked(t) ==
    /\ Step(t, "unpacking", "verify")
    /\ binary' = IF Unpacking = {t} THEN Whole ELSE Torn
    /\ UNCHANGED <<archive, part, tries, faults>>

Verify(t) ==
    /\ IF Works THEN Step(t, "verify", "write") ELSE Failed(t, "verify")
    /\ UNCHANGED <<binary, archive, part, tries, faults>>

BeginDownload(t) ==
    /\ Step(t, "fetch", "download")
    /\ part' = t
    /\ tries' = [tries EXCEPT ![t] = @ + 1]
    /\ UNCHANGED <<binary, archive, faults>>

Ended(file, t, how) == IF file = t THEN how ELSE file

(* validateXrayArchive opens the file by its name, whoever wrote it.       *)
EndDownload(t) ==
    /\ archive' = Ended(archive, t, Whole)
    /\ IF Ended(part, t, Whole) = Whole
         THEN part' = Whole /\ Step(t, "download", "rename")
         ELSE part' = Nothing /\ Failed(t, "download")
    /\ UNCHANGED <<binary, tries, faults>>

LoseDownload(t) ==
    /\ faults < MaxFaults /\ faults' = faults + 1
    /\ Failed(t, "download")
    /\ archive' = Ended(archive, t, Torn)
    /\ part' = Nothing
    /\ UNCHANGED <<binary, tries>>

(* The old archive is removed before the new one takes its name.           *)
Rename(t) ==
    /\ IF part = Nothing THEN Failed(t, "rename") ELSE Step(t, "rename", "unpack")
    /\ archive' = part
    /\ part' = Nothing
    /\ UNCHANGED <<binary, tries, faults>>

UnpackArchive(t, busy) ==
    /\ ~busy /\ archive = Whole
    /\ Unpack(t, "unpack")

RefuseArchive(t, busy) ==
    /\ busy \/ archive # Whole
    /\ Failed(t, "unpack")
    /\ UNCHANGED <<binary, archive, part, tries, faults>>

Prepare(t, busy) ==
    \/ Inspect(t) \/ UnpackLocal(t, busy) \/ NothingLocal(t, busy) \/ Unpacked(t)
    \/ Verify(t) \/ BeginDownload(t) \/ EndDownload(t) \/ LoseDownload(t)
    \/ Rename(t) \/ UnpackArchive(t, busy) \/ RefuseArchive(t, busy)
=============================================================================
