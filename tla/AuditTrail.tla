----------------------------- MODULE AuditTrail -----------------------------
(***************************************************************************)
(* The append-only, hash-chained audit trail (auditTrail.mjs): the chain in *)
(* memory, which readAudit and verifyAudit look at, and the JSONL file that *)
(* the next process boots from.                                            *)
(*                                                                         *)
(* appendAudit is one synchronous turn.  It numbers the entry, writes the   *)
(* line and only then pushes the entry to memory, so a write that throws    *)
(* leaves a gap in the numbers and whatever it left in the file.  The       *)
(* process may also die inside the write.                                  *)
(***************************************************************************)
EXTENDS Naturals, Sequences, SequencesExt

CONSTANTS
  Hashes,          \* sha-256 values; entries that differ have different ones
  NoHash,          \* prev of the first entry: null
  Broken,          \* a line that JSON.parse rejects
  AppendOutcomes,  \* what appendFileSync may do, see Outcomes
  MaxSeq,          \* bound: entries built in a behaviour
  MaxCrashes       \* bound: deaths in a behaviour

\* The whole line, nothing, a part of it, or all of it but the newline.
Outcomes == {"ok", "kept", "torn", "bare"}

ASSUME TrailAssumption ==
  /\ AppendOutcomes \subseteq Outcomes
  /\ MaxSeq \in Nat /\ MaxCrashes \in Nat
  /\ NoHash \notin Hashes

VARIABLES
  up,       \* a process is running
  crashes,
  chain,    \* `chain`; while no process runs, what the last one returned
  seq,      \* `seq`, the number of the last entry built
  file,     \* the lines of command-centre-audit.jsonl
  open      \* its last line has no newline yet

trailVars == <<up, crashes, chain, seq, file, open>>

Entries == [seq : 1 .. MaxSeq, prev : Hashes \cup {NoHash}, hash : Hashes]

ASSUME BrokenAssumption == Broken \notin Entries

-----------------------------------------------------------------------------
LastHash(entries) == IF entries = <<>> THEN NoHash ELSE entries[Len(entries)].hash

\* The entry appendAudit builds.
NextEntry(h) == [seq |-> seq + 1, prev |-> LastHash(chain), hash |-> h]

\* Text written after an unfinished line ends up on that line.
LineAdded(line) ==
  IF open THEN [file EXCEPT ![Len(file)] = Broken] ELSE Append(file, line)

FileAfter(w, entry) ==
  CASE w = "kept"          -> file
    [] w = "torn"          -> LineAdded(Broken)
    [] w \in {"ok", "bare"} -> LineAdded(entry)

OpenAfter(w) ==
  CASE w = "kept"            -> open
    [] w \in {"torn", "bare"} -> TRUE
    [] w = "ok"              -> FALSE

Fresh == Hashes \ ({chain[i].hash : i \in DOMAIN chain}
                   \cup {file[i].hash : i \in {j \in DOMAIN file : file[j] # Broken}})

\* A slip the runs must notice: the entry is pushed before it is written.
PushedFirst(w, entry) == Append(chain, entry)

\* chain.push comes after the write.
Pushed(w, entry) == IF w = "ok" THEN Append(chain, entry) ELSE chain

\* boot() parses every line; the first that fails ends the process at import.
Boots == \A i \in DOMAIN file : file[i] # Broken

\* The counter continues from the last line.
SeqAtBoot == IF file = <<>> THEN 0 ELSE file[Len(file)].seq

-----------------------------------------------------------------------------
TrailInit ==
  /\ up = TRUE /\ crashes = 0
  /\ chain = <<>> /\ seq = 0
  /\ file = <<>> /\ open = FALSE

appendAudit(h, w) ==
  /\ up /\ seq < MaxSeq
  /\ seq' = seq + 1
  /\ file' = FileAfter(w, NextEntry(h))
  /\ open' = OpenAfter(w)
  /\ chain' = Pushed(w, NextEntry(h))
  /\ UNCHANGED <<up, crashes>>

\* The process dies between two turns.
Crash ==
  /\ up /\ crashes < MaxCrashes
  /\ up' = FALSE
  /\ crashes' = crashes + 1
  /\ UNCHANGED <<chain, seq, file, open>>

\* It dies inside appendFileSync, or right after it.
CrashInAppend(h, w) ==
  /\ up /\ crashes < MaxCrashes /\ seq < MaxSeq
  /\ up' = FALSE
  /\ crashes' = crashes + 1
  /\ file' = FileAfter(w, NextEntry(h))
  /\ open' = OpenAfter(w)
  /\ UNCHANGED <<chain, seq>>

\* A slip: lines that do not parse are skipped.
bootTolerant ==
  /\ ~up
  /\ up' = TRUE
  /\ chain' = SelectSeq(file, LAMBDA line : line # Broken)
  /\ seq' = seq
  /\ UNCHANGED <<crashes, file, open>>

boot ==
  /\ ~up
  /\ Boots
  /\ up' = TRUE
  /\ chain' = file
  /\ seq' = SeqAtBoot
  /\ UNCHANGED <<crashes, file, open>>

TrailNext ==
  \/ \E h \in Fresh, w \in AppendOutcomes : appendAudit(h, w) \/ CrashInAppend(h, w)
  \/ Crash
  \/ boot

TrailSpec == TrailInit /\ [][TrailNext]_trailVars

-----------------------------------------------------------------------------
\* Every variable has the shape the code gives it.
TrailTypeOK ==
  /\ up \in BOOLEAN /\ open \in BOOLEAN
  /\ crashes \in 0 .. MaxCrashes
  /\ chain \in Seq(Entries)
  /\ seq \in 0 .. MaxSeq
  /\ file \in Seq(Entries \cup {Broken})

\* verifyAudit answers ok: every entry names its predecessor's hash, across
\* failed appends, numbers left out, and processes (appendAudit, boot).
ChainUnbroken ==
  \A i \in DOMAIN chain :
    chain[i].prev = IF i = 1 THEN NoHash ELSE chain[i - 1].hash

\* No two entries of the trail bear the same number, and later ones bear larger
\* numbers, whatever numbers failed appends used up (appendAudit, boot).
SeqIncreasing ==
  \A i, j \in DOMAIN chain : i < j => chain[i].seq < chain[j].seq

\* An entry readAudit has returned is returned for ever, at the same place, by
\* this process and by every later one: it "CANNOT be silently rewritten".
AppendOnly == [][IsPrefix(chain, chain')]_trailVars

\* Nothing is lost in silence: a file that still boots gives the next process
\* every entry readAudit has returned, whatever appends failed in between
\* (appendAudit writes before it pushes).
NothingLostSilently == Boots => IsPrefix(chain, file)
=============================================================================
