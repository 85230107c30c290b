-------------------------- MODULE AuditTrailProofs --------------------------
(***************************************************************************)
(* The trail, for every set of hashes, every number of entries and deaths,  *)
(* and every mix of whole, missing, torn and unterminated lines.            *)
(***************************************************************************)
EXTENDS AuditTrail, TLAPS

\* Lines that chain up, in the order of their numbers.
Linked(es) ==
  \A i \in 1 .. Len(es) : es[i].prev = IF i = 1 THEN NoHash ELSE es[i - 1].hash

Ordered(es) == \A i, j \in 1 .. Len(es) : i < j => es[i].seq < es[j].seq

Extended(es, longer) ==
  Len(es) <= Len(longer) /\ \A i \in 1 .. Len(es) : es[i] = longer[i]

Bounded(es, n) == \A i \in 1 .. Len(es) : es[i].seq <= n

\* A file that parses may be ahead of the memory only while nobody runs or its
\* last line is unfinished; in both cases no append can build on the gap.
TrailInv ==
  /\ Linked(chain) /\ Ordered(chain) /\ Bounded(chain, seq)
  /\ open => file # <<>>
  /\ Boots => /\ file \in Seq(Entries)
              /\ Linked(file) /\ Ordered(file) /\ Extended(chain, file)
  /\ up /\ Boots /\ ~open => file = chain

-----------------------------------------------------------------------------
\* The library's prefix relation, read position by position.
LEMMA PrefixPointwise ==
  ASSUME NEW S, NEW s \in Seq(S), NEW t \in Seq(S), Extended(s, t)
  PROVE  IsPrefix(s, t)
<1>1. Len(s) <= Len(t) /\ Len(s) \in Nat /\ Len(t) \in Nat
  BY DEF Extended
<1>2. SubSeq(s, 1, Len(s)) \in Seq(S) /\ SubSeq(t, 1, Len(s)) \in Seq(S)
  BY <1>1
<1>3. /\ Len(SubSeq(s, 1, Len(s))) = Len(s)
      /\ Len(SubSeq(t, 1, Len(s))) = Len(s)
  BY <1>1
<1>4. \A i \in 1 .. Len(s) : SubSeq(s, 1, Len(s))[i] = SubSeq(t, 1, Len(s))[i]
  BY <1>1 DEF Extended
<1>5. SubSeq(s, 1, Len(s)) = SubSeq(t, 1, Len(s))
  BY <1>2, <1>3, <1>4
<1> QED
  BY <1>1, <1>5 DEF IsPrefix

LEMMA ExtendedSelf == ASSUME NEW S, NEW s \in Seq(S) PROVE Extended(s, s)
  BY DEF Extended

LEMMA ExtendedAppend ==
  ASSUME NEW S, NEW s \in Seq(S), NEW e \in S
  PROVE  Extended(s, Append(s, e))
  BY DEF Extended

\* A new entry continues the chain it was built on.
LEMMA NextEntryFits ==
  ASSUME NEW h \in Hashes, seq \in Nat, seq < MaxSeq, chain \in Seq(Entries),
         Linked(chain), Ordered(chain), Bounded(chain, seq)
  PROVE  /\ NextEntry(h) \in Entries
         /\ Append(chain, NextEntry(h)) \in Seq(Entries)
         /\ Linked(Append(chain, NextEntry(h)))
         /\ Ordered(Append(chain, NextEntry(h)))
         /\ Bounded(Append(chain, NextEntry(h)), seq + 1)
<1> DEFINE e == NextEntry(h)
           longer == Append(chain, e)
<1>1. e = [seq |-> seq + 1, prev |-> LastHash(chain), hash |-> h]
  BY DEF NextEntry
<1>2. LastHash(chain) \in Hashes \cup {NoHash}
  <2>1. CASE chain = <<>>
    BY <2>1 DEF LastHash
  <2>2. CASE chain # <<>>
    <3>1. chain[Len(chain)] \in Entries
      BY <2>2
    <3>2. chain[Len(chain)].hash \in Hashes
      BY <3>1 DEF Entries
    <3> QED
      BY <2>2, <3>2 DEF LastHash
  <2> QED
    BY <2>1, <2>2
<1>3. seq + 1 \in 1 .. MaxSeq
  BY TrailAssumption
<1>4. e \in Entries
  BY <1>1, <1>2, <1>3 DEF Entries
<1>5. /\ longer \in Seq(Entries)
      /\ Len(longer) = Len(chain) + 1
      /\ longer[Len(chain) + 1] = e
      /\ \A i \in 1 .. Len(chain) : longer[i] = chain[i]
  BY <1>4
<1>6. \A i \in 1 .. Len(chain) : chain[i] \in Entries /\ chain[i].seq \in Nat
  <2>1. \A x \in Entries : x.seq \in Nat
    BY TrailAssumption DEF Entries
  <2> QED
    BY <2>1
<1>7. e.prev = LastHash(chain) /\ e.seq = seq + 1
  BY <1>1
<1> HIDE DEF e, longer
<1>8. Linked(longer)
  <2>1. Len(chain) \in Nat /\ (chain = <<>> <=> Len(chain) = 0)
    OBVIOUS
  <2>2. e.prev = IF Len(chain) + 1 = 1 THEN NoHash ELSE chain[Len(chain)].hash
    BY <1>7, <2>1 DEF LastHash
  <2>3. SUFFICES ASSUME NEW i \in 1 .. Len(longer)
                 PROVE  longer[i].prev = IF i = 1 THEN NoHash ELSE longer[i - 1].hash
    BY DEF Linked
  <2>4. CASE i = Len(chain) + 1
    BY <1>5, <2>1, <2>2, <2>4
  <2>5. CASE i # Len(chain) + 1
    <3>1. i \in 1 .. Len(chain)
      BY <1>5, <2>1, <2>5
    <3>2. chain[i].prev = IF i = 1 THEN NoHash ELSE chain[i - 1].hash
      BY <3>1 DEF Linked
    <3>3. i # 1 => i - 1 \in 1 .. Len(chain)
      BY <3>1, <2>1
    <3> QED
      BY <3>1, <3>2, <3>3, <1>5
  <2> QED
    BY <2>4, <2>5
<1>9. Bounded(longer, seq + 1)
  BY <1>5, <1>6, <1>7 DEF Bounded
<1>10. Ordered(longer)
  <2> SUFFICES ASSUME NEW i \in 1 .. Len(longer), NEW j \in 1 .. Len(longer), i < j
               PROVE  longer[i].seq < longer[j].seq
    BY DEF Ordered
  <2>1. i \in 1 .. Len(chain) /\ longer[i] = chain[i]
    BY <1>5
  <2>2. CASE j = Len(chain) + 1
    <3>1. chain[i].seq <= seq /\ chain[i].seq \in Nat
      BY <1>6, <2>1 DEF Bounded
    <3> QED
      BY <1>5, <1>7, <2>1, <2>2, <3>1
  <2>3. CASE j # Len(chain) + 1
    <3>1. j \in 1 .. Len(chain) /\ longer[j] = chain[j]
      BY <1>5, <2>3
    <3> QED
      BY <2>1, <3>1 DEF Ordered
  <2> QED
    BY <2>2, <2>3
<1> QED
  BY <1>4, <1>5, <1>8, <1>9, <1>10 DEF e, longer

-----------------------------------------------------------------------------
\* What a write does to the file: nothing, a line that no later boot accepts,
\* or, when the file was the memory's own chain, one more entry.
LEMMA WriteCases ==
  ASSUME TrailTypeOK, TrailInv, up, seq < MaxSeq,
         NEW h \in Hashes, NEW w \in AppendOutcomes,
         file' = FileAfter(w, NextEntry(h))
  PROVE  \/ w = "kept" /\ file' = file
         \/ w # "kept" /\ ~Boots'
         \/ /\ w \in {"ok", "bare"}
            /\ file = chain
            /\ file' = Append(chain, NextEntry(h))
<1>1. w \in {"ok", "kept", "torn", "bare"}
  BY TrailAssumption DEF Outcomes
<1>2. seq \in Nat /\ chain \in Seq(Entries) /\ file \in Seq(Entries \cup {Broken})
  BY TrailAssumption DEF TrailTypeOK
<1>3. CASE w = "kept"
  BY <1>3 DEF FileAfter
<1>4. CASE w # "kept" /\ open
  <2>1. PICK line : file' = [file EXCEPT ![Len(file)] = line] /\ line = Broken
    BY <1>1, <1>4 DEF FileAfter, LineAdded
  <2>2. file # <<>> /\ Len(file) \in DOMAIN file
    BY <1>2, <1>4 DEF TrailInv
  <2>3. Len(file) \in DOMAIN file' /\ file'[Len(file)] = Broken
    BY <2>1, <2>2, <1>2
  <2> QED
    BY <2>3, <1>4 DEF Boots
<1>5. CASE w = "torn" /\ ~open
  <2>1. file' = Append(file, Broken)
    BY <1>5 DEF FileAfter, LineAdded
  <2>2. Len(file) + 1 \in DOMAIN file' /\ file'[Len(file) + 1] = Broken
    BY <2>1, <1>2
  <2> QED
    BY <2>2, <1>5 DEF Boots
<1>6. CASE w \in {"ok", "bare"} /\ ~open
  <2>1. file' = Append(file, NextEntry(h))
    BY <1>6 DEF FileAfter, LineAdded
  <2>2. CASE Boots
    BY <2>1, <2>2, <1>6 DEF TrailInv
  <2>3. CASE ~Boots
    <3>1. PICK i \in DOMAIN file : file[i] = Broken
      BY <2>3 DEF Boots
    <3>2. i \in DOMAIN file' /\ file'[i] = Broken
      <4>1. NextEntry(h) \in Entries
        BY <1>2, NextEntryFits DEF TrailInv
      <4> QED
        BY <2>1, <3>1, <4>1, <1>2
    <3> QED
      BY <3>2, <1>6 DEF Boots
  <2> QED
    BY <2>2, <2>3
<1> QED
  BY <1>1, <1>3, <1>4, <1>5, <1>6

LEMMA TrailTypeInit == TrailInit => TrailTypeOK
<1>1. <<>> \in Seq(Entries) /\ <<>> \in Seq(Entries \cup {Broken})
  OBVIOUS
<1>2. 0 \in 0 .. MaxCrashes /\ 0 \in 0 .. MaxSeq
  BY TrailAssumption
<1> QED
  BY <1>1, <1>2 DEF TrailInit, TrailTypeOK

LEMMA TrailTypeStep ==
  TrailTypeOK /\ TrailInv /\ [TrailNext]_trailVars => TrailTypeOK'
<1> SUFFICES ASSUME TrailTypeOK, TrailInv, [TrailNext]_trailVars
             PROVE  TrailTypeOK'
  OBVIOUS
<1> DEFINE Lines == Entries \cup {Broken}
<1>1. /\ seq \in Nat /\ MaxSeq \in Nat /\ MaxCrashes \in Nat /\ crashes \in Nat
      /\ chain \in Seq(Entries) /\ file \in Seq(Lines)
  BY TrailAssumption DEF TrailTypeOK
<1>2. ASSUME NEW h \in Hashes, NEW w \in AppendOutcomes, seq < MaxSeq
      PROVE  /\ FileAfter(w, NextEntry(h)) \in Seq(Lines)
             /\ OpenAfter(w) \in BOOLEAN
             /\ NextEntry(h) \in Entries
  <2>1. NextEntry(h) \in Entries
    BY <1>1, <1>2, NextEntryFits DEF TrailInv
  <2>2. ASSUME NEW line \in Lines PROVE LineAdded(line) \in Seq(Lines)
    BY <1>1, <2>2 DEF LineAdded
  <2>3. w \in {"ok", "kept", "torn", "bare"}
    BY TrailAssumption DEF Outcomes
  <2>4. FileAfter(w, NextEntry(h)) \in
          {file, LineAdded(Broken), LineAdded(NextEntry(h))}
    BY <2>3 DEF FileAfter
  <2>5. OpenAfter(w) \in {open, TRUE, FALSE}
    BY <2>3 DEF OpenAfter
  <2> QED
    BY <1>1, <2>1, <2>2, <2>4, <2>5 DEF TrailTypeOK
<1>3. CASE \E h \in Fresh, w \in AppendOutcomes : appendAudit(h, w)
  <2>1. PICK h \in Hashes, w \in AppendOutcomes : appendAudit(h, w)
    BY <1>3 DEF Fresh
  <2>2. chain' \in Seq(Entries)
    BY <1>1, <1>2, <2>1 DEF appendAudit, Pushed
  <2>3. file' \in Seq(Lines) /\ open' \in BOOLEAN
    BY <1>2, <2>1 DEF appendAudit
  <2>4. seq' \in 0 .. MaxSeq
    BY <1>1, <2>1 DEF appendAudit
  <2> QED
    BY <2>1, <2>2, <2>3, <2>4 DEF appendAudit, TrailTypeOK
<1>4. CASE \E h \in Fresh, w \in AppendOutcomes : CrashInAppend(h, w)
  <2>1. PICK h \in Hashes, w \in AppendOutcomes : CrashInAppend(h, w)
    BY <1>4 DEF Fresh
  <2>2. file' \in Seq(Lines) /\ open' \in BOOLEAN
    BY <1>2, <2>1 DEF CrashInAppend
  <2>3. crashes' \in 0 .. MaxCrashes
    BY <1>1, <2>1 DEF CrashInAppend
  <2> QED
    BY <2>1, <2>2, <2>3 DEF CrashInAppend, TrailTypeOK
<1>5. CASE Crash
  <2>1. crashes' \in 0 .. MaxCrashes
    BY <1>1, <1>5 DEF Crash
  <2>2. chain' = chain /\ seq' = seq /\ file' = file /\ open' = open /\ up' = FALSE
    BY <1>5 DEF Crash
  <2> QED
    BY <2>1, <2>2 DEF TrailTypeOK
<1>6. CASE boot
  <2>1. Boots /\ up' = TRUE /\ chain' = file /\ seq' = SeqAtBoot
        /\ UNCHANGED <<crashes, file, open>>
    BY <1>6 DEF boot
  <2>2. file \in Seq(Entries)
    BY <2>1 DEF TrailInv
  <2>3. SeqAtBoot \in 0 .. MaxSeq
    <3>1. CASE file = <<>>
      BY <1>1, <3>1 DEF SeqAtBoot
    <3>2. CASE file # <<>>
      <4>1. file[Len(file)] \in Entries
        BY <2>2, <3>2
      <4>2. file[Len(file)].seq \in 1 .. MaxSeq
        BY <4>1 DEF Entries
      <4> QED
        BY <1>1, <3>2, <4>2 DEF SeqAtBoot
    <3> QED
      BY <3>1, <3>2
  <2> QED
    BY <2>1, <2>2, <2>3 DEF TrailTypeOK
<1>7. CASE UNCHANGED trailVars
  BY <1>7 DEF trailVars, TrailTypeOK
<1> QED
  BY <1>3, <1>4, <1>5, <1>6, <1>7 DEF TrailNext

-----------------------------------------------------------------------------
LEMMA TrailInvInit == TrailInit => TrailInv
  BY DEF TrailInit, TrailInv, Linked, Ordered, Bounded, Extended, Boots

LEMMA TrailInvStep ==
  TrailTypeOK /\ TrailInv /\ [TrailNext]_trailVars => TrailInv'
<1> SUFFICES ASSUME TrailTypeOK, TrailInv, [TrailNext]_trailVars
             PROVE  TrailInv'
  OBVIOUS
<1>1. /\ seq \in Nat /\ MaxSeq \in Nat
      /\ chain \in Seq(Entries) /\ file \in Seq(Entries \cup {Broken})
  BY TrailAssumption DEF TrailTypeOK
<1>2. Linked(chain) /\ Ordered(chain) /\ Bounded(chain, seq)
  BY DEF TrailInv
<1>3. ASSUME NEW e \in Entries PROVE Append(chain, e) # <<>>
  BY <1>1
<1>4. CASE \E h \in Fresh, w \in AppendOutcomes : appendAudit(h, w)
  <2>1. PICK h \in Hashes, w \in AppendOutcomes : appendAudit(h, w)
    BY <1>4 DEF Fresh
  <2>2. /\ up /\ seq < MaxSeq /\ seq' = seq + 1 /\ up' = up
        /\ file' = FileAfter(w, NextEntry(h))
        /\ open' = OpenAfter(w)
        /\ chain' = Pushed(w, NextEntry(h))
    BY <2>1 DEF appendAudit
  <2> DEFINE longer == Append(chain, NextEntry(h))
  <2>3. /\ NextEntry(h) \in Entries /\ longer \in Seq(Entries)
        /\ Linked(longer) /\ Ordered(longer) /\ Bounded(longer, seq + 1)
    BY <1>1, <1>2, <2>2, NextEntryFits
  <2>4. chain' = IF w = "ok" THEN longer ELSE chain
    BY <2>2 DEF Pushed
  <2>5. Bounded(chain, seq + 1)
    <3>1. \A i \in 1 .. Len(chain) : chain[i].seq \in Nat
      <4>1. \A x \in Entries : x.seq \in Nat
        BY TrailAssumption DEF Entries
      <4> QED
        BY <4>1, <1>1
    <3> QED
      BY <1>1, <1>2, <3>1 DEF Bounded
  <2>6. Linked(chain') /\ Ordered(chain') /\ Bounded(chain', seq')
    BY <1>2, <2>2, <2>3, <2>4, <2>5
  <2>7. \/ w = "kept" /\ file' = file
        \/ w # "kept" /\ ~Boots'
        \/ w \in {"ok", "bare"} /\ file = chain /\ file' = longer
    BY <2>2, WriteCases
  <2>8. open' => file' # <<>>
    <3>1. CASE w = "kept"
      BY <2>2, <2>7, <3>1 DEF TrailInv, FileAfter, OpenAfter
    <3>2. CASE w # "kept"
      <4>1. \/ ~Boots'
            \/ file' = longer
        BY <2>7, <3>2
      <4>2. ~Boots' => file' # <<>>
        BY DEF Boots
      <4> QED
        BY <4>1, <4>2, <1>3, <2>3
    <3> QED
      BY <3>1, <3>2
  <2>9. CASE w = "kept" /\ file' = file
    <3>1. open' = open /\ chain' = chain
      BY <2>2, <2>4, <2>9 DEF OpenAfter
    <3>2. Boots' <=> Boots
      BY <2>9 DEF Boots
    <3> QED
      BY <2>2, <2>6, <2>8, <2>9, <3>1, <3>2 DEF TrailInv
  <2>10. CASE ~Boots'
    BY <2>6, <2>8, <2>10 DEF TrailInv
  <2>11. CASE w \in {"ok", "bare"} /\ file = chain /\ file' = longer
    <3>1. Extended(chain, longer) /\ Extended(longer, longer)
      BY <1>1, <2>3, ExtendedSelf, ExtendedAppend
    <3>2. Extended(chain', file')
      BY <2>4, <2>11, <3>1
    <3>3. ~open' => file' = chain'
      <4>1. w = "bare" => open'
        BY <2>2 DEF OpenAfter
      <4> QED
        BY <4>1, <2>4, <2>11
    <3> QED
      BY <2>3, <2>6, <2>8, <2>11, <3>2, <3>3 DEF TrailInv
  <2> QED
    BY <2>7, <2>9, <2>10, <2>11
<1>5. CASE \E h \in Fresh, w \in AppendOutcomes : CrashInAppend(h, w)
  <2>1. PICK h \in Hashes, w \in AppendOutcomes : CrashInAppend(h, w)
    BY <1>5 DEF Fresh
  <2>2. /\ up /\ seq < MaxSeq /\ seq' = seq /\ up' = FALSE /\ chain' = chain
        /\ file' = FileAfter(w, NextEntry(h))
        /\ open' = OpenAfter(w)
    BY <2>1 DEF CrashInAppend
  <2> DEFINE longer == Append(chain, NextEntry(h))
  <2>3. /\ NextEntry(h) \in Entries /\ longer \in Seq(Entries)
        /\ Linked(longer) /\ Ordered(longer)
    BY <1>1, <1>2, <2>2, NextEntryFits
  <2>4. \/ w = "kept" /\ file' = file
        \/ w # "kept" /\ ~Boots'
        \/ w \in {"ok", "bare"} /\ file = chain /\ file' = longer
    BY <2>2, WriteCases
  <2>5. CASE w = "kept" /\ file' = file
    <3>1. open' = open
      BY <2>2, <2>5 DEF OpenAfter
    <3>2. Boots' <=> Boots
      BY <2>5 DEF Boots
    <3> QED
      BY <2>2, <2>5, <3>1, <3>2 DEF TrailInv
  <2>6. CASE ~Boots'
    <3>1. file' # <<>>
      BY <2>6 DEF Boots
    <3> QED
      BY <1>2, <2>2, <2>6, <3>1 DEF TrailInv
  <2>7. CASE file = chain /\ file' = longer
    <3>1. Extended(chain, longer)
      BY <1>1, <2>3, ExtendedAppend
    <3>2. file' # <<>>
      BY <1>3, <2>3, <2>7
    <3> QED
      BY <1>2, <2>2, <2>3, <2>7, <3>1, <3>2 DEF TrailInv
  <2> QED
    BY <2>4, <2>5, <2>6, <2>7
<1>6. CASE Crash
  BY <1>6 DEF Crash, TrailInv, Boots
<1>7. CASE boot
  <2>1. Boots /\ up' = TRUE /\ chain' = file /\ seq' = SeqAtBoot
        /\ UNCHANGED <<crashes, file, open>>
    BY <1>7 DEF boot
  <2>2. file \in Seq(Entries) /\ Linked(file) /\ Ordered(file)
    BY <2>1 DEF TrailInv
  <2>3. Bounded(file, SeqAtBoot)
    <3>1. \A i \in 1 .. Len(file) : file[i].seq \in Nat
      <4>1. \A x \in Entries : x.seq \in Nat
        BY TrailAssumption DEF Entries
      <4> QED
        BY <4>1, <2>2
    <3> QED
      BY <2>2, <3>1 DEF Bounded, Ordered, SeqAtBoot
  <2>4. Extended(file, file)
    BY <2>2, ExtendedSelf
  <2> QED
    BY <2>1, <2>2, <2>3, <2>4 DEF TrailInv, Boots
<1>8. CASE UNCHANGED trailVars
  BY <1>8 DEF trailVars, TrailInv, Boots
<1> QED
  BY <1>4, <1>5, <1>6, <1>7, <1>8 DEF TrailNext

\* Every variable of the trail keeps its shape (auditTrail.mjs).
THEOREM TrailTypeCorrect == TrailSpec => []TrailTypeOK
<1>1. TrailInit => TrailTypeOK /\ TrailInv
  BY TrailTypeInit, TrailInvInit
<1>2. TrailTypeOK /\ TrailInv /\ [TrailNext]_trailVars => TrailTypeOK' /\ TrailInv'
  BY TrailTypeStep, TrailInvStep
<1> QED
  BY <1>1, <1>2, PTL DEF TrailSpec

LEMMA TrailInvariant == TrailSpec => []TrailInv
<1>1. TrailInit => TrailTypeOK /\ TrailInv
  BY TrailTypeInit, TrailInvInit
<1>2. TrailTypeOK /\ TrailInv /\ [TrailNext]_trailVars => TrailTypeOK' /\ TrailInv'
  BY TrailTypeStep, TrailInvStep
<1> QED
  BY <1>1, <1>2, PTL DEF TrailSpec

-----------------------------------------------------------------------------
\* verifyAudit answers ok for ever: failed appends, unused numbers and deaths
\* never leave an entry in memory whose predecessor it does not name
\* (appendAudit, boot).
THEOREM ChainAlwaysUnbroken == TrailSpec => []ChainUnbroken
<1>1. TrailTypeOK /\ TrailInv => ChainUnbroken
  BY DEF TrailTypeOK, TrailInv, Linked, ChainUnbroken
<1> QED
  BY <1>1, TrailTypeCorrect, TrailInvariant, PTL

\* The numbers readAudit returns grow along the trail (appendAudit, boot).
THEOREM SeqAlwaysIncreasing == TrailSpec => []SeqIncreasing
<1>1. TrailTypeOK /\ TrailInv => SeqIncreasing
  BY DEF TrailTypeOK, TrailInv, Ordered, SeqIncreasing
<1> QED
  BY <1>1, TrailTypeCorrect, TrailInvariant, PTL

\* A file that still parses holds everything readAudit has returned
\* (appendAudit writes before it pushes).
THEOREM NothingEverLostSilently == TrailSpec => []NothingLostSilently
<1>1. TrailTypeOK /\ TrailInv => NothingLostSilently
  <2> SUFFICES ASSUME TrailTypeOK, TrailInv, Boots PROVE IsPrefix(chain, file)
    BY DEF NothingLostSilently
  <2>1. chain \in Seq(Entries) /\ file \in Seq(Entries) /\ Extended(chain, file)
    BY DEF TrailTypeOK, TrailInv
  <2> QED
    BY <2>1, PrefixPointwise
<1> QED
  BY <1>1, TrailTypeCorrect, TrailInvariant, PTL

\* What readAudit has returned keeps its place for ever, in this process and in
\* every one that boots after it (appendAudit, boot).
THEOREM TrailAppendOnly == TrailSpec => AppendOnly
<1>1. TrailTypeOK /\ TrailTypeOK' /\ TrailInv /\ [TrailNext]_trailVars
        => [IsPrefix(chain, chain')]_trailVars
  <2> SUFFICES ASSUME TrailTypeOK, TrailTypeOK', TrailInv, TrailNext
               PROVE  IsPrefix(chain, chain')
    OBVIOUS
  <2>1. chain \in Seq(Entries) /\ chain' \in Seq(Entries)
    BY DEF TrailTypeOK
  <2>2. Extended(chain, chain')
    <3>1. CASE \E h \in Fresh, w \in AppendOutcomes : appendAudit(h, w)
      <4>1. PICK h \in Hashes, w \in AppendOutcomes : appendAudit(h, w)
        BY <3>1 DEF Fresh
      <4>2. seq \in Nat /\ seq < MaxSeq
        BY <4>1, TrailAssumption DEF appendAudit, TrailTypeOK
      <4>3. NextEntry(h) \in Entries
        BY <2>1, <4>2, NextEntryFits DEF TrailInv
      <4>4. chain' = chain \/ chain' = Append(chain, NextEntry(h))
        BY <4>1 DEF appendAudit, Pushed
      <4> QED
        BY <2>1, <4>3, <4>4, ExtendedSelf, ExtendedAppend
    <3>2. CASE chain' = chain
      BY <2>1, <3>2, ExtendedSelf
    <3>3. CASE boot
      BY <3>3 DEF boot, TrailInv
    <3> QED
      BY <3>1, <3>2, <3>3 DEF TrailNext, CrashInAppend, Crash
  <2> QED
    BY <2>1, <2>2, PrefixPointwise
<1> QED
  BY <1>1, TrailTypeCorrect, TrailInvariant, PTL DEF TrailSpec, AppendOnly
-----------------------------------------------------------------------------
\* While every append writes its line whole or nothing at all, no boot ever
\* fails on the trail, however many processes die around and inside an append:
\* the only way to a process that cannot start is a line cut short (appendAudit
\* writes with one appendFileSync, boot parses every line).
THEOREM WholeAppendsAlwaysBoot ==
  ASSUME AppendOutcomes \subseteq {"ok", "kept"}
  PROVE  TrailSpec => []Boots
<1> DEFINE Whole == Boots /\ ~open
<1>1. TrailInit => Whole
  BY DEF TrailInit, Boots
<1>2. TrailTypeOK /\ TrailInv /\ Whole /\ [TrailNext]_trailVars => Whole'
  <2> SUFFICES ASSUME TrailTypeOK, TrailInv, Whole, [TrailNext]_trailVars
               PROVE  Whole'
    OBVIOUS
  <2>1. ASSUME NEW h \in Fresh, NEW w \in AppendOutcomes,
               appendAudit(h, w) \/ CrashInAppend(h, w)
        PROVE  Whole'
    <3>1. /\ w \in {"ok", "kept"} /\ seq < MaxSeq /\ h \in Hashes
          /\ file' = FileAfter(w, NextEntry(h)) /\ open' = OpenAfter(w)
      BY <2>1 DEF appendAudit, CrashInAppend, Fresh
    <3>2. ~open'
      BY <3>1 DEF OpenAfter
    <3>3. chain \in Seq(Entries) /\ file \in Seq(Entries \cup {Broken}) /\ seq \in Nat
      BY TrailAssumption DEF TrailTypeOK
    <3>4. NextEntry(h) \in Entries
      BY <3>1, <3>3, NextEntryFits DEF TrailInv
    <3>5. file' \in {file, Append(file, NextEntry(h))}
      BY <3>1 DEF FileAfter, LineAdded
    <3>6. Boots'
      BY <3>3, <3>4, <3>5, BrokenAssumption DEF Boots
    <3> QED
      BY <3>2, <3>6
  <2>2. CASE Crash \/ boot \/ UNCHANGED trailVars
    BY <2>2 DEF Crash, boot, trailVars, Boots
  <2> QED
    BY <2>1, <2>2 DEF TrailNext
<1>3. Whole => Boots
  OBVIOUS
<1> QED
  BY <1>1, <1>2, <1>3, TrailTypeCorrect, TrailInvariant, PTL DEF TrailSpec
=============================================================================
