--------------------------- MODULE AuditLogProofs ---------------------------
(***************************************************************************)
(* Theorems about the audit log, for any writers, contents and bound: it   *)
(* is tamper-evident, and what was recorded stays provable while nobody    *)
(* alters the file.                                                        *)
(***************************************************************************)
EXTENDS AuditLog, SequenceTheorems, WellOrder

LEMMA EntryIsEntry ==
    ASSUME NEW p \in Seq(Bodies), NEW b \in Bodies
    PROVE  /\ Entry(p, b) \in EntryType
           /\ Part(Entry(p, b)) \in EntryType
           /\ Entry(p, b).hash = Append(p, b)
           /\ Entry(p, b).whole
           /\ ~Part(Entry(p, b)).whole
<1>1. Append(p, b) \in Seq(Bodies)
  BY AppendProperties
<1> QED BY <1>1 DEF Entry, Part, Digest, EntryType

\* What the bare type invariant says of a line that is read.
LEMMA LineType ==
    ASSUME TypeOK, NEW i \in 1..Len(lines)
    PROVE  /\ lines[i] \in Seq(EntryType)
           /\ IsRecord(lines[i]) => /\ lines[i] = <<lines[i][1]>>
                                    /\ lines[i][1] \in EntryType
                                    /\ lines[i][1].hash \in Seq(Bodies)
<1>1. lines[i] \in Seq(EntryType)
  BY ElementOfSeq DEF TypeOK
<1>2. ASSUME IsRecord(lines[i])
      PROVE  lines[i] = <<lines[i][1]>> /\ lines[i][1] \in EntryType
  <2>1. Len(lines[i]) = 1
    BY <1>2 DEF IsRecord
  <2>2. lines[i][1] \in EntryType
    BY <1>1, <2>1, ElementOfSeq
  <2>3. lines[i] = <<lines[i][1]>>
    <3>1. <<lines[i][1]>> \in Seq(EntryType) /\ Len(<<lines[i][1]>>) = 1
      BY <2>2
    <3>2. \A k \in 1..1 : lines[i][k] = <<lines[i][1]>>[k]
      OBVIOUS
    <3> QED BY <1>1, <2>1, <3>1, <3>2, SeqEqual
  <2> QED BY <2>2, <2>3
<1>3. \A e \in EntryType : e.hash \in Seq(Bodies)
  BY DEF EntryType
<1> QED BY <1>1, <1>2, <1>3

\* The lines after a write.
LEMMA PutLines ==
    ASSUME TypeOK, NEW piece \in EntryType, Put(piece)
    PROVE  /\ lines' \in Seq(Seq(EntryType))
           /\ newline => /\ Len(lines') = Len(lines) + 1
                         /\ lines'[Len(lines')] = <<piece>>
                         /\ \A i \in 1..Len(lines) : lines'[i] = lines[i]
           /\ ~newline => /\ Len(lines') = Len(lines)
                          /\ lines # <<>> => lines'[Len(lines')]
                                             = Append(lines[Len(lines)], piece)
<1>1. lines \in Seq(Seq(EntryType)) /\ Len(lines) \in Nat /\ <<piece>> \in Seq(EntryType)
  BY LenProperties DEF TypeOK
<1>2. CASE newline
  BY <1>1, <1>2, AppendProperties DEF Put
<1>3. CASE ~newline
  <2>1. CASE lines = <<>>
    <3>1. Len(lines) = 0 /\ DOMAIN lines = 1..0
      BY <1>1, <2>1, EmptySeq, LenProperties
    <3>2. lines' = [lines EXCEPT ![0] = Append(lines[0], piece)]
      BY <1>3, <3>1 DEF Put
    <3>3. lines' = lines
      BY <1>1, <3>1, <3>2
    <3> QED BY <1>1, <1>3, <2>1, <3>3
  <2>2. CASE lines # <<>>
    <3>1. Len(lines) \in 1..Len(lines)
      BY <1>1, <2>2, EmptySeq
    <3>2. Append(lines[Len(lines)], piece) \in Seq(EntryType)
      BY <3>1, LineType, AppendProperties
    <3>3. lines' = [lines EXCEPT ![Len(lines)] = Append(lines[Len(lines)], piece)]
      BY <1>3 DEF Put
    <3> QED BY <1>1, <1>3, <3>1, <3>2, <3>3, ExceptSeq
  <2> QED BY <2>1, <2>2
<1> QED BY <1>2, <1>3

\* The lines after an edit, and after one of them was removed.
LEMMA EditLines ==
    ASSUME TypeOK, NEW i, NEW b \in Bodies, Edit(i, b)
    PROVE  /\ i \in 1..Len(lines)
           /\ lines' \in Seq(Seq(EntryType))
           /\ Len(lines') = Len(lines)
           /\ lines'[i] = <<[lines[i][1] EXCEPT !.body = b]>>
           /\ IsRecord(lines'[i]) /\ IsRecord(lines[i])
           /\ lines'[i][1].hash = lines[i][1].hash
           /\ \A k \in 1..Len(lines) : k # i => lines'[k] = lines[k]
<1> DEFINE e == [lines[i][1] EXCEPT !.body = b]
<1>1. lines \in Seq(Seq(EntryType)) /\ i \in 1..Len(lines) /\ IsRecord(lines[i])
  BY LenProperties DEF TypeOK, Edit
<1>2. lines[i] = <<lines[i][1]>> /\ lines[i][1] \in EntryType
  BY <1>1, LineType
<1>3. e \in EntryType /\ e.hash = lines[i][1].hash /\ e.whole = lines[i][1].whole
  BY <1>2 DEF EntryType
<1> HIDE DEF e
<1>4. [lines[i] EXCEPT ![1] = e] = <<e>>
  BY <1>2
<1>5. lines' = [lines EXCEPT ![i] = [lines[i] EXCEPT ![1] = e]]
  BY <1>1 DEF Edit, e
<1>6. <<e>> \in Seq(EntryType) /\ IsRecord(<<e>>)
  <2>1. <<e>> \in Seq(EntryType) /\ Len(<<e>>) = 1 /\ <<e>>[1] = e
    BY <1>3
  <2>2. e.whole
    BY <1>1, <1>3 DEF IsRecord
  <2> QED BY <2>1, <2>2 DEF IsRecord
<1>7. lines' = [lines EXCEPT ![i] = <<e>>]
  BY <1>4, <1>5
<1>8. /\ lines' \in Seq(Seq(EntryType))
      /\ Len(lines') = Len(lines)
      /\ lines'[i] = <<e>>
      /\ \A k \in 1..Len(lines) : k # i => lines'[k] = lines[k]
  BY <1>1, <1>6, <1>7, ExceptSeq
<1>9. IsRecord(lines'[i]) /\ lines'[i][1].hash = lines[i][1].hash
  <2>1. <<e>>[1] = e
    OBVIOUS
  <2> QED BY <1>3, <1>6, <1>8, <2>1
<1> QED BY <1>1, <1>8, <1>9 DEF e

LEMMA DeleteLines ==
    ASSUME TypeOK, NEW i, Delete(i)
    PROVE  /\ lines' \in Seq(Seq(EntryType))
           /\ Len(lines) \in Nat
           /\ Len(lines') = Len(lines) - 1
           /\ Len(lines') > 0
           /\ lines'[Len(lines')] = lines[Len(lines)]
<1> DEFINE front == SubSeq(lines, 1, i - 1)
           back == SubSeq(lines, i + 1, Len(lines))
<1>1. /\ lines \in Seq(Seq(EntryType)) /\ Len(lines) \in Nat
      /\ i \in 1..(Len(lines) - 1)
      /\ lines' = front \o back
  BY LenProperties DEF TypeOK, Delete
<1>2. \A k \in 1..Len(lines) : lines[k] \in Seq(EntryType)
  BY <1>1, ElementOfSeq
<1>3. front \in Seq(Seq(EntryType)) /\ Len(front) = i - 1
  BY <1>1, <1>2, SubSeqProperties
<1>4. /\ back \in Seq(Seq(EntryType)) /\ Len(back) = Len(lines) - i
      /\ back[Len(back)] = lines[Len(lines)]
  BY <1>1, <1>2, SubSeqProperties
<1> QED BY <1>1, <1>3, <1>4, ConcatProperties

-----------------------------------------------------------------------------
\* Type correctness of the audit log.
THEOREM TypeCorrect == Spec => []TypeOK
<1>1. Init => TypeOK
  BY EmptySeq DEF Init, TypeOK, Genesis
<1>2. TypeOK /\ [Next]_vars => TypeOK'
  <2> SUFFICES ASSUME TypeOK, [Next]_vars PROVE TypeOK'
    OBVIOUS
  <2> USE DEF Goto, Leave, Unlock, log, history
  <2>0. ASSUME NEW w \in Writers
        PROVE  /\ previous[w] \in Seq(Bodies) /\ entry[w] \in Bodies
               /\ Genesis \in Seq(Bodies)
    BY EmptySeq DEF TypeOK, Genesis
  <2>1. ASSUME NEW w \in Writers, NEW b \in Bodies, Call(w, b) PROVE TypeOK'
    BY <2>1 DEF TypeOK, Call
  <2>2. ASSUME NEW w \in Writers, Acquire(w) PROVE TypeOK'
    <3>1. HashAfter(Len(lines)) \in Seq(Bodies)
      <4>1. CASE Len(lines) = 0
        BY <2>0, <4>1 DEF HashAfter
      <4>2. CASE Len(lines) # 0
        <5>1. Len(lines) \in 1..Len(lines)
          BY <4>2, LenProperties DEF TypeOK
        <5>2. IsRecord(lines[Len(lines)])
          BY <2>2, <5>1 DEF Acquire, Verified, VerifiedUpTo, Linked
        <5> QED BY <4>2, <5>1, <5>2, LineType DEF HashAfter
      <4> QED BY <4>1, <4>2
    <3> QED BY <2>2, <3>1 DEF TypeOK, Acquire
  <2>3. ASSUME NEW w \in Writers, Reject(w) PROVE TypeOK'
    BY <2>0, <2>3 DEF TypeOK, Reject
  <2>4. ASSUME NEW w \in Writers, Write(w) PROVE TypeOK'
    <3>1. lines' \in Seq(Seq(EntryType))
      BY <2>0, <2>4, EntryIsEntry, PutLines DEF Write
    <3> QED BY <2>4, <3>1 DEF TypeOK, Write
  <2>5. ASSUME NEW w \in Writers, NEW how \in Torn, Tear(w, how) PROVE TypeOK'
    <3>1. lines' \in Seq(Seq(EntryType))
      BY <2>0, <2>5, EntryIsEntry, PutLines DEF Tear
    <3> QED BY <2>0, <2>5, <3>1 DEF TypeOK, Tear
  <2>6. ASSUME NEW w \in Writers, Finish(w) PROVE TypeOK'
    <3>1. Entry(previous[w], entry[w]) \in EntryType
      BY <2>0, EntryIsEntry
    <3> QED BY <2>0, <2>6, <3>1 DEF TypeOK, Finish
  <2>7. ASSUME NEW w \in Writers, Abort(w) PROVE TypeOK'
    BY <2>0, <2>7 DEF TypeOK, Abort
  <2>8. ASSUME NEW i, NEW b \in Bodies, Edit(i, b) PROVE TypeOK'
    <3>1. lines' \in Seq(Seq(EntryType))
      BY <2>8, EditLines
    <3> QED BY <2>8, <3>1 DEF TypeOK, Edit
  <2>9. ASSUME NEW i, Delete(i) PROVE TypeOK'
    <3>1. lines' \in Seq(Seq(EntryType))
      BY <2>9, DeleteLines
    <3> QED BY <2>9, <3>1 DEF TypeOK, Delete
  <2>10. CASE UNCHANGED vars
    BY <2>10 DEF TypeOK, vars
  <2> QED BY <2>1, <2>2, <2>3, <2>4, <2>5, <2>6, <2>7, <2>8, <2>9, <2>10 DEF Next
<1> QED BY <1>1, <1>2, PTL DEF Spec

-----------------------------------------------------------------------------
(***************************************************************************)
(* Durable evidence.  A writer past _last_entry_hash holds the lock.       *)
(***************************************************************************)
LockInv == \A w \in Writers : pc[w] \in {"linking", "closing"} => lock = w

LEMMA LockStep ==
    ASSUME TypeOK, LockInv, [Next]_vars
    PROVE  LockInv'
<1> USE WritersAssumption DEF Goto, Leave, Unlock, log, history
<1>1. ASSUME NEW w \in Writers, Acquire(w) PROVE LockInv'
  BY <1>1 DEF TypeOK, LockInv, Acquire
<1>2. ASSUME NEW w \in Writers, Write(w) PROVE LockInv'
  BY <1>2 DEF TypeOK, LockInv, Write
<1>3. ASSUME NEW w \in Writers, Leave(w) PROVE LockInv'
  BY <1>3 DEF TypeOK, LockInv
<1>4. ASSUME NEW w \in Writers, NEW b \in Bodies, Call(w, b) PROVE LockInv'
  BY <1>4 DEF TypeOK, LockInv, Call
<1>5. ASSUME UNCHANGED <<pc, lock>> PROVE LockInv'
  BY <1>5 DEF LockInv
<1> QED BY <1>1, <1>2, <1>3, <1>4, <1>5 DEF Next, Reject, Finish, Abort, Tear, Edit, Delete, vars

\* While nobody alters the file: a log that verifies ends in a newline, since a
\* torn write leaves no record behind; a writer that links has verified the
\* log, and its lock keeps the others from writing; and what it has written is
\* provable before its call returns.
ChainInv ==
    ~altered =>
       /\ Verified => newline
       /\ AllProvable
       /\ \A w \in Writers :
             /\ pc[w] = "linking" => Verified /\ previous[w] = HashAfter(Len(lines))
             /\ pc[w] = "closing" => Provable(Entry(previous[w], entry[w]))

\* A line that is added after a newline leaves what verifies as it is.
LEMMA Extended ==
    ASSUME TypeOK, newline, NEW piece \in EntryType, Put(piece)
    PROVE  /\ \A n \in 0..Len(lines) : VerifiedUpTo(n) => VerifiedUpTo(n)'
           /\ \A e : Provable(e) => Provable(e)'
<1>1. /\ Len(lines) \in Nat
      /\ Len(lines') = Len(lines) + 1
      /\ \A i \in 1..Len(lines) : lines'[i] = lines[i]
      /\ DOMAIN lines = 1..Len(lines)
      /\ DOMAIN lines' = 1..Len(lines')
  BY PutLines, LenProperties DEF TypeOK
<1>2. \A i \in 0..Len(lines) : HashAfter(i)' = HashAfter(i)
  BY <1>1 DEF HashAfter
<1>3. \A i \in 1..Len(lines) : Linked(i) => Linked(i)'
  <2> TAKE i \in 1..Len(lines)
  <2>1. i - 1 \in 0..Len(lines) /\ lines'[i] = lines[i]
    BY <1>1
  <2> QED BY <1>2, <2>1 DEF Linked
<1>4. \A n \in 0..Len(lines) : VerifiedUpTo(n) => VerifiedUpTo(n)'
  BY <1>1, <1>3 DEF VerifiedUpTo
<1>5. ASSUME NEW e, Provable(e) PROVE Provable(e)'
  <2>1. PICK n \in DOMAIN lines : lines[n] = <<e>> /\ VerifiedUpTo(n)
    BY <1>5 DEF Provable
  <2>2. n \in DOMAIN lines' /\ lines'[n] = <<e>> /\ VerifiedUpTo(n)'
    BY <1>1, <1>4, <2>1
  <2> QED BY <2>2 DEF Provable
<1> QED BY <1>4, <1>5

\* The line that Write adds links to the log it has verified.
LEMMA Linking ==
    ASSUME TypeOK, newline, Verified, NEW b \in Bodies, NEW p \in Seq(Bodies),
           p = HashAfter(Len(lines)), Put(Entry(p, b))
    PROVE  Verified' /\ Provable(Entry(p, b))'
<1>1. /\ Entry(p, b) \in EntryType /\ Entry(p, b).whole
      /\ Entry(p, b).prev = p
      /\ Entry(p, b).hash = Digest(p, Entry(p, b).body)
  BY EntryIsEntry DEF Entry
<1>2. PICK e \in EntryType : e = Entry(p, b)
  BY <1>1
<1>3. PICK m \in Nat : m = Len(lines)
  BY LenProperties DEF TypeOK
<1>4. /\ Len(lines') = m + 1
      /\ lines'[m + 1] = <<e>>
      /\ \A i \in 1..m : lines'[i] = lines[i]
      /\ DOMAIN lines' = 1..(m + 1)
  BY <1>2, <1>3, PutLines, LenProperties DEF TypeOK
<1>5. HashAfter(m)' = p
  BY <1>3, <1>4 DEF HashAfter
<1>6. Linked(m + 1)'
  <2>1. IsRecord(lines'[m + 1]) /\ lines'[m + 1][1] = e
    BY <1>1, <1>2, <1>4 DEF IsRecord
  <2>2. (m + 1) - 1 = m
    OBVIOUS
  <2> QED BY <1>1, <1>2, <1>5, <2>1, <2>2 DEF Linked
<1>7. VerifiedUpTo(m)'
  BY <1>2, <1>3, Extended DEF Verified
<1>8. VerifiedUpTo(m + 1)'
  BY <1>6, <1>7 DEF VerifiedUpTo
<1>9. Provable(e)'
  BY <1>4, <1>8 DEF Provable
<1> QED BY <1>2, <1>4, <1>8, <1>9 DEF Verified

\* What does not touch the file leaves what it proves as it is.
LEMMA SameLog ==
    ASSUME UNCHANGED log
    PROVE  /\ Verified' <=> Verified
           /\ HashAfter(Len(lines))' = HashAfter(Len(lines))
           /\ \A e : Provable(e)' <=> Provable(e)
<1>1. lines' = lines
  BY DEF log
<1>2. \A n : HashAfter(n)' = HashAfter(n)
  BY <1>1 DEF HashAfter
<1>3. \A n : VerifiedUpTo(n)' <=> VerifiedUpTo(n)
  BY <1>1, <1>2 DEF VerifiedUpTo, Linked
<1> QED BY <1>1, <1>2, <1>3 DEF Verified, Provable

\* A write that was torn inside the record leaves a log that does not verify.
LEMMA TornApart ==
    ASSUME TypeOK, newline, NEW e \in EntryType, ~e.whole, Put(e)
    PROVE  ~Verified'
<1>1. PICK m \in Nat : m = Len(lines)
  BY LenProperties DEF TypeOK
<1>2. Len(lines') = m + 1 /\ lines'[m + 1] = <<e>>
  BY <1>1, PutLines
<1>3. ~IsRecord(lines'[m + 1])
  BY <1>2 DEF IsRecord
<1> QED BY <1>1, <1>2, <1>3 DEF Verified, VerifiedUpTo, Linked

LEMMA ChainStep ==
    ASSUME "bare" \notin Torn, TypeOK, LockInv, ChainInv, [Next]_vars
    PROVE  ChainInv'
<1> USE DEF Goto, Leave, history
<1> SUFFICES ASSUME ~altered' PROVE ChainInv'
  BY DEF ChainInv
<1>0. ~altered
  BY DEF Next, Call, Acquire, Reject, Write, Tear, Finish, Abort, Edit, Delete, vars
<1>1. /\ Verified => newline
      /\ AllProvable
      /\ \A w \in Writers :
            /\ pc[w] = "linking" => Verified /\ previous[w] = HashAfter(Len(lines))
            /\ pc[w] = "closing" => Provable(Entry(previous[w], entry[w]))
  BY <1>0 DEF ChainInv
\* A step that leaves the file and the recorded entries alone, and a writer to
\* which the invariant applies where it was.
<1>2. ASSUME UNCHANGED <<log, recorded>>,
             NEW w \in Writers, \A v \in Writers \ {w} : /\ pc'[v] = pc[v]
                                                        /\ previous'[v] = previous[v]
                                                        /\ entry'[v] = entry[v],
             pc'[w] = "linking" => Verified /\ previous'[w] = HashAfter(Len(lines)),
             pc'[w] # "closing"
      PROVE  ChainInv'
  <2>1. (Verified => newline)' /\ AllProvable'
    BY <1>1, <1>2, SameLog DEF AllProvable, log
  <2>2. ASSUME NEW v \in Writers
        PROVE  (/\ pc[v] = "linking" => Verified /\ previous[v] = HashAfter(Len(lines))
                /\ pc[v] = "closing" => Provable(Entry(previous[v], entry[v])))'
    <3>1. CASE v = w
      BY <1>2, <3>1, SameLog
    <3>2. CASE v # w
      <4>1. pc'[v] = pc[v] /\ previous'[v] = previous[v] /\ entry'[v] = entry[v]
        BY <1>2, <3>2
      <4>2. Entry(previous[v], entry[v])' = Entry(previous[v], entry[v])
        BY <4>1 DEF Entry
      <4>3. \A e : Provable(e)' <=> Provable(e)
        BY <1>2, SameLog
      <4>4. pc'[v] = "closing" => Provable(Entry(previous[v], entry[v]))'
        BY <1>1, <4>1, <4>2, <4>3
      <4> QED BY <1>1, <1>2, <4>1, <4>4, SameLog
    <3> QED BY <3>1, <3>2
  <2> QED BY <2>1, <2>2 DEF ChainInv
<1>3. ASSUME NEW w \in Writers, NEW b \in Bodies, Call(w, b) PROVE ChainInv'
  <2>1. pc'[w] = "waiting" /\ UNCHANGED <<log, recorded, previous>>
    BY <1>3 DEF Call, TypeOK
  <2>2. \A v \in Writers \ {w} : pc'[v] = pc[v] /\ entry'[v] = entry[v]
    BY <1>3 DEF Call, TypeOK
  <2> QED BY <1>2, <2>1, <2>2
<1>4. ASSUME NEW w \in Writers, Acquire(w) PROVE ChainInv'
  <2>1. /\ pc'[w] = "linking" /\ previous'[w] = HashAfter(Len(lines))
        /\ Verified /\ UNCHANGED <<log, recorded, entry>>
    BY <1>4 DEF Acquire, TypeOK
  <2>2. \A v \in Writers \ {w} : pc'[v] = pc[v] /\ previous'[v] = previous[v]
    BY <1>4 DEF Acquire, TypeOK
  <2> QED BY <1>2, <2>1, <2>2
\* A call that ends without having written.
<1>5. ASSUME NEW w \in Writers, Leave(w), UNCHANGED <<log, entry, recorded>>
      PROVE  ChainInv'
  <2>1. pc'[w] = "idle"
    BY <1>5 DEF TypeOK
  <2>2. \A v \in Writers \ {w} : pc'[v] = pc[v] /\ previous'[v] = previous[v]
    BY <1>5 DEF TypeOK
  <2> QED BY <1>2, <1>5, <2>1, <2>2
<1>6. ASSUME NEW w \in Writers, Write(w) PROVE ChainInv'
  <2>1. PICK p \in Seq(Bodies), b \in Bodies : p = previous[w] /\ b = entry[w]
    BY DEF TypeOK
  <2>2. /\ pc[w] = "linking" /\ Put(Entry(p, b)) /\ newline'
        /\ UNCHANGED <<lock, entry, previous, recorded>>
    BY <1>6, <2>1 DEF Write
  <2>3. Verified /\ p = HashAfter(Len(lines)) /\ newline
    BY <1>1, <2>1, <2>2
  <2>4. Verified' /\ Provable(Entry(p, b))'
    BY <2>2, <2>3, Linking
  <2>5. \A e : Provable(e) => Provable(e)'
    BY <2>1, <2>2, <2>3, EntryIsEntry, Extended
  <2>6. AllProvable'
    BY <1>1, <2>2, <2>5 DEF AllProvable
  <2>7. Entry(previous[w], entry[w])' = Entry(p, b)
    BY <2>1, <2>2 DEF Entry
  <2>8. ASSUME NEW v \in Writers
        PROVE  pc'[v] # "linking" /\ (pc'[v] = "closing" => v = w)
    <3>1. CASE v = w
      BY <1>6, <3>1 DEF Write, TypeOK
    <3>2. CASE v # w
      BY <1>6, <2>2, <3>2 DEF Write, TypeOK, LockInv
    <3> QED BY <3>1, <3>2
  <2> QED BY <2>2, <2>4, <2>6, <2>7, <2>8 DEF ChainInv
<1>7. ASSUME NEW w \in Writers, NEW how \in Torn, Tear(w, how) PROVE ChainInv'
  <2>1. PICK p \in Seq(Bodies), b \in Bodies : p = previous[w] /\ b = entry[w]
    BY DEF TypeOK
  <2>2. PICK e \in EntryType : e = Part(Entry(p, b)) /\ ~e.whole
    BY EntryIsEntry
  <2>3. how = "piece"
    BY FaultsAssumption DEF TornWrites
  <2>4. /\ pc[w] = "linking" /\ Put(e)
        /\ UNCHANGED <<entry, recorded>>
    BY <1>7, <2>1, <2>2, <2>3 DEF Tear
  <2>5. newline
    BY <1>1, <2>4
  <2>6. ~Verified'
    BY <2>2, <2>4, <2>5, TornApart
  <2>7. \A f : Provable(f) => Provable(f)'
    BY <2>2, <2>4, <2>5, Extended
  <2>8. AllProvable'
    BY <1>1, <2>4, <2>7 DEF AllProvable
  <2>9. ASSUME NEW v \in Writers
        PROVE  pc'[v] \notin {"linking", "closing"}
    <3>1. CASE v = w
      BY <1>7, <3>1 DEF Tear, TypeOK
    <3>2. CASE v # w
      BY <1>7, <2>4, <3>2 DEF Tear, TypeOK, LockInv
    <3> QED BY <3>1, <3>2
  <2> QED BY <2>6, <2>8, <2>9 DEF ChainInv
<1>8. ASSUME NEW w \in Writers, Finish(w) PROVE ChainInv'
  <2>1. PICK e : e = Entry(previous[w], entry[w])
    OBVIOUS
  <2>2. /\ pc[w] = "closing" /\ recorded' = recorded \cup {e}
        /\ UNCHANGED <<log, entry, altered>>
    BY <1>8, <2>1 DEF Finish
  <2>3. Provable(e) /\ \A f : Provable(f)' <=> Provable(f)
    BY <1>1, <2>1, <2>2, SameLog
  <2>4. AllProvable' /\ (Verified => newline)'
    BY <1>1, <2>2, <2>3, SameLog DEF AllProvable, log
  <2>5. ASSUME NEW v \in Writers
        PROVE  pc'[v] \notin {"linking", "closing"}
    <3>1. CASE v = w
      BY <1>8, <3>1 DEF Finish, TypeOK
    <3>2. CASE v # w
      BY <1>8, <2>2, <3>2 DEF Finish, TypeOK, LockInv
    <3> QED BY <3>1, <3>2
  <2> QED BY <2>4, <2>5 DEF ChainInv
<1>9. CASE UNCHANGED vars
  <2>1. UNCHANGED <<log, recorded, pc, previous, entry>>
    BY <1>9 DEF vars
  <2>2. AllProvable' /\ (Verified => newline)'
    BY <1>1, <2>1, SameLog DEF AllProvable, log
  <2>3. ASSUME NEW v \in Writers
        PROVE  (/\ pc[v] = "linking" => Verified /\ previous[v] = HashAfter(Len(lines))
                /\ pc[v] = "closing" => Provable(Entry(previous[v], entry[v])))'
    <3>1. Entry(previous[v], entry[v])' = Entry(previous[v], entry[v])
      BY <2>1 DEF Entry
    <3> QED BY <1>1, <2>1, <3>1, SameLog
  <2> QED BY <2>2, <2>3 DEF ChainInv
<1> QED BY <1>3, <1>4, <1>5, <1>6, <1>7, <1>8, <1>9
        DEF Next, Reject, Abort, Edit, Delete

\* What was recorded stays part of the chain that verifies, while nobody alters
\* the file, if no torn write loses only its newline.
THEOREM EvidenceIsDurable == ASSUME "bare" \notin Torn PROVE Spec => []RecordedVerifies
<1>1. Init => LockInv /\ ChainInv
  <2>1. Init => lines = <<>> /\ newline /\ recorded = {}
    BY DEF Init
  <2>2. Init => \A w \in Writers : pc[w] = "idle"
    BY DEF Init
  <2> QED BY <2>1, <2>2 DEF LockInv, ChainInv, AllProvable
<1>2. TypeOK /\ LockInv /\ ChainInv /\ [Next]_vars => (LockInv /\ ChainInv)'
  BY LockStep, ChainStep
<1>3. ChainInv => RecordedVerifies
  BY DEF ChainInv, RecordedVerifies
<1> QED BY <1>1, <1>2, <1>3, TypeCorrect, PTL DEF Spec

-----------------------------------------------------------------------------
(***************************************************************************)
(* Tamper evidence.  A digest is the sequence of the bodies it covers.     *)
(***************************************************************************)
Prefix(s, t) == Len(s) <= Len(t) /\ \A i \in 1..Len(s) : s[i] = t[i]

\* The digest covers every entry that was recorded, and what came before it.
Covers(digest) == \A e \in recorded : Prefix(e.hash, digest)

LastLine == lines[Len(lines)]

\* Whoever edits or removes lines leaves the digests and the last line alone.
\* So the last line, if it is a record, covers what was recorded, and so do
\* the digest that a writer links to and the record it has written.
DigestInv ==
    /\ \A e \in recorded : \E p \in Seq(Bodies), b \in Bodies : e = Entry(p, b)
    /\ lines = <<>> => /\ recorded = {} /\ newline
                       /\ \A w \in Writers : pc[w] # "closing"
    /\ ~newline => LastLine # <<>>
    /\ lines # <<>> /\ IsRecord(LastLine) => Covers(LastLine[1].hash)
    /\ \A w \in Writers :
          /\ pc[w] = "linking" => Covers(previous[w])
          /\ pc[w] = "closing" /\ IsRecord(LastLine) =>
                LastLine[1].hash = Digest(previous[w], entry[w])

\* In a log that verifies, the digest of line n is made of the bodies of the
\* first n lines: by induction on n.
LEMMA DigestOfLine ==
    ASSUME TypeOK, Verified
    PROVE  \A n \in 1..Len(lines) :
              /\ Len(lines[n][1].hash) = n
              /\ \A i \in 1..n : lines[n][1].hash[i] = lines[i][1].body
<1> DEFINE Made(n) == /\ HashAfter(n) \in Seq(Bodies)
                      /\ Len(HashAfter(n)) = n
                      /\ \A i \in 1..n : HashAfter(n)[i] = lines[i][1].body
           S == {n \in Nat : n <= Len(lines) => Made(n)}
<1>1. 0 \in S
  BY EmptySeq DEF HashAfter, Genesis
<1>2. ASSUME NEW n \in Nat, n \in S PROVE n + 1 \in S
  <2> SUFFICES ASSUME n + 1 <= Len(lines) PROVE Made(n + 1)
    OBVIOUS
  <2>1. n <= Len(lines) /\ n + 1 \in 1..Len(lines)
    BY LenProperties DEF TypeOK
  <2>2. Made(n)
    BY <1>2, <2>1
  <2>3. Linked(n + 1) /\ (n + 1) - 1 = n
    BY <2>1 DEF Verified, VerifiedUpTo
  <2>4. /\ lines[n + 1][1].hash = Append(HashAfter(n), lines[n + 1][1].body)
        /\ lines[n + 1][1] \in EntryType
    BY <2>1, <2>3, LineType DEF Linked, Digest
  <2>5. lines[n + 1][1].body \in Bodies
    BY <2>4 DEF EntryType
  <2>6. n + 1 # 0 /\ HashAfter(n + 1) = lines[n + 1][1].hash
    BY DEF HashAfter
  <2>7. /\ HashAfter(n + 1) \in Seq(Bodies)
        /\ Len(HashAfter(n + 1)) = n + 1
        /\ \A i \in 1..n : HashAfter(n + 1)[i] = HashAfter(n)[i]
        /\ HashAfter(n + 1)[n + 1] = lines[n + 1][1].body
    <3>1. PICK h \in Seq(Bodies), b \in Bodies :
             h = HashAfter(n) /\ b = lines[n + 1][1].body
      BY <2>2, <2>5
    <3>2. HashAfter(n + 1) = Append(h, b)
      BY <2>4, <2>6, <3>1
    <3> HIDE DEF HashAfter
    <3>3. Len(h) = n
      BY <2>2, <3>1
    <3>4. /\ Append(h, b) \in Seq(Bodies) /\ Len(Append(h, b)) = n + 1
          /\ \A i \in 1..n : Append(h, b)[i] = h[i]
          /\ Append(h, b)[n + 1] = b
      BY <3>3, AppendProperties
    <3> QED BY <3>1, <3>2, <3>4
  <2> QED BY <2>2, <2>7
<1>3. Nat \subseteq S
  <2> HIDE DEF S
  <2> QED BY <1>1, <1>2, Induction
<1>4. \A n \in 1..Len(lines) : n \in Nat /\ n # 0 /\ Made(n)
  BY <1>3, LenProperties DEF TypeOK
<1> QED BY <1>4 DEF HashAfter

LEMMA DigestsProve ==
    ASSUME TypeOK, DigestInv, Verified
    PROVE  AllProvable
<1> SUFFICES ASSUME NEW e \in recorded PROVE Provable(e)
  BY DEF AllProvable
<1>1. PICK p \in Seq(Bodies), b \in Bodies : e = Entry(p, b)
  BY DEF DigestInv
<1>2. e \in EntryType /\ e.hash = Append(p, b) /\ e.hash \in Seq(Bodies)
  <2>1. Append(p, b) \in Seq(Bodies)
    BY AppendProperties
  <2> QED BY <1>1, <2>1, EntryIsEntry
<1>3. PICK m \in Nat : m = Len(lines)
  BY LenProperties DEF TypeOK
<1>4. m # 0 /\ m \in 1..Len(lines)
  BY <1>3, EmptySeq DEF DigestInv, TypeOK
<1>5. IsRecord(lines[m])
  BY <1>4 DEF Verified, VerifiedUpTo, Linked
<1>6. Prefix(e.hash, lines[m][1].hash)
  BY <1>3, <1>4, <1>5, EmptySeq DEF DigestInv, Covers, LastLine
<1>7. PICK k \in 1..m : k = Len(e.hash)
  BY <1>1, <1>2, <1>3, <1>4, <1>6, AppendProperties, DigestOfLine, LenProperties DEF Prefix
<1>8. Linked(k) /\ IsRecord(lines[k])
  BY <1>3 DEF Verified, VerifiedUpTo, Linked
<1>9. /\ lines[k] = <<lines[k][1]>>
      /\ lines[k][1] \in EntryType
      /\ lines[k][1].hash \in Seq(Bodies)
  BY <1>3, <1>8, LineType
<1>10. lines[k][1].hash = e.hash
  <2>1. Len(lines[k][1].hash) = k
    BY <1>3, DigestOfLine
  <2>2. \A i \in 1..k : lines[k][1].hash[i] = lines[i][1].body
    BY <1>3, DigestOfLine
  <2>3. \A i \in 1..k : e.hash[i] = lines[i][1].body
    BY <1>3, <1>4, <1>6, <1>7, DigestOfLine DEF Prefix
  <2>4. \A i \in 1..Len(lines[k][1].hash) : lines[k][1].hash[i] = e.hash[i]
    BY <2>1, <2>2, <2>3
  <2>5. Len(lines[k][1].hash) = Len(e.hash)
    BY <1>7, <2>1
  <2> QED BY <1>2, <1>9, <2>4, <2>5, SeqEqual
<1>11. lines[k][1].prev = p /\ lines[k][1].body = b
  <2>1. Append(lines[k][1].prev, lines[k][1].body) = Append(p, b)
    BY <1>2, <1>8, <1>10 DEF Linked, Digest
  <2>2. lines[k][1].prev \in Seq(Bodies) /\ lines[k][1].body \in Bodies
    BY <1>9 DEF EntryType
  <2> QED BY <2>1, <2>2, AppendInjective
<1>12. lines[k][1] = e
  BY <1>1, <1>2, <1>8, <1>9, <1>10, <1>11 DEF Entry, EntryType, IsRecord
<1>13. VerifiedUpTo(k) /\ k \in DOMAIN lines
  BY <1>3, LenProperties DEF Verified, VerifiedUpTo, TypeOK
<1> QED BY <1>9, <1>12, <1>13 DEF Provable

\* Steps that add no line and record nothing.
LEMMA DigestsKept ==
    ASSUME DigestInv, UNCHANGED <<newline, recorded>>,
           lines' = <<>> <=> lines = <<>>,
           lines # <<>> => /\ LastLine # <<>> => LastLine' # <<>>
                           /\ IsRecord(LastLine') =>
                                 /\ IsRecord(LastLine)
                                 /\ LastLine'[1].hash = LastLine[1].hash,
           \A w \in Writers :
              \/ pc'[w] = pc[w] /\ previous'[w] = previous[w] /\ entry'[w] = entry[w]
              \/ pc'[w] = "linking" /\ Covers(previous'[w])
              \/ pc'[w] \in {"idle", "waiting"}
    PROVE  DigestInv'
<1>1. \A digest : Covers(digest)' <=> Covers(digest)
  BY DEF Covers
<1>2. LastLine' # <<>> \/ newline'
  BY DEF DigestInv
<1>3. ASSUME lines' # <<>>, IsRecord(LastLine') PROVE Covers(LastLine[1].hash)'
  <2>1. PICK h : h = LastLine[1].hash
    OBVIOUS
  <2>2. Covers(h)
    BY <1>3, <2>1 DEF DigestInv
  <2>3. Covers(h)' /\ LastLine'[1].hash = h
    BY <1>1, <1>3, <2>1, <2>2
  <2> QED BY <2>3 DEF Covers
<1>4. ASSUME NEW w \in Writers
      PROVE  /\ lines' = <<>> => pc'[w] # "closing"
             /\ pc'[w] = "linking" => Covers(previous[w])'
             /\ pc'[w] = "closing" /\ IsRecord(LastLine') =>
                  LastLine'[1].hash = Digest(previous[w], entry[w])'
  <2>1. CASE pc'[w] = pc[w] /\ previous'[w] = previous[w] /\ entry'[w] = entry[w]
    BY <2>1 DEF DigestInv, Covers, Digest
  <2>2. CASE pc'[w] = "linking" /\ Covers(previous'[w])
    BY <2>2 DEF Covers
  <2>3. CASE pc'[w] \in {"idle", "waiting"}
    BY <2>3
  <2> QED BY <2>1, <2>2, <2>3
<1>5. lines' = <<>> => recorded' = {} /\ newline'
  BY DEF DigestInv
<1>6. \A e \in recorded' : \E p \in Seq(Bodies), b \in Bodies : e = Entry(p, b)
  BY DEF DigestInv
<1> QED BY <1>2, <1>3, <1>4, <1>5, <1>6 DEF DigestInv

\* A line that is added is the last one; if it is a record, it is the one that
\* was written.
LEMMA PutLast ==
    ASSUME TypeOK, DigestInv, NEW e \in EntryType, Put(e)
    PROVE  /\ lines' # <<>> /\ LastLine' # <<>>
           /\ IsRecord(LastLine') => LastLine' = <<e>>
<1>1. PICK m \in Nat : m = Len(lines)
  BY LenProperties DEF TypeOK
<1>2. CASE newline
  <2>1. /\ lines' \in Seq(Seq(EntryType)) /\ Len(lines') = m + 1
        /\ lines'[m + 1] = <<e>>
    BY <1>1, <1>2, PutLines
  <2>2. lines' # <<>> /\ LastLine' = <<e>>
    BY <2>1, EmptySeq DEF LastLine
  <2> QED BY <2>2
<1>3. CASE ~newline
  <2>1. lines # <<>> /\ LastLine # <<>> /\ m # 0 /\ m \in 1..Len(lines)
    BY <1>1, <1>3, EmptySeq DEF DigestInv, TypeOK
  <2>2. /\ lines' \in Seq(Seq(EntryType)) /\ Len(lines') = m
        /\ lines'[m] = Append(lines[m], e)
    BY <1>1, <1>3, <2>1, PutLines
  <2>3. lines[m] \in Seq(EntryType) /\ Len(lines[m]) # 0
    BY <1>1, <2>1, LineType, EmptySeq DEF LastLine
  <2>4. Len(Append(lines[m], e)) # 1 /\ Append(lines[m], e) # <<>>
    BY <2>3, AppendProperties, LenProperties
  <2>5. lines' # <<>> /\ LastLine' = Append(lines[m], e)
    BY <2>1, <2>2, EmptySeq DEF LastLine
  <2> QED BY <2>4, <2>5 DEF IsRecord
<1> QED BY <1>2, <1>3

LEMMA CoversMore ==
    ASSUME DigestInv, NEW p \in Seq(Bodies), NEW b \in Bodies, Covers(p)
    PROVE  Covers(Append(p, b))
<1> SUFFICES ASSUME NEW e \in recorded PROVE Prefix(e.hash, Append(p, b))
  BY DEF Covers
<1>1. PICK q \in Seq(Bodies), c \in Bodies : e = Entry(q, c)
  BY DEF DigestInv
<1>2. e.hash = Append(q, c) /\ Append(q, c) \in Seq(Bodies)
  BY <1>1, EntryIsEntry, AppendProperties
<1>3. Len(e.hash) \in Nat /\ Len(p) \in Nat
  BY <1>2, LenProperties
<1>4. Prefix(e.hash, p)
  BY DEF Covers
<1>5. /\ Len(Append(p, b)) = Len(p) + 1
      /\ \A i \in 1..Len(p) : Append(p, b)[i] = p[i]
  BY AppendProperties
<1> QED BY <1>3, <1>4, <1>5 DEF Prefix

\* A writer that links adds a line, whole or torn, that covers what was recorded.
LEMMA DigestsGrow ==
    ASSUME TypeOK, LockInv, DigestInv, NEW w \in Writers, pc[w] = "linking",
           NEW e \in EntryType, Put(e), e.hash = Digest(previous[w], entry[w]),
           recorded' = recorded, previous'[w] = previous[w] \/ pc'[w] # "closing",
           entry' = entry, pc'[w] \in {"closing", "idle"},
           \A v \in Writers \ {w} : pc'[v] = pc[v]
    PROVE  DigestInv'
<1>1. lines' # <<>> /\ LastLine' # <<>> /\ (IsRecord(LastLine') => LastLine' = <<e>>)
  BY PutLast
<1>2. PICK p \in Seq(Bodies), b \in Bodies : p = previous[w] /\ b = entry[w]
  BY DEF TypeOK
<1>3. e.hash = Append(p, b) /\ Covers(Append(p, b))
  BY <1>2, CoversMore DEF DigestInv, Digest
<1>4. \A v \in Writers \ {w} : pc'[v] \notin {"linking", "closing"}
  BY DEF LockInv
<1>5. ASSUME IsRecord(LastLine')
      PROVE  /\ Covers(LastLine[1].hash)'
             /\ LastLine'[1].hash = Append(p, b)
  <2>1. LastLine'[1].hash = Append(p, b)
    BY <1>1, <1>3, <1>5
  <2>2. Covers(Append(p, b))'
    BY <1>3 DEF Covers
  <2> QED BY <2>1, <2>2 DEF Covers
<1>6. ASSUME NEW v \in Writers
      PROVE  /\ pc'[v] = "linking" => Covers(previous[v])'
             /\ pc'[v] = "closing" /\ IsRecord(LastLine') =>
                  LastLine'[1].hash = Digest(previous[v], entry[v])'
  <2>1. CASE v = w
    BY <1>2, <1>5, <2>1 DEF Digest
  <2>2. CASE v # w
    BY <1>4, <2>2
  <2> QED BY <2>1, <2>2
<1>7. \A f \in recorded' : \E q \in Seq(Bodies), c \in Bodies : f = Entry(q, c)
  BY DEF DigestInv
<1> QED BY <1>1, <1>5, <1>6, <1>7 DEF DigestInv

LEMMA DigestStep ==
    ASSUME TypeOK, LockInv, DigestInv, [Next]_vars
    PROVE  DigestInv'
<1> USE DEF Goto, Leave, history, log
<1>1. ASSUME NEW w \in Writers, UNCHANGED <<log, recorded>>,
             \A v \in Writers \ {w} : /\ pc'[v] = pc[v] /\ previous'[v] = previous[v]
                                      /\ entry'[v] = entry[v],
             \/ pc'[w] \in {"idle", "waiting"}
             \/ pc'[w] = "linking" /\ Covers(previous'[w])
      PROVE  DigestInv'
  <2>1. lines' = lines /\ LastLine' = LastLine /\ UNCHANGED <<newline, recorded>>
    BY <1>1 DEF LastLine
  <2> QED BY <1>1, <2>1, DigestsKept
<1>2. ASSUME NEW w \in Writers, NEW b \in Bodies, Call(w, b) PROVE DigestInv'
  BY <1>1, <1>2 DEF Call, TypeOK
<1>3. ASSUME NEW w \in Writers, Acquire(w) PROVE DigestInv'
  <2>1. PICK m \in Nat : m = Len(lines)
    BY LenProperties DEF TypeOK
  <2>2. Covers(HashAfter(m))
    <3>1. CASE lines = <<>>
      BY <3>1 DEF DigestInv, Covers
    <3>2. CASE lines # <<>>
      <4>1. m # 0 /\ m \in 1..Len(lines)
        BY <2>1, <3>2, EmptySeq DEF TypeOK
      <4>2. IsRecord(lines[m])
        BY <1>3, <4>1 DEF Acquire, Verified, VerifiedUpTo, Linked
      <4> QED BY <2>1, <3>2, <4>1, <4>2 DEF DigestInv, LastLine, HashAfter
    <3> QED BY <3>1, <3>2
  <2>3. pc'[w] = "linking" /\ previous'[w] = HashAfter(m)
    BY <1>3, <2>1 DEF Acquire, TypeOK
  <2>4. /\ UNCHANGED <<log, recorded>>
        /\ \A v \in Writers \ {w} : /\ pc'[v] = pc[v] /\ previous'[v] = previous[v]
                                    /\ entry'[v] = entry[v]
    BY <1>3 DEF Acquire, TypeOK
  <2> QED BY <1>1, <2>2, <2>3, <2>4
\* A call that ends without having written.
<1>4. ASSUME NEW w \in Writers, Leave(w), UNCHANGED <<log, entry, recorded>>
      PROVE  DigestInv'
  BY <1>1, <1>4 DEF TypeOK
<1>5. ASSUME NEW w \in Writers, Write(w) PROVE DigestInv'
  <2>1. PICK e : e = Entry(previous[w], entry[w])
    OBVIOUS
  <2>2. e \in EntryType /\ e.hash = Digest(previous[w], entry[w]) /\ Put(e)
    BY <1>5, <2>1, EntryIsEntry DEF Write, TypeOK, Digest
  <2>3. /\ pc[w] = "linking" /\ pc'[w] = "closing" /\ UNCHANGED <<recorded, entry, previous>>
        /\ \A v \in Writers \ {w} : pc'[v] = pc[v]
    BY <1>5 DEF Write, TypeOK
  <2> QED BY <2>2, <2>3, DigestsGrow
<1>6. ASSUME NEW w \in Writers, NEW how \in Torn, Tear(w, how) PROVE DigestInv'
  <2>1. PICK e : e = Entry(previous[w], entry[w])
    OBVIOUS
  <2>2. e \in EntryType /\ e.hash = Digest(previous[w], entry[w])
    BY <2>1, EntryIsEntry DEF TypeOK, Digest
  <2>3. Part(e) \in EntryType /\ Part(e).hash = e.hash
    BY <2>2 DEF Part, EntryType
  <2>4. Put(e) \/ Put(Part(e))
    BY <1>6, <2>1 DEF Tear
  <2>5. /\ pc[w] = "linking" /\ pc'[w] = "idle" /\ UNCHANGED <<recorded, entry>>
        /\ \A v \in Writers \ {w} : pc'[v] = pc[v]
    BY <1>6 DEF Tear, TypeOK
  <2>6. CASE Put(e)
    BY <2>2, <2>5, <2>6, DigestsGrow
  <2>7. CASE Put(Part(e))
    BY <2>2, <2>3, <2>5, <2>7, DigestsGrow
  <2> QED BY <2>4, <2>6, <2>7
<1>7. ASSUME NEW w \in Writers, Finish(w) PROVE DigestInv'
  <2>1. PICK p \in Seq(Bodies), b \in Bodies : p = previous[w] /\ b = entry[w]
    BY DEF TypeOK
  <2>2. /\ pc[w] = "closing" /\ recorded' = recorded \cup {Entry(p, b)}
        /\ lines' = lines /\ newline' = newline /\ LastLine' = LastLine
    BY <1>7, <2>1 DEF Finish, LastLine
  <2>3. lines # <<>>
    BY <2>2 DEF DigestInv
  <2>4. \A v \in Writers : pc'[v] \notin {"linking", "closing"}
    <3> TAKE v \in Writers
    <3>1. CASE v = w
      BY <1>7, <3>1 DEF Finish, TypeOK
    <3>2. CASE v # w
      BY <1>7, <2>2, <3>2 DEF Finish, TypeOK, LockInv
    <3> QED BY <3>1, <3>2
  <2>5. ASSUME IsRecord(LastLine), NEW f \in recorded'
        PROVE  Prefix(f.hash, LastLine[1].hash)
    <3>1. CASE f \in recorded
      BY <2>3, <2>5, <3>1 DEF DigestInv, Covers
    <3>2. CASE f = Entry(p, b)
      <4>1. f.hash = Append(p, b) /\ LastLine[1].hash = Append(p, b)
        BY <2>1, <2>2, <2>5, <3>2, EntryIsEntry DEF DigestInv, Digest
      <4>2. Append(p, b) \in Seq(Bodies) /\ Len(Append(p, b)) \in Nat
        BY AppendProperties, LenProperties
      <4> QED BY <4>1, <4>2 DEF Prefix
    <3> QED BY <2>2, <3>1, <3>2
  <2>6. \A f \in recorded' : \E q \in Seq(Bodies), c \in Bodies : f = Entry(q, c)
    BY <2>2 DEF DigestInv
  <2> QED BY <2>2, <2>3, <2>4, <2>5, <2>6 DEF DigestInv, Covers
<1>8. ASSUME NEW i, NEW b \in Bodies, Edit(i, b) PROVE DigestInv'
  <2>1. /\ i \in 1..Len(lines) /\ Len(lines') = Len(lines)
        /\ lines' \in Seq(Seq(EntryType))
        /\ lines'[i] = <<[lines[i][1] EXCEPT !.body = b]>>
        /\ IsRecord(lines[i]) /\ lines'[i][1].hash = lines[i][1].hash
        /\ \A k \in 1..Len(lines) : k # i => lines'[k] = lines[k]
    BY <1>8, EditLines
  <2>2. lines # <<>> /\ lines' # <<>>
    BY <2>1, EmptySeq DEF TypeOK
  <2>3. PICK m \in Nat : m = Len(lines)
    BY LenProperties DEF TypeOK
  <2>4. LastLine = lines[m] /\ LastLine' = lines'[m]
    BY <2>1, <2>3 DEF LastLine
  <2>5. CASE i = m
    <3>1. LastLine' # <<>> /\ IsRecord(LastLine) /\ LastLine'[1].hash = LastLine[1].hash
      BY <2>1, <2>4, <2>5
    <3> QED BY <1>8, <2>2, <3>1, DigestsKept DEF Edit
  <2>6. CASE i # m
    <3>1. LastLine' = LastLine
      BY <2>1, <2>3, <2>4, <2>6
    <3> QED BY <1>8, <2>2, <3>1, DigestsKept DEF Edit
  <2> QED BY <2>5, <2>6
<1>9. ASSUME NEW i, Delete(i) PROVE DigestInv'
  <2>1. /\ lines' \in Seq(Seq(EntryType)) /\ Len(lines) \in Nat
        /\ Len(lines') = Len(lines) - 1 /\ Len(lines') > 0
        /\ LastLine' = LastLine
    BY <1>9, DeleteLines DEF LastLine
  <2>2. lines # <<>> /\ lines' # <<>>
    BY <2>1, EmptySeq
  <2> QED BY <1>9, <2>1, <2>2, DigestsKept DEF Delete
<1>10. CASE UNCHANGED vars
  <2>1. lines' = lines /\ LastLine' = LastLine /\ UNCHANGED <<newline, recorded, pc, previous, entry>>
    BY <1>10 DEF LastLine, vars
  <2> QED BY <2>1, DigestsKept
<1> QED BY <1>2, <1>3, <1>4, <1>5, <1>6, <1>7, <1>8, <1>9, <1>10
        DEF Next, Reject, Abort

\* The log is tamper-evident: one that verifies holds everything that was
\* recorded, whatever was torn, edited or removed before its last line.
THEOREM TamperEvident == Spec => []VerifiedIsComplete
<1>1. Init => LockInv /\ DigestInv
  <2>1. Init => lines = <<>> /\ newline /\ recorded = {}
    BY DEF Init
  <2>2. Init => \A w \in Writers : pc[w] = "idle"
    BY DEF Init
  <2> QED BY <2>1, <2>2 DEF LockInv, DigestInv
<1>2. TypeOK /\ LockInv /\ DigestInv /\ [Next]_vars => (LockInv /\ DigestInv)'
  BY LockStep, DigestStep
<1>3. TypeOK /\ DigestInv => VerifiedIsComplete
  BY DigestsProve DEF VerifiedIsComplete
<1> QED BY <1>1, <1>2, <1>3, TypeCorrect, PTL DEF Spec
=============================================================================
