------------------------------ MODULE AuditLog ------------------------------
(***************************************************************************)
(* The hash-chained audit log of agent_sudo/audit.py: a JSONL file in      *)
(* which every record carries the digest of the one before.  record and    *)
(* record_event verify the whole log, link the new record to its end and   *)
(* append it under the file lock (module FileLock), and raise when the log *)
(* does not verify.                                                        *)
(*                                                                         *)
(* A physical line is the sequence of the pieces that were written to it:  *)
(* normally one record; a piece of a record when its writer failed in the  *)
(* middle of the write; and more than one piece when a write began while   *)
(* the file did not end in a newline.  Only a line that is exactly one     *)
(* record is valid JSON.  SHA-256 is taken to be injective: a digest is    *)
(* the sequence of the bodies it covers.                                   *)
(***************************************************************************)
EXTENDS Integers, Sequences

CONSTANTS Writers,   \* processes (or threads) with an AuditLogger
          NoWriter,  \* the lock is free
          Bodies,    \* the contents of records, without the hash fields
          MaxLines,  \* bound on the lines of the log
          Torn,      \* how far an interrupted write may get, see TornWrites
          Changes    \* what happens to the file from outside, see Alterations

\* "piece": part of the record reached the file.  "bare": all of it did, but
\* not the newline.
TornWrites == {"piece", "bare"}

\* "edit": the body of a record is replaced, its hash fields are not.
\* "delete": a line with a successor is removed.
Alterations == {"edit", "delete"}

ASSUME WritersAssumption == NoWriter \notin Writers
ASSUME BoundAssumption == MaxLines \in Nat
ASSUME FaultsAssumption == Torn \subseteq TornWrites /\ Changes \subseteq Alterations

VARIABLES lines,     \* the physical lines of the log
          newline,   \* whether the file is empty or ends in a newline
          lock,      \* the holder of audit.jsonl.lock
          pc,        \* where each writer is in _write_entry
          entry,     \* the body each writer records
          previous,  \* previous_hash, as each writer read it
          recorded,  \* history: the entries whose record call has returned
          altered    \* history: whether the file was changed from outside

log == <<lines, newline>>
history == <<recorded, altered>>
vars == <<log, lock, pc, entry, previous, history>>

Genesis == <<>>

\* compute_entry_hash
Digest(prev, body) == Append(prev, body)

\* A record as it is written, or the part of it that reached the file.
EntryType == [prev : Seq(Bodies), body : Bodies, hash : Seq(Bodies),
              whole : BOOLEAN]

Entry(prev, body) == [prev |-> prev, body |-> body,
                      hash |-> Digest(prev, body), whole |-> TRUE]

Part(e) == [e EXCEPT !.whole = FALSE]

Init == /\ lines = <<>>
        /\ newline = TRUE
        /\ lock = NoWriter
        /\ pc = [w \in Writers |-> "idle"]
        /\ entry \in [Writers -> Bodies]
        /\ previous = [w \in Writers |-> Genesis]
        /\ recorded = {}
        /\ altered = FALSE

-----------------------------------------------------------------------------
\* Reading the log.

IsRecord(line) == Len(line) = 1 /\ line[1].whole

\* Mutant of HashAfter: the wrong field is read.
BodyAfter(n) == IF n = 0 THEN Genesis ELSE lines[n][1].body

\* The last hash of the first n lines.
HashAfter(n) == IF n = 0 THEN Genesis ELSE lines[n][1].hash

\* Mutant of Linked: only the record's own digest is checked.
SelfConsistent(i) == /\ IsRecord(lines[i])
                     /\ lines[i][1].hash = Digest(lines[i][1].prev,
                                                 lines[i][1].body)

\* Line i is a record that links to the one before and has its own digest.
Linked(i) == /\ IsRecord(lines[i])
             /\ lines[i][1].prev = HashAfter(i - 1)
             /\ lines[i][1].hash = Digest(lines[i][1].prev, lines[i][1].body)

\* The first n lines pass _last_entry_hash and verify_jsonl_file.
VerifiedUpTo(n) == \A i \in 1..n : Linked(i)

\* Mutant of Verified: writers take the log as it is.
Unchecked == TRUE

Verified == VerifiedUpTo(Len(lines))

-----------------------------------------------------------------------------
Goto(w, phase) == pc' = [pc EXCEPT ![w] = phase]

Unlock(w) == lock' = IF lock = w THEN NoWriter ELSE lock

\* Return, or raise, or die.
Leave(w) == /\ Goto(w, "idle")
            /\ Unlock(w)
            /\ previous' = [previous EXCEPT ![w] = Genesis]

Call(w, b) == /\ pc[w] = "idle"
              /\ Goto(w, "waiting")
              /\ entry' = [entry EXCEPT ![w] = b]
              /\ UNCHANGED <<log, lock, previous, history>>

\* Enter the critical section and read the log to its end.  A full log is not
\* extended: its calls are aborted.
Acquire(w) ==
    /\ Len(lines) < MaxLines
    /\ pc[w] = "waiting"
    /\ lock = NoWriter
    /\ Verified
    /\ lock' = w
    /\ Goto(w, "linking")
    /\ previous' = [previous EXCEPT ![w] = HashAfter(Len(lines))]
    /\ UNCHANGED <<log, entry, history>>

\* The log does not verify: _last_entry_hash raises.
Reject(w) == /\ pc[w] = "waiting"
             /\ lock = NoWriter
             /\ ~Verified
             /\ Leave(w)
             /\ UNCHANGED <<log, entry, history>>

\* A piece of text arrives at the end of the file.
Put(piece) == lines' = IF newline
                       THEN Append(lines, <<piece>>)
                       ELSE [lines EXCEPT ![Len(lines)] = Append(@, piece)]

\* The line is written, flushed and synced.
Write(w) == /\ pc[w] = "linking"
            /\ Put(Entry(previous[w], entry[w]))
            /\ newline' = TRUE
            /\ Goto(w, "closing")
            /\ UNCHANGED <<lock, entry, previous, history>>

\* The write stops half-way: the disk is full, the process dies, the power
\* fails.  The call does not return normally.
Tear(w, how) == /\ pc[w] = "linking"
                /\ LET e == Entry(previous[w], entry[w])
                   IN Put(IF how = "piece" THEN Part(e) ELSE e)
                /\ newline' = FALSE
                /\ Leave(w)
                /\ UNCHANGED <<entry, history>>

Finish(w) == /\ pc[w] = "closing"
             /\ recorded' = recorded \cup {Entry(previous[w], entry[w])}
             /\ Leave(w)
             /\ UNCHANGED <<log, entry, altered>>

\* The process dies between two steps, or file_lock raises LockTimeout.
Abort(w) == /\ pc[w] # "idle"
            /\ Leave(w)
            /\ UNCHANGED <<log, entry, history>>

\* The file is changed by something other than a writer.  It leaves the hash
\* fields alone: nobody recomputes the chain.
Edit(i, b) == /\ i \in DOMAIN lines
              /\ IsRecord(lines[i])
              /\ lines' = [lines EXCEPT ![i][1].body = b]
              /\ altered' = TRUE
              /\ UNCHANGED <<newline, lock, pc, entry, previous, recorded>>

Delete(i) == /\ i \in 1..(Len(lines) - 1)
             /\ lines' = SubSeq(lines, 1, i - 1) \o SubSeq(lines, i + 1, Len(lines))
             /\ altered' = TRUE
             /\ UNCHANGED <<newline, lock, pc, entry, previous, recorded>>

Next == \/ \E w \in Writers : \/ \E b \in Bodies : Call(w, b)
                              \/ Acquire(w) \/ Reject(w) \/ Write(w)
                              \/ Finish(w) \/ Abort(w)
                              \/ \E how \in Torn : Tear(w, how)
        \/ \E i \in 1..MaxLines : \/ /\ "edit" \in Changes
                                     /\ \E b \in Bodies : Edit(i, b)
                                  \/ "delete" \in Changes /\ Delete(i)

Spec == Init /\ [][Next]_vars

-----------------------------------------------------------------------------
TypeOK == /\ lines \in Seq(Seq(EntryType))
          /\ newline \in BOOLEAN
          /\ lock \in Writers \cup {NoWriter}
          /\ pc \in [Writers -> {"idle", "waiting", "linking", "closing"}]
          /\ entry \in [Writers -> Bodies]
          /\ previous \in [Writers -> Seq(Bodies)]
          /\ recorded \subseteq EntryType
          /\ altered \in BOOLEAN

\* The entry is a line of the part of the log that verifies.
Provable(e) == \E n \in DOMAIN lines : lines[n] = <<e>> /\ VerifiedUpTo(n)

\* Evidence is durable: once record has returned, its entry stays part of the
\* chain that verifies while nobody alters the file, whatever writers race with
\* it, time out, die, or tear their own write afterwards (audit.py:57-60, test_concurrency.py:9-10).
AllProvable == \A e \in recorded : Provable(e)

RecordedVerifies == ~altered => AllProvable

\* The log is tamper-evident: if it verifies, then it contains everything
\* that was recorded, even after records were edited or removed from before
\* the last one ("any insertion, deletion, or modification of historical log
\* records will break the hash chain", docs/architecture/security_model.md).
VerifiedIsComplete == Verified => AllProvable
=============================================================================
