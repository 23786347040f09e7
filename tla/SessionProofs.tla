--------------------------- MODULE SessionProofs ----------------------------
(***************************************************************************)
(* Theorems about the MCP servers and the helper's terminals, for any      *)
(* number of them, of messages and of approval requests: what a server     *)
(* answers, when an approval serves the call that waited for it, and what  *)
(* a terminal asks about.                                                  *)
(***************************************************************************)
EXTENDS Session, SequenceTheorems, WellOrder

LEMMA RowsAreNumbers == MaxRow \in Nat /\ Rows \subseteq Nat /\ H!Ids = Rows
BY ServerBounds DEF Rows, H!Ids

LEMMA NewestRow ==
    ASSUME NEW rows, rows \subseteq Rows, rows # {}
    PROVE  Newest(rows) \in rows /\ \A j \in rows : j <= Newest(rows)
<1>1. \A j \in rows : j <= MaxRow
  BY RowsAreNumbers DEF Rows
<1>2. \E i \in rows : \A j \in rows : j <= i
  BY <1>1, RowsAreNumbers, GreatestNumber
<1> QED BY <1>2 DEF Newest

LEMMA OldestRow ==
    ASSUME NEW rows, rows \subseteq Rows, rows # {}
    PROVE  Oldest(rows) \in rows
<1>1. \E i \in rows : \A j \in rows : i <= j
  BY RowsAreNumbers, LeastNumber
<1> QED BY <1>1 DEF Oldest

LEMMA FirstRow ==
    ASSUME NEW ids, ids \subseteq Rows, ids # {}
    PROVE  H!First(ids) \in ids
<1>1. \E i \in ids : \A j \in ids : i <= j
  BY RowsAreNumbers, LeastNumber
<1> QED BY <1>1 DEF H!First

\* The tools: only one that did its work, or raised after it ran, had its
\* full effect.
LEMMA ToolsEnd ==
    ASSUME NEW tool, NEW target, NEW end \in Execute(tool, target),
           NEW e \in Effects(tool, end)
    PROVE  /\ e \in {"none", "partial", "full"}
           /\ StatusOf(end) \in {"executed", "error", "blocked"}
           /\ StatusOf(end) = "executed" => e = "full"
           /\ StatusOf(end) = "blocked" => e # "full"
<1>1. end \in Ends
  BY DEF Execute, Attempt, Ends
<1>2. CASE end = "done"
  BY <1>2 DEF Effects, StatusOf
<1>3. CASE end = "refused"
  BY <1>3 DEF Effects, StatusOf
<1>4. CASE end = "failed"
  BY <1>4 DEF Effects, StatusOf
<1>5. CASE end = "raised"
  BY <1>5 DEF Effects, StatusOf
<1> QED BY <1>1, <1>2, <1>3, <1>4, <1>5 DEF Ends

-----------------------------------------------------------------------------
(***************************************************************************)
(* Types.  A message in hand has been heard; a terminal that asks has a    *)
(* request to ask about.                                                   *)
(***************************************************************************)
ServerTyped == /\ ServerTypeOK
               /\ heard \in [Servers -> Seq(BOOLEAN)]
               /\ answers \in [Servers -> Seq(1..MaxMessages)]
               /\ \A s \in Servers : InHand(s) => Len(heard[s]) # 0

HelperTyped == /\ H!HelperTypeOK
               /\ \A h \in Helpers : hpc[h] \in {"asking", "approving", "checking"}
                                     => queue[h] # {}

LEMMA NoCallIsCall == NoCall \in Call
BY DEF NoCall, Call, ToolNames

LEMMA ReadTyped ==
    ASSUME ServerTyped, NEW s \in Servers, NEW m \in Messages, Read(s, m)
    PROVE  ServerTyped'
<1> DEFINE new == Append(heard[s], m.method # "initialized")
<1>1. m.method \in Methods /\ m.call \in Call
  BY MessagesAssumption
<1>2. /\ new \in Seq(BOOLEAN) /\ Len(new) = Len(heard[s]) + 1
      /\ Len(heard[s]) \in Nat /\ Len(new) <= MaxMessages
  BY ServerBounds, AppendProperties, LenProperties DEF ServerTyped, Read
<1> HIDE DEF new
<1>3. heard' = [heard EXCEPT ![s] = new]
  BY DEF Read, new
<1>4. heard' \in [Servers -> Seq(BOOLEAN)] /\ \A v \in Servers : Len(heard'[v]) <= MaxMessages
  BY <1>2, <1>3 DEF ServerTyped, ServerTypeOK
<1>5. pc' \in [Servers -> Phases] /\ reply' \in [Servers -> Replies]
  BY <1>1 DEF ServerTyped, ServerTypeOK, Read, Goto, Reply, Phases, Replies
<1>6. call' \in [Servers -> Call]
  BY <1>1 DEF ServerTyped, ServerTypeOK, Read
<1>7. \A v \in Servers : InHand(v)' => Len(heard'[v]) # 0
  <2> TAKE v \in Servers
  <2>1. CASE v = s
    BY <1>2, <1>3, <2>1 DEF ServerTyped
  <2>2. CASE v # s
    <3>1. pc'[v] = pc[v] /\ heard'[v] = heard[v]
      BY <1>3, <2>2 DEF ServerTyped, ServerTypeOK, Read, Goto, Reply
    <3> QED BY <3>1 DEF ServerTyped, InHand
  <2> QED BY <2>1, <2>2
<1> QED BY <1>4, <1>5, <1>6, <1>7 DEF ServerTyped, ServerTypeOK, Read, store

\* Steps that leave the messages and the answers alone: what has to be shown of
\* the rest.
LEMMA TypedKept ==
    ASSUME ServerTyped, UNCHANGED <<heard, answers>>,
           NEW s \in Servers, InHand(s) \/ ~InHand(s)',
           \A v \in Servers \ {s} : pc'[v] = pc[v],
           status' \in [Rows -> Status], nextRow' \in 1..MaxRow + 1,
           maker' \in [Rows -> SUBSET Servers], callOf' \in [Rows -> Call],
           pc' \in [Servers -> Phases], call' \in [Servers -> Call],
           ticket' \in [Servers -> 0..MaxRow], awaited' \in [Servers -> 0..MaxRow],
           late' \in [Servers -> BOOLEAN], reply' \in [Servers -> Replies],
           effect' \in [Servers -> {"none", "partial", "full"}]
    PROVE  ServerTyped'
<1>1. \A v \in Servers : InHand(v)' => InHand(v)
  BY DEF InHand
<1>2. ServerTypeOK'
  BY DEF ServerTyped, ServerTypeOK
<1> QED BY <1>1, <1>2 DEF ServerTyped

LEMMA MatchingRows == \A s, states : Matching(s, states) \subseteq Rows
BY DEF Matching

LEMMA MatchTyped ==
    ASSUME ServerTyped, NEW s \in Servers, Match(s)
    PROVE  ServerTyped'
<1>1. ticket' \in [Servers -> 0..MaxRow]
  <2>1. CASE Matching(s, Active) = {}
    BY <2>1 DEF Match, ServerTyped, ServerTypeOK
  <2>2. CASE Matching(s, Active) # {}
    <3>1. Newest(Matching(s, Active)) \in Rows
      BY <2>2, MatchingRows, NewestRow
    <3>2. Newest(Matching(s, Active)) \in 0..MaxRow
      BY <3>1, RowsAreNumbers DEF Rows
    <3> QED BY <2>2, <3>2 DEF Match, ServerTyped, ServerTypeOK
  <2> QED BY <2>1, <2>2
<1>2. pc' \in [Servers -> Phases] /\ \A v \in Servers \ {s} : pc'[v] = pc[v]
  BY DEF Match, Goto, ServerTyped, ServerTypeOK, Phases
<1>3. InHand(s)
  BY DEF Match, InHand
<1>4. /\ UNCHANGED <<heard, answers>>
      /\ status' \in [Rows -> Status] /\ nextRow' \in 1..MaxRow + 1
      /\ maker' \in [Rows -> SUBSET Servers] /\ callOf' \in [Rows -> Call]
      /\ call' \in [Servers -> Call] /\ awaited' \in [Servers -> 0..MaxRow]
      /\ late' \in [Servers -> BOOLEAN] /\ reply' \in [Servers -> Replies]
      /\ effect' \in [Servers -> {"none", "partial", "full"}]
  BY DEF Match, store, ServerTyped, ServerTypeOK
<1> QED BY <1>1, <1>2, <1>3, <1>4, TypedKept

LEMMA ConsumeTyped ==
    ASSUME ServerTyped, NEW s \in Servers, Consume(s)
    PROVE  ServerTyped'
<1>1. /\ UNCHANGED <<heard, answers>>
      /\ nextRow' \in 1..MaxRow + 1
      /\ maker' \in [Rows -> SUBSET Servers] /\ callOf' \in [Rows -> Call]
      /\ call' \in [Servers -> Call] /\ awaited' \in [Servers -> 0..MaxRow]
      /\ late' \in [Servers -> BOOLEAN] /\ InHand(s)
      /\ effect' \in [Servers -> {"none", "partial", "full"}]
  BY DEF Consume, ServerTyped, ServerTypeOK, InHand
<1>2. /\ pc' \in [Servers -> Phases] /\ reply' \in [Servers -> Replies]
      /\ \A v \in Servers \ {s} : pc'[v] = pc[v]
  BY DEF Consume, Goto, Reply, ServerTyped, ServerTypeOK, Phases, Replies
<1>3. ticket' \in [Servers -> 0..MaxRow] /\ status' \in [Rows -> Status]
  <2>1. CASE Matching(s, {"APPROVED"}) = {}
    BY <2>1 DEF Consume, ServerTyped, ServerTypeOK
  <2>2. CASE Matching(s, {"APPROVED"}) # {}
    <3>1. PICK i \in Rows : i = Oldest(Matching(s, {"APPROVED"}))
      BY <2>2, MatchingRows, OldestRow
    <3>2. i \in 0..MaxRow
      BY RowsAreNumbers DEF Rows
    <3>3. status' = [status EXCEPT ![i] = "USED"] /\ ticket' = [ticket EXCEPT ![s] = i]
      BY <2>2, <3>1 DEF Consume
    <3> QED BY <3>2, <3>3 DEF ServerTyped, ServerTypeOK, Status
  <2> QED BY <2>1, <2>2
<1> QED BY <1>1, <1>2, <1>3, TypedKept

LEMMA CreateTyped ==
    ASSUME ServerTyped, NEW s \in Servers, Create(s)
    PROVE  ServerTyped'
<1>1. nextRow \in Rows /\ nextRow \in 0..MaxRow /\ nextRow + 1 \in 1..MaxRow + 1
  BY RowsAreNumbers DEF Create, ServerTyped, ServerTypeOK, Rows
<1>2. /\ UNCHANGED <<heard, answers>>
      /\ call' \in [Servers -> Call] /\ awaited' \in [Servers -> 0..MaxRow]
      /\ late' \in [Servers -> BOOLEAN] /\ reply' \in [Servers -> Replies]
      /\ effect' \in [Servers -> {"none", "partial", "full"}]
      /\ InHand(s)
  BY DEF Create, ServerTyped, ServerTypeOK, InHand
<1>3. /\ pc' \in [Servers -> Phases] /\ \A v \in Servers \ {s} : pc'[v] = pc[v]
      /\ ticket' \in [Servers -> 0..MaxRow]
  BY <1>1 DEF Create, Goto, ServerTyped, ServerTypeOK, Phases
<1>4. /\ status' \in [Rows -> Status] /\ nextRow' \in 1..MaxRow + 1
      /\ maker' \in [Rows -> SUBSET Servers] /\ callOf' \in [Rows -> Call]
  BY <1>1 DEF Create, ServerTyped, ServerTypeOK, Status
<1> QED BY <1>2, <1>3, <1>4, TypedKept

LEMMA RunTyped ==
    ASSUME ServerTyped, NEW s \in Servers, Run(s)
    PROVE  ServerTyped'
<1>0. PICK end \in Execute(call[s].tool, call[s].target) :
         /\ \E e \in Effects(call[s].tool, end) : effect' = [effect EXCEPT ![s] = e]
         /\ Reply(s, StatusOf(end))
  BY DEF Run
<1>1. PICK e \in Effects(call[s].tool, end) : effect' = [effect EXCEPT ![s] = e]
  BY <1>0
<1>2. e \in {"none", "partial", "full"} /\ StatusOf(end) \in {"executed", "error", "blocked"}
  BY ToolsEnd
<1>3. /\ pc' \in [Servers -> Phases] /\ \A v \in Servers \ {s} : pc'[v] = pc[v]
      /\ reply' \in [Servers -> Replies]
      /\ effect' \in [Servers -> {"none", "partial", "full"}]
  BY <1>0, <1>1, <1>2 DEF Goto, Reply, ServerTyped, ServerTypeOK, Phases, Replies
<1>4. /\ UNCHANGED <<heard, answers>>
      /\ status' \in [Rows -> Status] /\ nextRow' \in 1..MaxRow + 1
      /\ maker' \in [Rows -> SUBSET Servers] /\ callOf' \in [Rows -> Call]
      /\ call' \in [Servers -> Call] /\ awaited' \in [Servers -> 0..MaxRow]
      /\ late' \in [Servers -> BOOLEAN] /\ ticket' \in [Servers -> 0..MaxRow]
      /\ InHand(s)
  BY DEF Run, store, ServerTyped, ServerTypeOK, InHand
<1> QED BY <1>3, <1>4, TypedKept

\* The other steps with a message in hand, which only choose among phases.
LEMMA PhaseTyped ==
    ASSUME ServerTyped, NEW s \in Servers,
           Evaluate(s) \/ NoMoreRows(s) \/ Hold(s) \/ Poll(s) \/ WindowEnds(s) \/ Fail(s)
    PROVE  ServerTyped'
<1>1. /\ UNCHANGED <<heard, answers>>
      /\ status' \in [Rows -> Status] /\ nextRow' \in 1..MaxRow + 1
      /\ maker' \in [Rows -> SUBSET Servers] /\ callOf' \in [Rows -> Call]
      /\ call' \in [Servers -> Call] /\ ticket' \in [Servers -> 0..MaxRow]
      /\ effect' \in [Servers -> {"none", "partial", "full"}]
  BY DEF Evaluate, NoMoreRows, Hold, Poll, WindowEnds, Fail, store, ServerTyped, ServerTypeOK
<1>2. InHand(s)
  BY DEF Evaluate, NoMoreRows, Hold, Poll, WindowEnds, Fail, Raises, InHand
<1>3. awaited' \in [Servers -> 0..MaxRow] /\ late' \in [Servers -> BOOLEAN]
  BY DEF Evaluate, NoMoreRows, Hold, Poll, WindowEnds, Fail, ServerTyped, ServerTypeOK
<1>4. pc' \in [Servers -> Phases] /\ \A v \in Servers \ {s} : pc'[v] = pc[v]
  <2>1. \/ pc' = pc
        \/ \E phase \in Phases : Goto(s, phase)
    BY DEF Evaluate, NoMoreRows, Hold, Poll, WindowEnds, Fail, Reply, Phases
  <2> QED BY <2>1 DEF Goto, ServerTyped, ServerTypeOK
<1>5. reply' \in [Servers -> Replies]
  BY DEF Evaluate, NoMoreRows, Hold, Poll, WindowEnds, Fail, Reply,
         ServerTyped, ServerTypeOK, Replies
<1> QED BY <1>1, <1>2, <1>3, <1>4, <1>5, TypedKept

LEMMA ForgetTyped ==
    ASSUME ServerTyped, NEW s \in Servers, Forget(s)
    PROVE  /\ call' \in [Servers -> Call] /\ reply' \in [Servers -> Replies]
           /\ ticket' \in [Servers -> 0..MaxRow] /\ awaited' \in [Servers -> 0..MaxRow]
           /\ late' \in [Servers -> BOOLEAN]
           /\ effect' \in [Servers -> {"none", "partial", "full"}]
BY NoCallIsCall, RowsAreNumbers DEF Forget, ServerTyped, ServerTypeOK, Replies

LEMMA StopTyped ==
    ASSUME ServerTyped, NEW s \in Servers, Stop(s)
    PROVE  ServerTyped'
<1>1. /\ UNCHANGED <<heard, answers>>
      /\ status' \in [Rows -> Status] /\ nextRow' \in 1..MaxRow + 1
      /\ maker' \in [Rows -> SUBSET Servers] /\ callOf' \in [Rows -> Call]
  BY DEF Stop, store, ServerTyped, ServerTypeOK
<1>2. /\ pc' \in [Servers -> Phases] /\ \A v \in Servers \ {s} : pc'[v] = pc[v]
      /\ ~InHand(s)'
  BY DEF Stop, Goto, ServerTyped, ServerTypeOK, Phases, InHand
<1> QED BY <1>1, <1>2, ForgetTyped, TypedKept DEF Stop

LEMMA WriteTyped ==
    ASSUME ServerTyped, NEW s \in Servers, Write(s)
    PROVE  ServerTyped'
<1>1. Len(heard[s]) \in 1..MaxMessages
  <2>1. heard[s] \in Seq(BOOLEAN) /\ InHand(s)
    BY DEF ServerTyped, Write, InHand
  <2>2. Len(heard[s]) \in Nat /\ Len(heard[s]) # 0 /\ Len(heard[s]) <= MaxMessages
    BY <2>1, LenProperties DEF ServerTyped, ServerTypeOK
  <2> QED BY <2>2, ServerBounds
<1>2. answers' \in [Servers -> Seq(1..MaxMessages)]
  BY <1>1, AppendProperties DEF Write, ServerTyped
<1>3. /\ heard' = heard
      /\ status' \in [Rows -> Status] /\ nextRow' \in 1..MaxRow + 1
      /\ maker' \in [Rows -> SUBSET Servers] /\ callOf' \in [Rows -> Call]
  BY DEF Write, store, ServerTyped, ServerTypeOK
<1>4. /\ pc' \in [Servers -> Phases] /\ \A v \in Servers \ {s} : pc'[v] = pc[v]
      /\ ~InHand(s)'
  BY DEF Write, Goto, ServerTyped, ServerTypeOK, Phases, InHand
<1>5. \A v \in Servers : InHand(v)' => InHand(v)
  BY <1>4 DEF InHand
<1> QED BY <1>2, <1>3, <1>4, <1>5, ForgetTyped DEF Write, ServerTyped, ServerTypeOK

\* The rows that a terminal asks about are rows.
LEMMA FrontType ==
    ASSUME HelperTyped, NEW h \in Helpers,
           hpc[h] \in {"asking", "approving", "checking"}
    PROVE  H!Front(h) \in queue[h] /\ H!Front(h) \in Rows
<1>1. queue[h] \subseteq Rows /\ queue[h] # {}
  BY RowsAreNumbers DEF HelperTyped, H!HelperTypeOK
<1> QED BY <1>1, FirstRow DEF H!Front

LEMMA DoneTyped ==
    ASSUME HelperTyped, NEW h \in Helpers, NEW skipped,
           hpc[h] \in {"asking", "approving", "checking"}, H!Done(h, skipped)
    PROVE  /\ hpc' \in [Helpers -> H!HelperPhases]
           /\ seen' \in [Helpers -> SUBSET Rows]
           /\ queue' \in [Helpers -> SUBSET Rows]
           /\ \A g \in Helpers : hpc'[g] \in {"asking", "approving", "checking"}
                                 => queue'[g] # {}
           /\ \A g \in Helpers \ {h} : hpc'[g] = hpc[g] /\ queue'[g] = queue[g] /\ seen'[g] = seen[g]
           /\ queue'[h] = queue[h] \ {H!Front(h)}
           /\ seen'[h] = seen[h] \cup {H!Front(h)}
           /\ hpc'[h] \in {"asking", H!AfterRound(h)}
           /\ hpc'[h] # "asking" => queue'[h] = {}
<1> DEFINE f == H!Front(h)
<1>1. f \in queue[h] /\ f \in Rows
  BY FrontType
<1> HIDE DEF f
<1>2. /\ hpc \in [Helpers -> H!HelperPhases]
      /\ seen \in [Helpers -> SUBSET Rows] /\ queue \in [Helpers -> SUBSET Rows]
  BY RowsAreNumbers DEF HelperTyped, H!HelperTypeOK
<1>3. /\ seen' = [seen EXCEPT ![h] = seen[h] \cup {f}]
      /\ queue' = [queue EXCEPT ![h] = queue[h] \ {f}]
      /\ hpc' = [hpc EXCEPT ![h] = IF queue[h] = {f} THEN H!AfterRound(h) ELSE "asking"]
  BY DEF H!Done, H!Processed, H!Goto, f
<1>4. H!AfterRound(h) \in {"cleaning", "closed"}
  BY DEF H!AfterRound
<1>5. /\ hpc' \in [Helpers -> H!HelperPhases]
      /\ seen' \in [Helpers -> SUBSET Rows] /\ queue' \in [Helpers -> SUBSET Rows]
  BY <1>1, <1>2, <1>3, <1>4 DEF H!HelperPhases
<1>6. /\ \A g \in Helpers \ {h} : hpc'[g] = hpc[g] /\ queue'[g] = queue[g] /\ seen'[g] = seen[g]
      /\ queue'[h] = queue[h] \ {f} /\ seen'[h] = seen[h] \cup {f}
  BY <1>2, <1>3
<1>7. hpc'[h] = IF queue[h] = {f} THEN H!AfterRound(h) ELSE "asking"
  BY <1>2, <1>3
<1>8. /\ hpc'[h] \in {"asking", H!AfterRound(h)}
      /\ hpc'[h] # "asking" => queue'[h] = {}
      /\ hpc'[h] \in {"asking", "approving", "checking"} => queue'[h] # {}
  BY <1>1, <1>4, <1>6, <1>7
<1>9. \A g \in Helpers : hpc'[g] \in {"asking", "approving", "checking"} => queue'[g] # {}
  BY <1>6, <1>8 DEF HelperTyped
<1> QED BY <1>5, <1>6, <1>8, <1>9 DEF f

LEMMA AskTyped ==
    ASSUME HelperTyped, NEW h \in Helpers, H!Ask(h)
    PROVE  /\ asked' \in [Helpers -> SUBSET Rows]
           /\ asked'[h] = asked[h] \cup {H!Front(h)}
           /\ \A g \in Helpers \ {h} : asked'[g] = asked[g]
<1>1. H!Front(h) \in Rows
  BY FrontType DEF H!Ask
<1> HIDE DEF H!Front
<1> QED BY <1>1, RowsAreNumbers DEF H!Ask, HelperTyped, H!HelperTypeOK

\* What the steps of a terminal do to the rows.
LEMMA HelperRows ==
    ASSUME HelperTyped, status \in [Rows -> Status], NEW h \in Helpers,
           H!Work(h) \/ H!Quit(h)
    PROVE  /\ status' \in [Rows -> Status]
           /\ \/ status' = status
              \/ /\ status[H!Front(h)] = "PENDING" /\ hpc[h] = "approving"
                 /\ status' = [status EXCEPT ![H!Front(h)] = "APPROVED"]
              \/ /\ hpc[h] = "asking"
                 /\ status' = [status EXCEPT ![H!Front(h)] = "DENIED"]
<1>1. CASE H!Approve(h)
  BY <1>1, FrontType DEF H!Approve, Status
<1>2. CASE H!No(h)
  BY <1>2, FrontType DEF H!No, H!Ask, Status
<1>3. CASE UNCHANGED status
  BY <1>3
<1> QED BY <1>1, <1>2, <1>3 DEF H!Work, H!Choose, H!Quit, H!Look, H!List, H!Skip, H!Yes,
                               H!Refuse, H!Check, H!Clean

LEMMA StartTyped ==
    ASSUME HelperTyped, NEW h \in Helpers, NEW m \in H!Modes, H!Start(h, m)
    PROVE  HelperTyped'
<1>1. /\ hpc' = [hpc EXCEPT ![h] = "starting"] /\ mode' = [mode EXCEPT ![h] = m]
      /\ UNCHANGED <<seen, queue, lone, closes, asked>>
  BY DEF H!Start, H!Goto
<1>2. hpc' \in [Helpers -> H!HelperPhases] /\ mode' \in [Helpers -> H!Modes]
  BY <1>1 DEF HelperTyped, H!HelperTypeOK, H!HelperPhases
<1>3. \A g \in Helpers : hpc'[g] \in {"asking", "approving", "checking"} => queue'[g] # {}
  BY <1>1 DEF HelperTyped, H!HelperTypeOK
<1> QED BY <1>1, <1>2, <1>3 DEF HelperTyped, H!HelperTypeOK

LEMMA QuitTyped ==
    ASSUME HelperTyped, NEW h \in Helpers, H!Quit(h)
    PROVE  HelperTyped'
<1>1. /\ hpc' = [hpc EXCEPT ![h] = "off"] /\ mode' = [mode EXCEPT ![h] = "once"]
      /\ queue' = [queue EXCEPT ![h] = {}]
  BY DEF H!Quit, H!Goto
<1>2. hpc' \in [Helpers -> H!HelperPhases] /\ mode' \in [Helpers -> H!Modes]
  BY <1>1 DEF HelperTyped, H!HelperTypeOK, H!HelperPhases, H!Modes
<1>3. \A g \in Helpers : hpc'[g] \in {"asking", "approving", "checking"} => queue'[g] # {}
  BY <1>1 DEF HelperTyped, H!HelperTypeOK
<1>4. {seen', queue', asked'} \subseteq [Helpers -> SUBSET H!Ids]
  BY DEF H!Quit, HelperTyped, H!HelperTypeOK
<1>5. {lone', closes'} \subseteq [Helpers -> BOOLEAN]
  BY DEF H!Quit, HelperTyped, H!HelperTypeOK
<1> QED BY <1>2, <1>3, <1>4, <1>5 DEF HelperTyped, H!HelperTypeOK

LEMMA WorkTyped ==
    ASSUME HelperTyped, NEW h \in Helpers, H!Work(h)
    PROVE  HelperTyped'
<1>0. /\ hpc \in [Helpers -> H!HelperPhases] /\ mode \in [Helpers -> H!Modes]
      /\ seen \in [Helpers -> SUBSET H!Ids] /\ queue \in [Helpers -> SUBSET H!Ids]
      /\ asked \in [Helpers -> SUBSET H!Ids]
      /\ lone \in [Helpers -> BOOLEAN] /\ closes \in [Helpers -> BOOLEAN]
  BY DEF HelperTyped, H!HelperTypeOK
\* A step that leaves the list alone, and the terminal where its list is what
\* the phase requires.
<1>1. ASSUME UNCHANGED <<mode, queue>>, NEW phase \in H!HelperPhases, H!Goto(h, phase),
             phase \in {"asking", "approving", "checking"} => queue[h] # {},
             seen' \in [Helpers -> SUBSET H!Ids], asked' \in [Helpers -> SUBSET H!Ids],
             lone' \in [Helpers -> BOOLEAN], closes' \in [Helpers -> BOOLEAN]
      PROVE  HelperTyped'
  <2>1. hpc' = [hpc EXCEPT ![h] = phase]
    BY <1>1 DEF H!Goto
  <2>2. hpc' \in [Helpers -> H!HelperPhases]
    BY <1>0, <2>1
  <2>3. \A g \in Helpers : hpc'[g] \in {"asking", "approving", "checking"} => queue'[g] # {}
    BY <1>0, <1>1, <2>1 DEF HelperTyped
  <2> QED BY <1>0, <1>1, <2>2, <2>3 DEF HelperTyped, H!HelperTypeOK
<1>2. CASE H!Look(h)
  <2>1. lone' \in [Helpers -> BOOLEAN]
    BY <1>0, <1>2 DEF H!Look
  <2> QED BY <1>0, <1>1, <1>2, <2>1 DEF H!Look, H!HelperPhases
<1>3. CASE H!List(h)
  <2> DEFINE q == H!Waiting \ seen[h]
  <2>1. q \subseteq H!Ids /\ (H!Waiting \subseteq seen[h] <=> q = {})
    BY DEF H!Waiting
  <2>2. queue' = [queue EXCEPT ![h] = q]
    BY <1>3 DEF H!List
  <2>3. hpc' = [hpc EXCEPT ![h] = IF q = {} THEN H!AfterRound(h) ELSE "asking"]
    BY <1>3, <2>1 DEF H!List, H!Goto
  <2> HIDE DEF q
  <2>4. H!AfterRound(h) \in {"cleaning", "closed"}
    BY DEF H!AfterRound
  <2>5. hpc' \in [Helpers -> H!HelperPhases]
    BY <1>0, <2>3, <2>4 DEF H!HelperPhases
  <2>6. queue' \in [Helpers -> SUBSET H!Ids]
    BY <1>0, <2>1, <2>2
  <2>7. \A g \in Helpers : hpc'[g] \in {"asking", "approving", "checking"} => queue'[g] # {}
    BY <1>0, <2>2, <2>3, <2>4 DEF HelperTyped
  <2> QED BY <1>0, <1>3, <2>5, <2>6, <2>7 DEF H!List, HelperTyped, H!HelperTypeOK
<1>4. ASSUME NEW skipped, H!Done(h, skipped),
             hpc[h] \in {"asking", "approving", "checking"}, UNCHANGED <<mode, lone>>,
             asked' \in [Helpers -> SUBSET H!Ids], closes' \in [Helpers -> BOOLEAN]
      PROVE  HelperTyped'
  BY <1>0, <1>4, DoneTyped, RowsAreNumbers DEF HelperTyped, H!HelperTypeOK
<1>5. CASE H!Skip(h)
  BY <1>0, <1>4, <1>5, AskTyped, RowsAreNumbers DEF H!Skip, H!Ask
<1>6. CASE H!Yes(h)
  BY <1>0, <1>1, <1>6, AskTyped, RowsAreNumbers DEF H!Yes, H!Ask, H!HelperPhases, HelperTyped
<1>7. CASE H!No(h)
  BY <1>0, <1>1, <1>7, AskTyped, RowsAreNumbers DEF H!No, H!Ask, H!HelperPhases, HelperTyped
<1>8. CASE H!Approve(h)
  BY <1>0, <1>1, <1>8 DEF H!Approve, H!HelperPhases, HelperTyped
<1>9. CASE H!Refuse(h)
  BY <1>0, <1>4, <1>9 DEF H!Refuse
<1>10. CASE H!Check(h)
  <2>1. closes' \in [Helpers -> BOOLEAN]
    <3>1. closes' = [closes EXCEPT ![h] = closes[h] \/ H!Closing(h)]
      BY <1>10 DEF H!Check
    <3>2. (closes[h] \/ H!Closing(h)) \in BOOLEAN
      OBVIOUS
    <3> QED BY <1>0, <3>1, <3>2
  <2> QED BY <1>0, <1>4, <1>10, <2>1 DEF H!Check
<1>11. CASE H!Clean(h)
  <2>1. seen' \in [Helpers -> SUBSET H!Ids]
    BY <1>0, <1>11 DEF H!Clean, H!Kept
  <2> QED BY <1>0, <1>1, <1>11, <2>1 DEF H!Clean, H!HelperPhases
<1> QED BY <1>2, <1>3, <1>5, <1>6, <1>7, <1>8, <1>9, <1>10, <1>11 DEF H!Work, H!Choose

\* The store's rows may be moved by others.
LEMMA OthersTyped ==
    ASSUME ServerTyped, UNCHANGED <<maker, serverVars>>,
           status' \in [Rows -> Status], nextRow' \in 1..MaxRow + 1,
           callOf' \in [Rows -> Call]
    PROVE  ServerTyped'
BY DEF ServerTyped, ServerTypeOK, serverVars, InHand

LEMMA HelpersKept ==
    ASSUME HelperTyped, UNCHANGED helperVars
    PROVE  HelperTyped'
BY DEF HelperTyped, H!HelperTypeOK, helperVars

Typed == ServerTyped /\ HelperTyped

LEMMA ServeTyped ==
    ASSUME ServerTyped, NEW s \in Servers, Handle(s) \/ Fail(s) \/ Stop(s)
    PROVE  ServerTyped'
BY PhaseTyped, MatchTyped, ConsumeTyped, RunTyped, WriteTyped, StopTyped DEF Handle

LEMMA TypedStep ==
    ASSUME Typed, [Next]_vars
    PROVE  Typed'
<1>1. ASSUME NEW s \in Servers, Serve(s) \/ Receive(s) \/ Break(s) PROVE Typed'
  BY <1>1, ServeTyped, ReadTyped, HelpersKept DEF Serve, Receive, Break, Typed
<1>2. ASSUME NEW s \in Servers, CreateAndOpen(s) PROVE Typed'
  <2>1. ServerTyped'
    BY <1>2, CreateTyped DEF CreateAndOpen, Typed
  <2>2. HelperTyped'
    BY <1>2, HelpersKept, StartTyped DEF CreateAndOpen, Typed, H!Modes
  <2> QED BY <2>1, <2>2 DEF Typed
<1>3. ASSUME NEW h \in Helpers, Help(h) PROVE Typed'
  <2>1. status' \in [Rows -> Status]
    BY <1>3, HelperRows DEF Help, Typed, ServerTyped, ServerTypeOK
  <2>2. UNCHANGED <<callOf, nextRow, maker, serverVars>>
    BY <1>3 DEF Help
  <2>3. ServerTyped'
    BY <2>1, <2>2, OthersTyped DEF Typed, ServerTyped, ServerTypeOK
  <2>4. HelperTyped'
    BY <1>3, WorkTyped DEF Help, Typed
  <2> QED BY <2>3, <2>4 DEF Typed
<1>4. ASSUME NEW h \in Helpers, OpenOrQuit(h) PROVE Typed'
  <2>1. status' \in [Rows -> Status] /\ UNCHANGED <<callOf, nextRow, maker, serverVars>>
    BY <1>4 DEF OpenOrQuit, H!Quit, Typed, ServerTyped, ServerTypeOK
  <2>2. ServerTyped'
    BY <2>1, OthersTyped DEF Typed, ServerTyped, ServerTypeOK
  <2>3. HelperTyped'
    BY <1>4, QuitTyped, StartTyped, ModesAssumption DEF OpenOrQuit, Typed
  <2> QED BY <2>2, <2>3 DEF Typed
<1>5. ASSUME NEW i \in Rows, Elsewhere(i) PROVE Typed'
  <2>1. status' \in [Rows -> Status]
    BY <1>5 DEF Elsewhere, Typed, ServerTyped, ServerTypeOK, Status
  <2>2. UNCHANGED <<callOf, nextRow, maker, serverVars, helperVars>>
    BY <1>5 DEF Elsewhere
  <2> QED BY <2>1, <2>2, OthersTyped, HelpersKept DEF Typed, ServerTyped, ServerTypeOK
<1>6. ASSUME NEW s \in Servers, CreateElsewhere(s) PROVE Typed'
  <2>1. nextRow \in Rows /\ nextRow + 1 \in 1..MaxRow + 1
    BY <1>6, RowsAreNumbers DEF CreateElsewhere, Typed, ServerTyped, ServerTypeOK, Rows
  <2>2. status' \in [Rows -> Status] /\ callOf' \in [Rows -> Call] /\ nextRow' \in 1..MaxRow + 1
    BY <1>6, <2>1 DEF CreateElsewhere, Typed, ServerTyped, ServerTypeOK, Status
  <2> QED BY <1>6, <2>2, OthersTyped, HelpersKept DEF CreateElsewhere, Typed
<1>7. CASE UNCHANGED vars
  BY <1>7, HelpersKept, OthersTyped DEF vars, store, Typed, ServerTyped, ServerTypeOK
<1> QED BY <1>1, <1>2, <1>3, <1>4, <1>5, <1>6, <1>7 DEF Next

LEMMA TypedInit == Init => Typed
<1> SUFFICES ASSUME Init PROVE Typed
  OBVIOUS
<1>1. 0 \in 0..MaxRow /\ 1 \in 1..MaxRow + 1
  BY RowsAreNumbers
<1>2. <<>> \in Seq(BOOLEAN) /\ <<>> \in Seq(1..MaxMessages) /\ Len(<<>>) = 0
  BY EmptySeq
<1>3. 0 <= MaxMessages
  BY ServerBounds
<1>4. ServerTyped
  BY <1>1, <1>2, <1>3, NoCallIsCall
     DEF Init, ServerInit, ServerTyped, ServerTypeOK, InHand, Status, Phases, Replies
<1>5. HelperTyped
  BY DEF Init, H!HelperInit, HelperTyped, H!HelperTypeOK, H!HelperPhases, H!Modes
<1> QED BY <1>4, <1>5 DEF Typed

LEMMA AlwaysTyped == Spec => []Typed
BY TypedInit, TypedStep, PTL DEF Spec

\* Type correctness of a session.
THEOREM TypeCorrect == Spec => []TypeOK
<1>1. Typed => TypeOK
  BY DEF Typed, TypeOK, ServerTyped, HelperTyped
<1> QED BY <1>1, AlwaysTyped, PTL

-----------------------------------------------------------------------------
(***************************************************************************)
(* The order of the answers.  The message in hand wants an answer and is   *)
(* younger than every message answered.                                    *)
(***************************************************************************)
OrderInv ==
    /\ AnsweredInOrder
    /\ \A s \in Servers :
          /\ \A n \in Answered(s) : n <= Len(heard[s])
          /\ InHand(s) => /\ heard[s][Len(heard[s])]
                          /\ Len(heard[s]) \notin Answered(s)

\* The steps that read no message and write no answer.
Between == /\ UNCHANGED <<heard, answers>>
           /\ \A s \in Servers : /\ InHand(s)' => InHand(s)
                                 /\ pc'[s] = "reading" => pc[s] = "reading"

LEMMA GotoBetween ==
    ASSUME ServerTyped, NEW s \in Servers, InHand(s), UNCHANGED <<heard, answers>>,
           NEW phase \in Phases, phase # "reading", Goto(s, phase)
    PROVE  Between
<1>1. pc' = [pc EXCEPT ![s] = phase] /\ pc \in [Servers -> Phases]
  BY DEF Goto, ServerTyped, ServerTypeOK
<1>2. \A v \in Servers : pc'[v] = IF v = s THEN phase ELSE pc[v]
  BY <1>1
<1> QED BY <1>2 DEF Between, InHand

LEMMA HandleBetween ==
    ASSUME ServerTyped, NEW s \in Servers, Handle(s) \/ Fail(s) \/ Create(s), ~Write(s)
    PROVE  Between
<1>1. UNCHANGED <<heard, answers>> /\ InHand(s)
  BY DEF Handle, Evaluate, Match, Consume, NoMoreRows, Hold, Run, Poll, WindowEnds,
         Fail, Raises, Create, InHand
<1>2. CASE WindowEnds(s)
  BY <1>1, <1>2 DEF WindowEnds, Between, InHand
<1>3. CASE \E phase \in Phases \ {"reading"} : Goto(s, phase)
  BY <1>1, <1>3, GotoBetween
<1>4. \/ WindowEnds(s)
      \/ \E phase \in Phases \ {"reading"} : Goto(s, phase)
  <2>1. \A with : Reply(s, with) => Goto(s, "answering")
    BY DEF Reply
  <2>2. CASE Evaluate(s) \/ Hold(s) \/ Poll(s)
    BY <2>1, <2>2 DEF Evaluate, Hold, Poll, Phases
  <2>3. CASE Match(s) \/ Create(s)
    BY <2>3 DEF Match, Create, Phases
  <2>4. CASE Consume(s)
    BY <2>1, <2>4 DEF Consume, Phases
  <2>5. CASE NoMoreRows(s) \/ Run(s) \/ Fail(s)
    BY <2>1, <2>5 DEF NoMoreRows, Run, Fail, Phases
  <2> QED BY <2>2, <2>3, <2>4, <2>5 DEF Handle
<1> QED BY <1>2, <1>3, <1>4

LEMMA StepKinds ==
    ASSUME Typed, [Next]_vars
    PROVE  \/ \E s \in Servers, m \in Messages : Read(s, m)
           \/ \E s \in Servers : Write(s)
           \/ Between
<1>1. ServerTyped
  BY DEF Typed
<1>2. ASSUME NEW s \in Servers, Serve(s) \/ Break(s) \/ CreateAndOpen(s), ~Write(s)
      PROVE  Between
  <2>1. CASE Stop(s)
    BY <1>1, <2>1 DEF Stop, Goto, Between, InHand, ServerTyped, ServerTypeOK
  <2>2. CASE Handle(s) \/ Fail(s) \/ Create(s)
    BY <1>1, <1>2, <2>2, HandleBetween
  <2> QED BY <1>2, <2>1, <2>2 DEF Serve, Break, CreateAndOpen
<1>3. CASE UNCHANGED serverVars
  BY <1>3 DEF serverVars, Between, InHand
<1> QED BY <1>2, <1>3 DEF Next, Receive, Help, OpenOrQuit, Elsewhere, CreateElsewhere, vars

\* The requests and the answered messages after a message was read.
LEMMA ReadRequests ==
    ASSUME ServerTyped, NEW s \in Servers, NEW m \in Messages, Read(s, m)
    PROVE  /\ Len(heard[s]) \in Nat
           /\ Len(heard'[s]) = Len(heard[s]) + 1
           /\ heard'[s][Len(heard[s]) + 1] = (m.method # "initialized")
           /\ Requests(s)' = Requests(s) \cup
                 (IF m.method # "initialized" THEN {Len(heard[s]) + 1} ELSE {})
           /\ Answered(s)' = Answered(s)
           /\ \A v \in Servers \ {s} : heard'[v] = heard[v]
<1> DEFINE new == m.method # "initialized"
<1>1. heard[s] \in Seq(BOOLEAN) /\ heard \in [Servers -> Seq(BOOLEAN)]
  BY DEF ServerTyped
<1>2. heard' = [heard EXCEPT ![s] = Append(heard[s], new)] /\ answers' = answers
  BY DEF Read
<1>3. new \in BOOLEAN
  OBVIOUS
<1> HIDE DEF new
<1>4. /\ Len(heard[s]) \in Nat
      /\ Len(Append(heard[s], new)) = Len(heard[s]) + 1
      /\ Append(heard[s], new)[Len(heard[s]) + 1] = new
      /\ \A n \in 1..Len(heard[s]) : Append(heard[s], new)[n] = heard[s][n]
  BY <1>1, <1>3, AppendProperties, LenProperties
<1>5. heard'[s] = Append(heard[s], new) /\ \A v \in Servers \ {s} : heard'[v] = heard[v]
  BY <1>1, <1>2
<1>6. 1..Len(heard'[s]) = (1..Len(heard[s])) \cup {Len(heard[s]) + 1}
  BY <1>4, <1>5
<1>7. Requests(s)' = Requests(s) \cup (IF new THEN {Len(heard[s]) + 1} ELSE {})
  BY <1>4, <1>5, <1>6 DEF Requests
<1>8. Answered(s)' = Answered(s)
  BY <1>2 DEF Answered
<1> QED BY <1>4, <1>5, <1>7, <1>8 DEF new

\* What AnsweredInOrder and OrderInv say of one server.
Increasing(s) == \A k \in 2..Len(answers[s]) : answers[s][k - 1] < answers[s][k]

Open(s) == IF pc[s] = "reading" THEN {} ELSE {Len(heard[s])}

Ordered(s) == /\ Increasing(s)
              /\ Answered(s) \subseteq Requests(s)
              /\ Requests(s) \ Answered(s) \subseteq Open(s)
              /\ \A n \in Answered(s) : n <= Len(heard[s])
              /\ InHand(s) => /\ heard[s][Len(heard[s])]
                              /\ Len(heard[s]) \notin Answered(s)

LEMMA OrderedServers == OrderInv <=> \A s \in Servers : Ordered(s)
BY DEF OrderInv, Ordered, AnsweredInOrder, Increasing, Open

\* Messages and answers of a server are its own.
LEMMA OthersOrdered ==
    ASSUME NEW s \in Servers, Ordered(s), heard'[s] = heard[s], answers'[s] = answers[s],
           InHand(s)' => InHand(s), pc'[s] = "reading" => pc[s] = "reading"
    PROVE  Ordered(s)'
<1>1. Requests(s)' = Requests(s) /\ Answered(s)' = Answered(s)
  BY DEF Requests, Answered
<1>2. Increasing(s)' <=> Increasing(s)
  BY DEF Increasing
<1>3. Open(s) \subseteq Open(s)'
  BY DEF Open
<1> QED BY <1>1, <1>2, <1>3 DEF Ordered

LEMMA ReadOrdered ==
    ASSUME ServerTyped, NEW s \in Servers, NEW m \in Messages, Read(s, m), Ordered(s)
    PROVE  Ordered(s)'
<1>1. /\ Len(heard[s]) \in Nat
      /\ Len(heard'[s]) = Len(heard[s]) + 1
      /\ heard'[s][Len(heard[s]) + 1] = (m.method # "initialized")
      /\ Requests(s)' = Requests(s) \cup
            (IF m.method # "initialized" THEN {Len(heard[s]) + 1} ELSE {})
      /\ Answered(s)' = Answered(s)
  BY ReadRequests
<1>2. pc[s] = "reading" /\ answers' = answers
  BY DEF Read
<1>3. Requests(s) \subseteq Answered(s) /\ \A n \in Answered(s) : n <= Len(heard[s])
  BY <1>2 DEF Ordered, Open
<1>4. Increasing(s)'
  BY <1>2 DEF Ordered, Increasing
<1>5. Answered(s) \subseteq Nat
  BY DEF Answered, Ordered, Requests
<1>6. CASE m.method = "initialized"
  <2>1. pc'[s] = "reading"
    BY <1>2, <1>6 DEF Read, Goto, Reply, ServerTyped, ServerTypeOK
  <2>2. ~InHand(s)' /\ Open(s)' = {}
    BY <2>1 DEF InHand, Open
  <2> QED BY <1>1, <1>3, <1>4, <1>5, <1>6, <2>2 DEF Ordered
<1>7. CASE m.method # "initialized"
  <2>1. pc'[s] # "reading"
    BY <1>2, <1>7, MessagesAssumption DEF Read, Goto, Reply, ServerTyped, ServerTypeOK, Methods
  <2>2. Open(s)' = {Len(heard[s]) + 1}
    BY <1>1, <2>1 DEF Open
  <2>3. Len(heard[s]) + 1 \notin Answered(s)
    BY <1>1, <1>3, <1>5
  <2>4. \A n \in Answered(s) : n <= Len(heard[s]) + 1
    BY <1>1, <1>3, <1>5
  <2> QED BY <1>1, <1>3, <1>4, <1>7, <2>2, <2>3, <2>4 DEF Ordered
<1> QED BY <1>6, <1>7

LEMMA WriteOrdered ==
    ASSUME ServerTyped, NEW s \in Servers, Write(s), Ordered(s)
    PROVE  Ordered(s)'
<1> DEFINE n == Len(heard[s])
<1>1. /\ answers[s] \in Seq(1..MaxMessages) /\ heard[s] \in Seq(BOOLEAN)
      /\ pc[s] = "answering" /\ InHand(s) /\ n # 0
  BY DEF ServerTyped, Write, InHand
<1>2. n \in 1..MaxMessages
  BY <1>1, ServerBounds, LenProperties DEF ServerTyped, ServerTypeOK
<1>3. answers'[s] = Append(answers[s], n) /\ heard' = heard /\ pc'[s] = "reading"
  BY DEF Write, Goto, ServerTyped, ServerTypeOK
<1> HIDE DEF n
<1>4. /\ Len(answers[s]) \in Nat
      /\ Len(answers'[s]) = Len(answers[s]) + 1
      /\ answers'[s][Len(answers[s]) + 1] = n
      /\ \A k \in 1..Len(answers[s]) : answers'[s][k] = answers[s][k]
  BY <1>1, <1>2, <1>3, AppendProperties, LenProperties
<1>5. 1..Len(answers'[s]) = (1..Len(answers[s])) \cup {Len(answers[s]) + 1}
  BY <1>4
<1>6. Answered(s)' = Answered(s) \cup {n}
  <2>1. Answered(s)' = {answers'[s][k] : k \in (1..Len(answers[s])) \cup {Len(answers[s]) + 1}}
    BY <1>5 DEF Answered
  <2>2. Answered(s) = {answers'[s][k] : k \in 1..Len(answers[s])}
    BY <1>4 DEF Answered
  <2> QED BY <1>4, <2>1, <2>2
<1>7. /\ Requests(s)' = Requests(s)
      /\ Open(s)' = {} /\ ~InHand(s)'
  BY <1>3 DEF Requests, Open, InHand
<1>8. n \in Requests(s) /\ Open(s) = {n} /\ n \notin Answered(s)
  BY <1>1, <1>2 DEF Requests, Ordered, Open, n
<1>9. \A k \in 1..Len(answers[s]) : answers[s][k] < n
  <2> TAKE k \in 1..Len(answers[s])
  <2>1. answers[s][k] \in 1..MaxMessages
    BY <1>1, ElementOfSeq
  <2>2. answers[s][k] \in Answered(s)
    BY DEF Answered
  <2>3. answers[s][k] <= n /\ answers[s][k] # n
    BY <1>8, <2>2 DEF Ordered, n
  <2> QED BY <1>2, <2>1, <2>3
<1>10. Increasing(s)'
  <2> SUFFICES ASSUME NEW k \in 2..Len(answers'[s])
               PROVE  answers'[s][k - 1] < answers'[s][k]
    BY DEF Increasing
  <2>1. CASE k = Len(answers[s]) + 1
    <3>1. k - 1 \in 1..Len(answers[s])
      BY <1>4, <2>1
    <3> QED BY <1>4, <1>9, <2>1, <3>1
  <2>2. CASE k # Len(answers[s]) + 1
    <3>1. k \in 2..Len(answers[s]) /\ k \in 1..Len(answers[s]) /\ k - 1 \in 1..Len(answers[s])
      BY <1>4, <2>2
    <3> QED BY <1>4, <3>1 DEF Ordered, Increasing
  <2> QED BY <2>1, <2>2
<1>11. Requests(s) \ Answered(s) \subseteq {n}
  BY <1>8 DEF Ordered
<1>12. \A k \in Answered(s)' : k <= Len(heard'[s])
  BY <1>2, <1>3, <1>6 DEF Ordered, n
<1> QED BY <1>6, <1>7, <1>8, <1>10, <1>11, <1>12 DEF Ordered

LEMMA OrderStep ==
    ASSUME Typed, OrderInv, [Next]_vars
    PROVE  OrderInv'
<1>1. ServerTyped /\ \A s \in Servers : Ordered(s)
  BY OrderedServers DEF Typed
<1>2. (\A s \in Servers : Ordered(s)') => OrderInv'
  BY OrderedServers DEF OrderInv, Ordered, AnsweredInOrder, Increasing, Open
<1>3. ASSUME NEW s \in Servers, NEW v \in Servers \ {s},
             Write(s) \/ \E m \in Messages : Read(s, m)
      PROVE  Ordered(v)'
  <2>1. heard'[v] = heard[v] /\ answers'[v] = answers[v] /\ pc'[v] = pc[v]
    BY <1>1, <1>3 DEF Write, Read, Goto, Reply, ServerTyped, ServerTypeOK
  <2> QED BY <1>1, <2>1, OthersOrdered DEF InHand
<1>4. ASSUME NEW s \in Servers, NEW m \in Messages, Read(s, m) PROVE OrderInv'
  BY <1>1, <1>2, <1>3, <1>4, ReadOrdered
<1>5. ASSUME NEW s \in Servers, Write(s) PROVE OrderInv'
  BY <1>1, <1>2, <1>3, <1>5, WriteOrdered
<1>6. CASE Between
  <2>1. \A s \in Servers : Ordered(s)'
    BY <1>1, <1>6, OthersOrdered DEF Between
  <2> QED BY <1>2, <2>1
<1> QED BY <1>4, <1>5, <1>6, StepKinds

\* Every request is answered once and in order; only the message in hand is
\* open, or was lost with its server.
THEOREM AnswersKeepOrder == Spec => []AnsweredInOrder
<1>1. Init => OrderInv
  <2> SUFFICES ASSUME Init PROVE \A s \in Servers : Ordered(s)
    BY OrderedServers
  <2> TAKE s \in Servers
  <2>1. heard[s] = <<>> /\ answers[s] = <<>> /\ pc[s] = "reading"
    BY DEF Init, ServerInit
  <2>2. Requests(s) = {} /\ Answered(s) = {}
    BY <2>1 DEF Requests, Answered
  <2> QED BY <2>1, <2>2 DEF Ordered, Increasing, InHand
<1>2. Typed /\ OrderInv /\ [Next]_vars => OrderInv'
  BY OrderStep
<1>3. OrderInv => AnsweredInOrder
  BY DEF OrderInv
<1> QED BY <1>1, <1>2, <1>3, AlwaysTyped, PTL DEF Spec

-----------------------------------------------------------------------------
(***************************************************************************)
(* Honest answers.  Only the step that runs the tool has an effect, and it *)
(* goes on to the answer.                                                  *)
(***************************************************************************)
Honest(s) == /\ pc[s] # "answering" => effect[s] = "none"
             /\ pc[s] = "answering" =>
                   /\ reply[s] = "executed" => effect[s] = "full"
                   /\ reply[s] \in {"blocked", "approval_required"} => effect[s] # "full"

HonestInv == \A s \in Servers : Honest(s)

LEMMA HonestHandle ==
    ASSUME ServerTyped, NEW s \in Servers, Honest(s),
           \/ Handle(s) \/ Fail(s) \/ Stop(s) \/ Create(s)
           \/ \E m \in Messages : Read(s, m)
    PROVE  Honest(s)'
<1>0. /\ pc \in [Servers -> Phases] /\ reply \in [Servers -> Replies]
      /\ effect \in [Servers -> {"none", "partial", "full"}]
  BY DEF ServerTyped, ServerTypeOK
\* The answer is known, and nothing was executed.
<1>1. ASSUME pc[s] # "answering", effect' = effect, NEW with, with # "executed",
             Reply(s, with)
      PROVE  Honest(s)'
  BY <1>0, <1>1 DEF Honest, Reply, Goto
\* The message goes on to another phase.
<1>2. ASSUME pc[s] # "answering", effect' = effect, pc'[s] # "answering"
      PROVE  Honest(s)'
  BY <1>2 DEF Honest
<1>3. ASSUME pc[s] # "answering", effect' = effect, NEW phase, phase # "answering",
             Goto(s, phase)
      PROVE  Honest(s)'
  BY <1>0, <1>2, <1>3 DEF Goto
<1>4. CASE Evaluate(s)
  BY <1>1, <1>3, <1>4 DEF Evaluate
<1>5. CASE Match(s)
  BY <1>3, <1>5 DEF Match
<1>6. CASE Consume(s)
  BY <1>1, <1>3, <1>6 DEF Consume
<1>7. CASE NoMoreRows(s) \/ Fail(s)
  BY <1>1, <1>7 DEF NoMoreRows, Fail, Raises
<1>8. CASE Hold(s)
  BY <1>1, <1>3, <1>8 DEF Hold
<1>9. CASE Poll(s)
  BY <1>1, <1>3, <1>9 DEF Poll
<1>10. CASE WindowEnds(s)
  BY <1>2, <1>10 DEF WindowEnds
<1>11. CASE Create(s)
  BY <1>3, <1>11 DEF Create
<1>12. CASE Write(s) \/ Stop(s)
  BY <1>0, <1>12 DEF Write, Stop, Forget, Goto, Honest
<1>13. CASE Run(s)
  <2>1. PICK end \in Execute(call[s].tool, call[s].target) :
           /\ \E e \in Effects(call[s].tool, end) : effect' = [effect EXCEPT ![s] = e]
           /\ Reply(s, StatusOf(end))
    BY <1>13 DEF Run
  <2>2. PICK e \in Effects(call[s].tool, end) : effect' = [effect EXCEPT ![s] = e]
    BY <2>1
  <2>3. effect'[s] = e /\ reply'[s] = StatusOf(end) /\ pc'[s] = "answering"
    BY <1>0, <2>1, <2>2 DEF Reply, Goto
  <2> QED BY <2>3, ToolsEnd DEF Honest
<1>14. ASSUME NEW m \in Messages, Read(s, m) PROVE Honest(s)'
  <2>1. pc[s] = "reading" /\ effect' = effect /\ (Reply(s, "result") \/ Reply(s, "error")
                              \/ pc' = pc \/ Goto(s, "stopped") \/ Goto(s, "evaluating"))
    BY <1>14 DEF Read
  <2> QED BY <1>1, <1>2, <1>3, <2>1
<1> QED BY <1>4, <1>5, <1>6, <1>7, <1>8, <1>9, <1>10, <1>11, <1>12, <1>13, <1>14 DEF Handle

\* A server's variables are moved by its own steps only.
LEMMA OneServer ==
    ASSUME ServerTyped, NEW s \in Servers,
           \/ Handle(s) \/ Fail(s) \/ Stop(s) \/ Create(s)
           \/ \E m \in Messages : Read(s, m),
           NEW v \in Servers \ {s}
    PROVE  /\ pc'[v] = pc[v] /\ call'[v] = call[v] /\ ticket'[v] = ticket[v]
           /\ awaited'[v] = awaited[v] /\ reply'[v] = reply[v] /\ effect'[v] = effect[v]
<1> USE DEF ServerTyped, ServerTypeOK, Goto, Reply, Forget
<1>1. CASE Evaluate(s) \/ NoMoreRows(s) \/ Fail(s)
  BY <1>1 DEF Evaluate, NoMoreRows, Fail
<1>2. CASE Match(s)
  BY <1>2 DEF Match
<1>3. CASE Consume(s)
  BY <1>3 DEF Consume
<1>4. CASE Hold(s) \/ WindowEnds(s) \/ Create(s)
  BY <1>4 DEF Hold, WindowEnds, Create
<1>5. CASE Poll(s)
  BY <1>5 DEF Poll
<1>6. CASE Write(s) \/ Stop(s)
  BY <1>6 DEF Write, Stop
<1>7. CASE Run(s)
  BY <1>7 DEF Run
<1>8. CASE \E m \in Messages : Read(s, m)
  BY <1>8 DEF Read
<1> QED BY <1>1, <1>2, <1>3, <1>4, <1>5, <1>6, <1>7, <1>8 DEF Handle

LEMMA HonestStep ==
    ASSUME Typed, HonestInv, [Next]_vars
    PROVE  HonestInv'
<1>1. ASSUME NEW s \in Servers, Serve(s) \/ Receive(s) \/ Break(s) \/ CreateAndOpen(s)
      PROVE  HonestInv'
  <2>1. \/ Handle(s) \/ Fail(s) \/ Stop(s) \/ Create(s)
        \/ \E m \in Messages : Read(s, m)
    BY <1>1 DEF Serve, Receive, Break, CreateAndOpen
  <2>2. Honest(s)'
    BY <2>1, HonestHandle DEF HonestInv, Typed
  <2>3. \A v \in Servers \ {s} : Honest(v)'
    BY <2>1, OneServer DEF HonestInv, Honest, Typed
  <2> QED BY <2>2, <2>3 DEF HonestInv
<1>2. CASE UNCHANGED serverVars
  BY <1>2 DEF serverVars, HonestInv, Honest
<1> QED BY <1>1, <1>2 DEF Next, Help, OpenOrQuit, Elsewhere, CreateElsewhere, vars

\* No answer claims an execution that failed, or hides one that took place.
THEOREM AnswersAreHonest == Spec => []HonestAnswers
<1>1. Init => HonestInv
  BY DEF Init, ServerInit, HonestInv, Honest
<1>2. Typed /\ HonestInv /\ [Next]_vars => HonestInv'
  BY HonestStep
<1>3. HonestInv => HonestAnswers
  BY DEF HonestInv, Honest, HonestAnswers
<1> QED BY <1>1, <1>2, <1>3, AlwaysTyped, PTL DEF Spec

-----------------------------------------------------------------------------
(***************************************************************************)
(* The rows.  A row that was created stays, and one that was decided is    *)
(* neither open again nor approved later.                                  *)
(***************************************************************************)
RowInv == \A i \in Rows : /\ i < nextRow <=> status[i] # "ABSENT"
                          /\ i >= nextRow => maker[i] = {}

\* A terminal lists only rows that were created.
ListedInv == \A h \in Helpers : \A i \in queue[h] \cup asked[h] : status[i] # "ABSENT"

RowsMove ==
    /\ nextRow <= nextRow'
    /\ \A i \in Rows :
          /\ status[i] # "ABSENT" => /\ status'[i] # "ABSENT"
                                     /\ maker'[i] = maker[i] /\ callOf'[i] = callOf[i]
          /\ status[i] \notin {"ABSENT", "PENDING"} => status'[i] # "PENDING"
          /\ status[i] \notin {"ABSENT", "PENDING", "APPROVED"} => status'[i] \notin Active

LEMMA RowMoves ==
    ASSUME ServerTyped, RowInv, UNCHANGED <<callOf, nextRow, maker>>, NEW i \in Rows,
           status[i] # "ABSENT", NEW to \in Status,
           status' = [status EXCEPT ![i] = to],
           \/ to = "APPROVED" /\ status[i] = "PENDING"
           \/ to \in {"USED", "DENIED", "EXPIRED"}
    PROVE  RowsMove /\ RowInv'
<1>1. nextRow \in Int /\ status \in [Rows -> Status]
  BY DEF ServerTyped, ServerTypeOK
<1>2. status'[i] = to /\ \A j \in Rows \ {i} : status'[j] = status[j]
  BY <1>1
<1>3. to \notin {"ABSENT", "PENDING"} /\ (to = "APPROVED" => status[i] = "PENDING")
  OBVIOUS
<1>4. RowInv'
  BY <1>2, <1>3 DEF RowInv
<1>5. RowsMove
  BY <1>1, <1>2, <1>3 DEF RowsMove, Active
<1> QED BY <1>4, <1>5

LEMMA RowsStay ==
    ASSUME ServerTyped, RowInv, UNCHANGED store
    PROVE  RowsMove /\ RowInv'
<1>1. nextRow \in Int
  BY DEF ServerTyped, ServerTypeOK
<1> QED BY <1>1 DEF RowInv, RowsMove, Active, store

LEMMA RowIsCreated ==
    ASSUME ServerTyped, RowInv, NEW row, row = nextRow, row <= MaxRow, nextRow' = row + 1,
           status' = [status EXCEPT ![row] = "PENDING"],
           NEW c, callOf' = [callOf EXCEPT ![row] = c],
           maker' = maker \/ \E s \in Servers : maker' = [maker EXCEPT ![row] = {s}]
    PROVE  /\ RowsMove /\ RowInv'
           /\ row \in Rows /\ status[row] = "ABSENT"
           /\ status'[row] = "PENDING" /\ callOf'[row] = c
           /\ \A i \in Rows \ {row} : /\ status'[i] = status[i] /\ maker'[i] = maker[i]
                                      /\ callOf'[i] = callOf[i]
<1>1. /\ row \in Rows /\ row \in Int /\ Rows \subseteq Int
      /\ status \in [Rows -> Status] /\ maker \in [Rows -> SUBSET Servers]
      /\ callOf \in [Rows -> Call]
  BY RowsAreNumbers DEF ServerTyped, ServerTypeOK, Rows
<1>2. /\ status'[row] = "PENDING" /\ callOf'[row] = c
      /\ \A i \in Rows \ {row} : /\ status'[i] = status[i] /\ maker'[i] = maker[i]
                                 /\ callOf'[i] = callOf[i]
  BY <1>1
<1>3. status[row] = "ABSENT"
  BY <1>1 DEF RowInv
<1>4. \A i \in Rows : (i < row + 1 <=> i < row \/ i = row) /\ (i >= row + 1 => i >= row /\ i # row)
  BY <1>1
<1>5. RowInv'
  BY <1>2, <1>4 DEF RowInv
<1>6. row <= nextRow'
  BY <1>1
<1>7. RowsMove
  BY <1>2, <1>3, <1>6 DEF RowsMove, Active
<1> QED BY <1>1, <1>2, <1>3, <1>5, <1>7

\* What a step does to the rows.  A server makes rows by Create only.
LEMMA RowStep ==
    ASSUME Typed, RowInv, ListedInv, [Next]_vars
    PROVE  /\ RowsMove /\ RowInv'
           /\ \A v \in Servers : (\A i \in Rows : i >= nextRow => maker'[i] # {v}) \/ Create(v)
<1>0. /\ ServerTyped /\ HelperTyped /\ status \in [Rows -> Status]
      /\ \A i \in Rows : i >= nextRow => maker[i] = {}
  BY DEF Typed, ServerTyped, ServerTypeOK, RowInv
<1>1. ASSUME NEW s \in Servers, Create(s)
      PROVE  /\ RowsMove /\ RowInv'
             /\ \A v \in Servers : (\A i \in Rows : i >= nextRow => maker'[i] # {v}) \/ Create(v)
  <2>1. /\ nextRow <= MaxRow /\ nextRow' = nextRow + 1
        /\ status' = [status EXCEPT ![nextRow] = "PENDING"]
        /\ callOf' = [callOf EXCEPT ![nextRow] = call[s]]
        /\ maker' = [maker EXCEPT ![nextRow] = {s}]
    BY <1>1 DEF Create
  <2>2. RowsMove /\ RowInv'
    BY <1>0, <2>1, RowIsCreated
  <2>3. maker \in [Rows -> SUBSET Servers]
    BY <1>0 DEF ServerTyped, ServerTypeOK
  <2>4. \A i \in Rows : i >= nextRow => maker'[i] \in {{}, {s}}
    BY <1>0, <2>1, <2>3
  <2>5. \A v \in Servers : v # s => \A i \in Rows : i >= nextRow => maker'[i] # {v}
    BY <2>4
  <2> QED BY <1>1, <2>2, <2>5
<1>2. ASSUME NEW s \in Servers, CreateElsewhere(s) PROVE RowsMove /\ RowInv' /\ maker' = maker
  <2>1. /\ nextRow <= MaxRow /\ nextRow' = nextRow + 1
        /\ status' = [status EXCEPT ![nextRow] = "PENDING"]
        /\ callOf' = [callOf EXCEPT ![nextRow] = call[s]]
        /\ maker' = maker
    BY <1>2 DEF CreateElsewhere
  <2> QED BY <1>0, <2>1, RowIsCreated
<1>3. ASSUME NEW s \in Servers, Consume(s) PROVE RowsMove /\ RowInv' /\ maker' = maker
  <2>1. CASE Matching(s, {"APPROVED"}) = {}
    BY <1>0, <1>3, <2>1, RowsStay DEF Consume, store
  <2>2. CASE Matching(s, {"APPROVED"}) # {}
    <3>1. PICK i \in Matching(s, {"APPROVED"}) : i = Oldest(Matching(s, {"APPROVED"}))
      BY <2>2, MatchingRows, OldestRow
    <3>2. i \in Rows /\ status[i] = "APPROVED"
      BY DEF Matching
    <3>3. status' = [status EXCEPT ![i] = "USED"] /\ UNCHANGED <<callOf, nextRow, maker>>
      BY <1>3, <2>2, <3>1 DEF Consume
    <3> QED BY <1>0, <3>2, <3>3, RowMoves DEF Status
  <2> QED BY <2>1, <2>2
<1>4. ASSUME NEW h \in Helpers, Help(h) PROVE RowsMove /\ RowInv' /\ maker' = maker
  <2> DEFINE f == H!Front(h)
  <2>1. UNCHANGED <<callOf, nextRow, maker>>
    BY <1>4 DEF Help
  <2>2. \/ status' = status
        \/ /\ status[f] = "PENDING" /\ hpc[h] = "approving"
           /\ status' = [status EXCEPT ![f] = "APPROVED"]
        \/ /\ hpc[h] = "asking"
           /\ status' = [status EXCEPT ![f] = "DENIED"]
    BY <1>0, <1>4, HelperRows DEF Help
  <2>3. hpc[h] \in {"asking", "approving"} => f \in Rows /\ status[f] # "ABSENT"
    BY <1>0, FrontType DEF ListedInv
  <2> HIDE DEF f
  <2>4. CASE status' = status
    BY <1>0, <2>1, <2>4, RowsStay DEF store
  <2>5. CASE status' # status
    BY <1>0, <2>1, <2>2, <2>3, <2>5, RowMoves DEF Status
  <2> QED BY <2>1, <2>4, <2>5
<1>5. ASSUME NEW i \in Rows, Elsewhere(i) PROVE RowsMove /\ RowInv' /\ maker' = maker
  BY <1>0, <1>5, RowMoves DEF Elsewhere, Status, Active
<1>6. ASSUME UNCHANGED store PROVE RowsMove /\ RowInv' /\ maker' = maker
  BY <1>0, <1>6, RowsStay DEF store
<1>7. ASSUME maker' = maker
      PROVE  \A v \in Servers, i \in Rows : i >= nextRow => maker'[i] # {v}
  BY <1>0, <1>7
<1>8. ASSUME NEW s \in Servers, Serve(s) \/ Receive(s) \/ Break(s), ~Consume(s)
      PROVE  UNCHANGED store
  BY <1>8 DEF Serve, Receive, Break, Handle, Evaluate, Match, NoMoreRows, Hold, Run, Poll,
              WindowEnds, Write, Read, Fail, Stop
<1>9. ASSUME NEW h \in Helpers, OpenOrQuit(h) PROVE UNCHANGED store
  BY <1>9 DEF OpenOrQuit, H!Quit, store
<1>10. CASE UNCHANGED vars
  BY <1>6, <1>7, <1>10 DEF vars
<1>11. CASE \E s \in Servers : Serve(s) \/ Receive(s) \/ Break(s)
  BY <1>3, <1>6, <1>7, <1>8, <1>11
<1>12. CASE \E s \in Servers : CreateAndOpen(s)
  BY <1>1, <1>12 DEF CreateAndOpen
<1>13. CASE \E h \in Helpers : Help(h) \/ OpenOrQuit(h)
  BY <1>4, <1>6, <1>7, <1>9, <1>13
<1>14. CASE \/ \E i \in Rows : Elsewhere(i)
            \/ \E s \in Servers : CreateElsewhere(s)
  BY <1>2, <1>5, <1>7, <1>14
<1> QED BY <1>10, <1>11, <1>12, <1>13, <1>14 DEF Next

-----------------------------------------------------------------------------
(***************************************************************************)
(* The terminals.  What was asked about has been processed, or is being    *)
(* processed; the rest of the list has not.  Once a window is to close, it *)
(* lists nothing new, and nothing on its list is open.                     *)
(***************************************************************************)
InProcess(h) == IF hpc[h] \in {"approving", "checking"} THEN {H!Front(h)} ELSE {}

Terminal(h) == /\ \A i \in queue[h] \cup asked[h] : status[i] # "ABSENT"
               /\ queue[h] \cap seen[h] = {}
               /\ asked[h] \subseteq seen[h] \cup InProcess(h)
               /\ closes[h] => /\ mode[h] = "opened"
                               /\ hpc[h] \in {"asking", "approving", "checking", "closed"}
                               /\ \A i \in queue[h] \cup asked[h] : status[i] # "PENDING"

TerminalInv == \A h \in Helpers : Terminal(h)

LEMMA TerminalsList == TerminalInv => ListedInv
BY DEF TerminalInv, Terminal, ListedInv

\* While others move the rows.
LEMMA TerminalKept ==
    ASSUME HelperTyped, RowsMove, NEW h \in Helpers, Terminal(h),
           hpc'[h] = hpc[h], mode'[h] = mode[h], seen'[h] = seen[h],
           queue'[h] = queue[h], closes'[h] = closes[h], asked'[h] = asked[h]
    PROVE  Terminal(h)'
<1>1. queue[h] \cup asked[h] \subseteq Rows
  BY RowsAreNumbers DEF HelperTyped, H!HelperTypeOK
<1>2. InProcess(h)' = InProcess(h)
  BY DEF InProcess, H!Front
<1> QED BY <1>1, <1>2 DEF Terminal, RowsMove

\* The terminal goes on to the next request, having asked about this one.
LEMMA TerminalDone ==
    ASSUME HelperTyped, RowsMove, NEW h \in Helpers, Terminal(h),
           hpc[h] \in {"asking", "approving", "checking"}, NEW skipped, H!Done(h, skipped),
           mode' = mode,
           closes'[h] => /\ mode[h] = "opened"
                         /\ \A i \in queue[h] \cup asked[h] : status'[i] # "PENDING",
           asked'[h] \subseteq asked[h] \cup {H!Front(h)}
    PROVE  Terminal(h)'
<1> DEFINE f == H!Front(h)
<1>1. /\ queue'[h] = queue[h] \ {f} /\ seen'[h] = seen[h] \cup {f}
      /\ hpc'[h] \in {"asking", H!AfterRound(h)}
  BY DoneTyped
<1>2. f \in queue[h]
  BY FrontType
<1>3. InProcess(h) \subseteq {f}
  BY DEF InProcess
<1>4. queue'[h] \cup asked'[h] \subseteq queue[h] \cup asked[h] /\ queue[h] \cup asked[h] \subseteq Rows
  BY <1>1, <1>2, RowsAreNumbers DEF HelperTyped, H!HelperTypeOK
<1>5. hpc'[h] \notin {"approving", "checking"}
  BY <1>1 DEF H!AfterRound
<1>6. InProcess(h)' = {}
  BY <1>5 DEF InProcess
<1> HIDE DEF f
<1>7. asked'[h] \subseteq seen'[h] /\ queue'[h] \cap seen'[h] = {}
  BY <1>1, <1>3 DEF Terminal, f
<1>8. \A i \in queue'[h] \cup asked'[h] : status'[i] # "ABSENT"
  BY <1>4 DEF Terminal, RowsMove
<1>9. closes'[h] => /\ mode'[h] = "opened"
                    /\ hpc'[h] \in {"asking", "closed"}
                    /\ \A i \in queue'[h] \cup asked'[h] : status'[i] # "PENDING"
  BY <1>1, <1>4 DEF H!AfterRound
<1> QED BY <1>6, <1>7, <1>8, <1>9 DEF Terminal

LEMMA TerminalWork ==
    ASSUME HelperTyped, RowsMove, NEW h \in Helpers, Terminal(h), H!Work(h)
    PROVE  Terminal(h)'
<1>0. /\ hpc \in [Helpers -> H!HelperPhases] /\ mode \in [Helpers -> H!Modes]
      /\ seen \in [Helpers -> SUBSET Rows] /\ queue \in [Helpers -> SUBSET Rows]
      /\ asked \in [Helpers -> SUBSET Rows]
      /\ lone \in [Helpers -> BOOLEAN] /\ closes \in [Helpers -> BOOLEAN]
  BY RowsAreNumbers DEF HelperTyped, H!HelperTypeOK
<1>1. \A i \in queue[h] \cup asked[h] : i \in Rows /\ status'[i] # "ABSENT"
  BY <1>0 DEF Terminal, RowsMove
<1>2. closes[h] => \A i \in queue[h] \cup asked[h] : status'[i] # "PENDING"
  BY <1>0 DEF Terminal, RowsMove
<1>3. CASE H!Look(h)
  <2>1. /\ hpc[h] = "starting" /\ hpc'[h] = "listing" /\ queue' = queue /\ seen' = seen
        /\ asked' = asked /\ closes' = closes
    BY <1>0, <1>3 DEF H!Look, H!Goto
  <2> QED BY <1>1, <2>1 DEF Terminal, InProcess
<1>4. CASE H!List(h)
  <2>1. /\ hpc[h] = "listing" /\ hpc'[h] \in {"asking", "cleaning", "closed"}
        /\ queue'[h] = H!Waiting \ seen[h] /\ seen' = seen
        /\ asked' = asked /\ closes' = closes /\ status' = status
    BY <1>0, <1>4 DEF H!List, H!Goto, H!AfterRound
  <2>2. \A i \in queue'[h] : status'[i] # "ABSENT"
    BY <2>1 DEF H!Waiting
  <2> QED BY <1>1, <2>1, <2>2 DEF Terminal, InProcess
<1>5. ASSUME H!Ask(h) PROVE asked'[h] = asked[h] \cup {H!Front(h)} /\ hpc[h] = "asking"
  BY <1>5, AskTyped DEF H!Ask
<1>6. CASE H!Skip(h)
  <2>1. /\ H!Done(h, TRUE) /\ mode' = mode /\ closes' = closes
        /\ asked'[h] = asked[h] \cup {H!Front(h)} /\ hpc[h] = "asking"
    BY <1>5, <1>6 DEF H!Skip
  <2>2. closes[h] => mode[h] = "opened"
    BY DEF Terminal
  <2> QED BY <1>2, <2>1, <2>2, TerminalDone
\* The terminal stays with the request at hand.
<1>7. ASSUME hpc[h] \in {"asking", "approving"}, hpc'[h] \in {"approving", "checking"},
             UNCHANGED <<mode, seen, queue, closes>>,
             \/ asked'[h] = asked[h] \cup {H!Front(h)}
             \/ asked'[h] = asked[h] /\ hpc[h] = "approving"
      PROVE  Terminal(h)'
  <2>1. InProcess(h)' = {H!Front(h)} /\ H!Front(h) \in queue[h]
    BY <1>7, FrontType DEF InProcess, H!Front
  <2>2. InProcess(h) \subseteq {H!Front(h)}
    BY DEF InProcess
  <2> HIDE DEF H!Front
  <2>3. asked'[h] \subseteq seen'[h] \cup InProcess(h)'
    BY <1>7, <2>1, <2>2 DEF Terminal
  <2>4. queue'[h] \cup asked'[h] \subseteq queue[h] \cup asked[h]
    BY <1>7, <2>1
  <2> QED BY <1>1, <1>2, <1>7, <2>3, <2>4 DEF Terminal
<1>8. CASE H!Yes(h) \/ H!No(h)
  <2>1. /\ H!Ask(h) /\ hpc'[h] \in {"approving", "checking"}
        /\ UNCHANGED <<mode, seen, queue, closes>>
    BY <1>0, <1>8 DEF H!Yes, H!No, H!Goto
  <2> QED BY <1>5, <1>7, <2>1
<1>9. CASE H!Approve(h)
  BY <1>0, <1>7, <1>9 DEF H!Approve, H!Goto
<1>10. CASE H!Refuse(h)
  <2>1. /\ H!Done(h, FALSE) /\ mode' = mode /\ closes' = closes
        /\ asked' = asked /\ hpc[h] = "approving"
    BY <1>10 DEF H!Refuse
  <2>2. closes[h] => mode[h] = "opened"
    BY DEF Terminal
  <2> QED BY <1>2, <2>1, <2>2, TerminalDone
<1>11. CASE H!Check(h)
  <2>1. /\ H!Done(h, FALSE) /\ mode' = mode /\ asked' = asked /\ hpc[h] = "checking"
        /\ closes' = [closes EXCEPT ![h] = closes[h] \/ H!Closing(h)] /\ status' = status
    BY <1>11 DEF H!Check
  <2>2. closes'[h] => closes[h] \/ H!Closing(h)
    BY <1>0, <2>1
  <2>3. closes[h] => mode[h] = "opened"
    BY DEF Terminal
  <2>4. H!Closing(h) => /\ mode[h] = "opened"
                        /\ \A i \in queue[h] \cup asked[h] : status'[i] # "PENDING"
    BY <1>1, <2>1, RowsAreNumbers DEF H!Closing, H!Waiting
  <2> QED BY <1>2, <2>1, <2>2, <2>3, <2>4, TerminalDone
<1>12. CASE H!Clean(h)
  <2>1. /\ hpc[h] = "cleaning" /\ hpc'[h] = "listing" /\ queue' = queue
        /\ seen'[h] = seen[h] \cap {i \in H!Ids : status[i] # "ABSENT"}
        /\ asked' = asked /\ closes' = closes
    BY <1>0, <1>12 DEF H!Clean, H!Goto, H!Kept
  <2>2. asked[h] \subseteq seen'[h]
    BY <1>0, <2>1, RowsAreNumbers DEF Terminal, InProcess
  <2> QED BY <1>1, <2>1, <2>2 DEF Terminal, InProcess
<1> QED BY <1>3, <1>4, <1>6, <1>8, <1>9, <1>10, <1>11, <1>12 DEF H!Work, H!Choose

LEMMA TerminalStartQuit ==
    ASSUME HelperTyped, RowsMove, NEW h \in Helpers, Terminal(h),
           H!Quit(h) \/ \E m \in H!Modes : H!Start(h, m)
    PROVE  Terminal(h)'
<1>1. /\ hpc \in [Helpers -> H!HelperPhases] /\ queue[h] \cup asked[h] \subseteq Rows
      /\ seen \in [Helpers -> SUBSET Rows] /\ queue \in [Helpers -> SUBSET Rows]
      /\ asked \in [Helpers -> SUBSET Rows] /\ closes \in [Helpers -> BOOLEAN]
  BY RowsAreNumbers DEF HelperTyped, H!HelperTypeOK
<1>2. CASE H!Quit(h)
  <2>1. queue'[h] = {} /\ seen'[h] = {} /\ asked'[h] = {} /\ closes'[h] = FALSE
    BY <1>1, <1>2 DEF H!Quit
  <2> QED BY <2>1 DEF Terminal
<1>3. ASSUME NEW m \in H!Modes, H!Start(h, m) PROVE Terminal(h)'
  <2>1. /\ hpc[h] = "off" /\ hpc'[h] = "starting"
        /\ UNCHANGED <<seen, queue, closes, asked>>
    BY <1>1, <1>3 DEF H!Start, H!Goto
  <2> QED BY <1>1, <2>1 DEF Terminal, InProcess, RowsMove
<1> QED BY <1>2, <1>3

\* A terminal's variables are moved by its own steps only.
LEMMA OneTerminal ==
    ASSUME HelperTyped, NEW h \in Helpers,
           H!Work(h) \/ H!Quit(h) \/ \E m \in H!Modes : H!Start(h, m),
           NEW g \in Helpers \ {h}
    PROVE  /\ hpc'[g] = hpc[g] /\ mode'[g] = mode[g] /\ seen'[g] = seen[g]
           /\ queue'[g] = queue[g] /\ closes'[g] = closes[g] /\ asked'[g] = asked[g]
<1>0. /\ hpc \in [Helpers -> H!HelperPhases] /\ mode \in [Helpers -> H!Modes]
      /\ seen \in [Helpers -> SUBSET H!Ids] /\ queue \in [Helpers -> SUBSET H!Ids]
      /\ asked \in [Helpers -> SUBSET H!Ids] /\ closes \in [Helpers -> BOOLEAN]
  BY DEF HelperTyped, H!HelperTypeOK
<1>1. ASSUME NEW phase, H!Goto(h, phase) PROVE hpc'[g] = hpc[g]
  BY <1>0, <1>1 DEF H!Goto
<1>2. ASSUME NEW skipped, H!Done(h, skipped)
      PROVE  hpc'[g] = hpc[g] /\ seen'[g] = seen[g] /\ queue'[g] = queue[g]
  BY <1>0, <1>2 DEF H!Done, H!Goto
<1>3. ASSUME H!Ask(h) PROVE asked'[g] = asked[g]
  BY <1>0, <1>3 DEF H!Ask
<1>4. CASE H!Look(h) \/ H!Approve(h)
  BY <1>1, <1>4 DEF H!Look, H!Approve
<1>5. CASE H!List(h)
  BY <1>0, <1>1, <1>5 DEF H!List
<1>6. CASE H!Skip(h)
  BY <1>2, <1>3, <1>6 DEF H!Skip
<1>7. CASE H!Yes(h) \/ H!No(h)
  BY <1>1, <1>3, <1>7 DEF H!Yes, H!No
<1>8. CASE H!Refuse(h)
  BY <1>2, <1>8 DEF H!Refuse
<1>9. CASE H!Check(h)
  BY <1>0, <1>2, <1>9 DEF H!Check
<1>10. CASE H!Clean(h)
  BY <1>0, <1>1, <1>10 DEF H!Clean
<1>11. CASE H!Quit(h)
  BY <1>0, <1>1, <1>11 DEF H!Quit
<1>12. CASE \E m \in H!Modes : H!Start(h, m)
  BY <1>0, <1>1, <1>12 DEF H!Start
<1> QED BY <1>4, <1>5, <1>6, <1>7, <1>8, <1>9, <1>10, <1>11, <1>12 DEF H!Work, H!Choose

LEMMA TerminalStep ==
    ASSUME Typed, RowInv, TerminalInv, [Next]_vars
    PROVE  TerminalInv'
<1>1. HelperTyped /\ RowsMove
  BY RowStep, TerminalsList DEF Typed
<1>2. ASSUME NEW h \in Helpers, H!Work(h) \/ H!Quit(h) \/ \E m \in H!Modes : H!Start(h, m)
      PROVE  TerminalInv'
  <2>1. Terminal(h)'
    BY <1>1, <1>2, TerminalWork, TerminalStartQuit DEF TerminalInv
  <2>2. \A g \in Helpers \ {h} : Terminal(g)'
    BY <1>1, <1>2, OneTerminal, TerminalKept DEF TerminalInv
  <2> QED BY <2>1, <2>2 DEF TerminalInv
<1>3. CASE UNCHANGED helperVars
  BY <1>1, <1>3, TerminalKept DEF helperVars, TerminalInv
<1>4. ASSUME NEW s \in Servers, CreateAndOpen(s) PROVE TerminalInv'
  BY <1>2, <1>3, <1>4 DEF CreateAndOpen, H!Modes
<1>5. ASSUME NEW h \in Helpers, Help(h) \/ OpenOrQuit(h) PROVE TerminalInv'
  BY <1>2, <1>5, ModesAssumption DEF Help, OpenOrQuit
<1> QED BY <1>3, <1>4, <1>5 DEF Next, Serve, Receive, Break, Elsewhere, CreateElsewhere, vars

\* The rows and the terminals.
LEMMA RowsAndTerminals == Spec => [](RowInv /\ TerminalInv)
<1>1. Init => RowInv /\ TerminalInv
  <2> SUFFICES ASSUME Init PROVE RowInv /\ TerminalInv
    OBVIOUS
  <2>1. RowInv
    BY RowsAreNumbers DEF Init, ServerInit, RowInv, Rows
  <2>2. TerminalInv
    BY DEF Init, H!HelperInit, TerminalInv, Terminal
  <2> QED BY <2>1, <2>2
<1>2. Typed /\ RowInv /\ TerminalInv /\ [Next]_vars => (RowInv /\ TerminalInv)'
  BY RowStep, TerminalStep, TerminalsList
<1> QED BY <1>1, <1>2, AlwaysTyped, PTL DEF Spec

\* No terminal asks twice about one request.
THEOREM AsksOnce == Spec => []AskedOnce
<1>1. Typed /\ TerminalInv => AskedOnce
  <2> SUFFICES ASSUME Typed, TerminalInv, NEW h \in Helpers, hpc[h] = "asking"
               PROVE  H!Front(h) \notin asked[h]
    BY DEF AskedOnce, H!AskedOnce
  <2>1. H!Front(h) \in queue[h]
    BY FrontType DEF Typed
  <2> QED BY <2>1 DEF TerminalInv, Terminal, InProcess
<1> QED BY <1>1, AlwaysTyped, RowsAndTerminals, PTL

\* A window that closes by itself leaves nothing open that it asked about.
THEOREM WindowsCloseWhenDecided == Spec => []ClosesWhenDecided
<1>1. TerminalInv => ClosesWhenDecided
  BY DEF TerminalInv, Terminal, ClosesWhenDecided, H!ClosesWhenDecided, H!Waiting
<1> QED BY <1>1, RowsAndTerminals, PTL

-----------------------------------------------------------------------------
(***************************************************************************)
(* An approval serves the call that waited for it.  Latest says that a     *)
(* row is the newest that this server made for the call, but for dead      *)
(* ones; the row that a server awaits is Latest until it is looked for.    *)
(***************************************************************************)
Latest(s, row) ==
    /\ row \in Rows
    /\ row < nextRow
    /\ callOf[row] = call[s]
    /\ \A i \in Rows : (i > row /\ maker[i] = {s} /\ callOf[i] = call[s])
                       => status[i] \notin Active

\* The awaited row is not to be had, or another's request is in the way.
Excused(s) ==
    \/ status[awaited[s]] # "APPROVED"
    \/ \E i \in Rows : i < nextRow /\ maker[i] # {s} /\ callOf[i] = call[s]

Served(s) ==
    /\ ~InHand(s) \/ pc[s] = "waiting" => awaited[s] = 0
    /\ pc[s] \in {"held", "waiting"} /\ awaited[s] = 0 => Latest(s, ticket[s])
    /\ awaited[s] # 0 =>
          /\ awaited[s] \in Rows
          /\ status[awaited[s]] \notin {"ABSENT", "PENDING"}
          /\ pc[s] \in {"evaluating", "matching"} => Latest(s, awaited[s])
          /\ pc[s] = "creating" => status[awaited[s]] # "APPROVED"
          /\ \/ pc[s] = "held"
             \/ pc[s] = "answering" /\ reply[s] = "approval_required"
             => Excused(s)

ServedInv == \A s \in Servers : Served(s)

\* What others do to the rows leaves Latest and Excused true.
LEMMA LatestKept ==
    ASSUME ServerTyped, RowInv, RowInv', RowsMove, NEW s \in Servers, call'[s] = call[s],
           \A i \in Rows : i >= nextRow => maker'[i] # {s},
           NEW row, Latest(s, row)
    PROVE  Latest(s, row)'
<1>1. row \in Rows /\ row < nextRow /\ callOf[row] = call[s] /\ status[row] # "ABSENT"
  BY DEF Latest, RowInv
<1>2. row < nextRow'
  BY <1>1 DEF RowInv, RowsMove
<1>3. callOf'[row] = call'[s]
  BY <1>1 DEF RowsMove
<1>4. ASSUME NEW i \in Rows, i > row, maker'[i] = {s}, callOf'[i] = call'[s]
      PROVE  status'[i] \notin Active
  <2>1. i < nextRow
    <3>1. i \in Int /\ nextRow \in Int
      BY RowsAreNumbers DEF ServerTyped, ServerTypeOK
    <3>2. ~(i >= nextRow)
      BY <1>4
    <3> QED BY <3>1, <3>2
  <2>2. status[i] # "ABSENT" /\ maker[i] = {s} /\ callOf[i] = call[s]
    BY <1>4, <2>1 DEF RowInv, RowsMove
  <2>3. status[i] \notin Active
    BY <1>4, <2>2 DEF Latest
  <2> QED BY <2>2, <2>3 DEF RowsMove, Active
<1> QED BY <1>1, <1>2, <1>3, <1>4 DEF Latest

LEMMA ExcusedKept ==
    ASSUME RowInv, RowInv', RowsMove, NEW s \in Servers,
           call'[s] = call[s], awaited'[s] = awaited[s], awaited[s] \in Rows,
           status[awaited[s]] \notin {"ABSENT", "PENDING"}, Excused(s)
    PROVE  Excused(s)'
<1>1. CASE status[awaited[s]] # "APPROVED"
  BY <1>1 DEF RowsMove, Excused, Active
<1>2. ASSUME NEW i \in Rows, i < nextRow, maker[i] # {s}, callOf[i] = call[s]
      PROVE  Excused(s)'
  <2>1. status[i] # "ABSENT"
    BY <1>2 DEF RowInv
  <2>2. i < nextRow' /\ maker'[i] # {s} /\ callOf'[i] = call'[s]
    BY <1>2, <2>1 DEF RowInv, RowsMove
  <2> QED BY <2>2 DEF Excused
<1> QED BY <1>1, <1>2 DEF Excused

\* A server whose variables stay.
LEMMA ServedKept ==
    ASSUME ServerTyped, RowInv, RowInv', RowsMove, NEW s \in Servers, Served(s),
           \A i \in Rows : i >= nextRow => maker'[i] # {s},
           pc'[s] = pc[s], call'[s] = call[s], ticket'[s] = ticket[s],
           awaited'[s] = awaited[s], reply'[s] = reply[s]
    PROVE  Served(s)'
<1>1. (InHand(s)' <=> InHand(s)) /\ \A row : Latest(s, row) => Latest(s, row)'
  BY LatestKept DEF InHand
<1>2. pc[s] \in {"held", "waiting"} /\ awaited[s] = 0 => Latest(s, ticket[s])'
  <2>1. PICK row : row = ticket[s]
    OBVIOUS
  <2> QED BY <1>1, <2>1 DEF Served, Latest
<1>3. awaited[s] # 0 =>
         /\ awaited'[s] \in Rows
         /\ status'[awaited'[s]] \notin {"ABSENT", "PENDING"}
         /\ pc[s] = "creating" => status'[awaited'[s]] # "APPROVED"
  BY DEF Served, RowsMove, Active
<1>4. awaited[s] # 0 /\ pc[s] \in {"evaluating", "matching"} => Latest(s, awaited[s])'
  <2>1. PICK row : row = awaited[s]
    OBVIOUS
  <2> QED BY <1>1, <2>1 DEF Served, Latest
<1>5. awaited[s] # 0 /\ (pc[s] = "held" \/ (pc[s] = "answering" /\ reply[s] = "approval_required"))
      => Excused(s)'
  BY ExcusedKept DEF Served
<1> QED BY <1>1, <1>2, <1>3, <1>4, <1>5 DEF Served

\* What the server itself keeps as it goes on with the same call.
LEMMA ServedGoesOn ==
    ASSUME ServerTyped, RowInv, RowInv', RowsMove, NEW s \in Servers, Served(s),
           \A i \in Rows : i >= nextRow => maker'[i] # {s},
           call'[s] = call[s], awaited'[s] = awaited[s]
    PROVE  /\ \A row : Latest(s, row) => Latest(s, row)'
           /\ awaited[s] # 0 =>
                 /\ awaited'[s] \in Rows
                 /\ status'[awaited'[s]] \notin {"ABSENT", "PENDING"}
                 /\ status[awaited[s]] # "APPROVED" => status'[awaited'[s]] # "APPROVED"
                 /\ Excused(s) => Excused(s)'
                 /\ Latest(s, awaited[s]) => Latest(s, awaited[s])'
<1>1. \A row : Latest(s, row) => Latest(s, row)'
  BY LatestKept
<1>2. Latest(s, awaited[s]) => Latest(s, awaited[s])'
  <2>1. PICK row : row = awaited[s]
    OBVIOUS
  <2> QED BY <1>1, <2>1 DEF Latest
<1>3. awaited[s] # 0 =>
         /\ awaited'[s] \in Rows
         /\ status'[awaited'[s]] \notin {"ABSENT", "PENDING"}
         /\ status[awaited[s]] # "APPROVED" => status'[awaited'[s]] # "APPROVED"
  BY DEF Served, RowsMove, Active
<1>4. awaited[s] # 0 /\ Excused(s) => Excused(s)'
  BY ExcusedKept DEF Served
<1> QED BY <1>1, <1>2, <1>3, <1>4

LEMMA ServedMatch ==
    ASSUME ServerTyped, RowInv, RowInv', RowsMove, NEW s \in Servers, Served(s), Match(s)
    PROVE  Served(s)'
<1>0. /\ pc \in [Servers -> Phases] /\ ticket \in [Servers -> 0..MaxRow]
      /\ awaited \in [Servers -> 0..MaxRow] /\ pc[s] = "matching"
      /\ UNCHANGED <<status, callOf, nextRow, maker, call, awaited, reply>>
  BY DEF Match, store, ServerTyped, ServerTypeOK
<1>1. /\ awaited[s] # 0 => /\ awaited'[s] \in Rows
                          /\ status'[awaited'[s]] \notin {"ABSENT", "PENDING"}
                          /\ Latest(s, awaited[s])
  BY <1>0 DEF Served
<1>2. CASE Matching(s, Active) = {}
  <2>1. pc'[s] = "creating"
    BY <1>0, <1>2 DEF Match, Goto
  <2>2. awaited[s] # 0 => status'[awaited'[s]] # "APPROVED"
    BY <1>0, <1>1, <1>2 DEF Matching, Latest, Active
  <2> QED BY <1>0, <1>1, <2>1, <2>2 DEF Served, InHand
<1>3. CASE Matching(s, Active) # {}
  <2>1. PICK n \in Matching(s, Active) : /\ n = Newest(Matching(s, Active))
                                        /\ \A j \in Matching(s, Active) : j <= n
    BY <1>3, MatchingRows, NewestRow
  <2>2. n \in Rows /\ status[n] \in Active /\ callOf[n] = call[s] /\ n < nextRow
    BY DEF Matching, RowInv, Active
  <2>3. /\ ticket'[s] = n
        /\ pc'[s] = IF status[n] = "APPROVED" THEN "consuming" ELSE "held"
    BY <1>0, <1>3, <2>1 DEF Match, Goto
  <2>4. Latest(s, n)
    <3>1. ASSUME NEW i \in Rows, i > n, callOf[i] = call[s], status[i] \in Active PROVE FALSE
      <4>1. i <= n
        BY <2>1, <3>1 DEF Matching
      <4> QED BY <2>2, <3>1, <4>1, RowsAreNumbers
    <3> QED BY <2>2, <3>1 DEF Latest
  <2>5. Latest(s, ticket[s])'
    BY <1>0, <2>3, <2>4 DEF Latest
  <2>6. ASSUME awaited[s] # 0, status[n] # "APPROVED" PROVE Excused(s)'
    <3>1. CASE status[awaited[s]] # "APPROVED"
      BY <1>0, <3>1 DEF Excused
    <3>2. CASE status[awaited[s]] = "APPROVED"
      <4>1. awaited[s] \in Matching(s, Active)
        BY <1>0, <1>1, <2>6, <3>2 DEF Matching, Latest, Active
      <4>2. n > awaited[s]
        <5>1. awaited[s] <= n /\ awaited[s] # n /\ n \in Int /\ awaited[s] \in Int
          BY <2>1, <2>2, <2>6, <3>2, <4>1, <1>0, <1>1, <2>6, RowsAreNumbers
        <5> QED BY <5>1
      <4>3. maker[n] # {s}
        BY <1>1, <2>2, <2>6, <4>2 DEF Latest
      <4> QED BY <1>0, <2>2, <4>3 DEF Excused
    <3> QED BY <3>1, <3>2
  <2> QED BY <1>0, <1>1, <2>3, <2>5, <2>6 DEF Served, InHand
<1> QED BY <1>2, <1>3

LEMMA ServedCreate ==
    ASSUME ServerTyped, RowInv, NEW s \in Servers, Served(s), Create(s)
    PROVE  Served(s)'
<1>0. /\ pc \in [Servers -> Phases] /\ ticket \in [Servers -> 0..MaxRow]
      /\ maker \in [Rows -> SUBSET Servers]
      /\ pc[s] = "creating" /\ UNCHANGED <<call, awaited, reply>>
  BY DEF Create, ServerTyped, ServerTypeOK
<1>1. PICK row \in Rows : row = nextRow
  BY RowsAreNumbers DEF Create, ServerTyped, ServerTypeOK, Rows
<1>2. /\ row = nextRow /\ row <= MaxRow /\ nextRow' = row + 1
      /\ status' = [status EXCEPT ![row] = "PENDING"]
      /\ callOf' = [callOf EXCEPT ![row] = call[s]]
      /\ maker' = [maker EXCEPT ![row] = {s}]
  BY <1>1 DEF Create
<1>3. /\ RowsMove /\ RowInv' /\ callOf'[row] = call[s]
      /\ \A i \in Rows \ {row} : status'[i] = status[i]
  BY <1>2, RowIsCreated
<1>4. pc'[s] = "held" /\ ticket'[s] = row
  BY <1>0, <1>1 DEF Create, Goto
<1>5. Latest(s, ticket[s])'
  <2>1. ASSUME NEW i \in Rows, i > row PROVE status'[i] \notin Active
    <3>1. row \in Int /\ i \in Int
      BY RowsAreNumbers
    <3>2. ~(i < row + 1)
      BY <2>1, <3>1
    <3> QED BY <1>2, <1>3, <3>2 DEF RowInv, Active
  <2>2. row < row + 1
    BY RowsAreNumbers
  <2> QED BY <1>0, <1>2, <1>3, <1>4, <2>1, <2>2 DEF Latest
<1>6. awaited[s] # 0 => /\ awaited'[s] \in Rows
                        /\ status'[awaited'[s]] \notin {"ABSENT", "PENDING", "APPROVED"}
  BY <1>0, <1>3 DEF Served, RowsMove, Active
<1>7. awaited'[s] # 0 => Excused(s)'
  BY <1>0, <1>6 DEF Excused
<1> QED BY <1>0, <1>4, <1>5, <1>6, <1>7 DEF Served, InHand

\* A step of the server.
LEMMA ServedHandle ==
    ASSUME ServerTyped, RowInv, RowInv', RowsMove, NEW s \in Servers, Served(s),
           \A i \in Rows : i >= nextRow => maker'[i] # {s},
           \/ Handle(s) \/ Fail(s) \/ Stop(s)
           \/ \E m \in Messages : Read(s, m)
    PROVE  Served(s)'
<1>0. /\ pc \in [Servers -> Phases] /\ reply \in [Servers -> Replies]
      /\ ticket \in [Servers -> 0..MaxRow] /\ awaited \in [Servers -> 0..MaxRow]
  BY DEF ServerTyped, ServerTypeOK
<1>1. ASSUME call' = call, awaited' = awaited
      PROVE  /\ \A row : Latest(s, row) => Latest(s, row)'
             /\ awaited[s] # 0 =>
                   /\ awaited'[s] \in Rows
                   /\ status'[awaited'[s]] \notin {"ABSENT", "PENDING"}
                   /\ Excused(s) => Excused(s)'
                   /\ Latest(s, awaited[s]) => Latest(s, awaited[s])'
  BY <1>1, ServedGoesOn
\* On to a phase that promises nothing.
<1>2. ASSUME call' = call, awaited' = awaited, InHand(s),
             \/ pc'[s] \in {"consuming", "running"}
             \/ pc'[s] = "answering" /\ reply'[s] # "approval_required"
      PROVE  Served(s)'
  BY <1>1, <1>2 DEF Served, InHand
<1>3. ASSUME call' = call, awaited' = awaited, InHand(s),
             NEW with, with # "approval_required", Reply(s, with)
      PROVE  Served(s)'
  BY <1>0, <1>2, <1>3 DEF Reply, Goto
<1>4. CASE Evaluate(s)
  <2>1. pc[s] = "evaluating" /\ InHand(s) /\ call' = call /\ awaited' = awaited
    BY <1>4 DEF Evaluate, InHand
  <2>2. Reply(s, "blocked") \/ pc'[s] = "running" \/ pc'[s] = "matching"
    BY <1>0, <1>4 DEF Evaluate, Goto
  <2>3. CASE pc'[s] = "matching"
    BY <1>1, <2>1, <2>3 DEF Served, InHand
  <2> QED BY <1>2, <1>3, <2>1, <2>2, <2>3
<1>5. CASE Match(s)
  BY <1>5, ServedMatch
<1>6. CASE Consume(s)
  <2>1. pc[s] = "consuming" /\ InHand(s) /\ call' = call /\ awaited' = awaited
    BY <1>6 DEF Consume, InHand
  <2>2. Reply(s, "blocked") \/ pc'[s] = "running"
    BY <1>0, <1>6 DEF Consume, Goto
  <2> QED BY <1>2, <1>3, <2>1, <2>2
<1>7. CASE NoMoreRows(s) \/ Fail(s)
  <2>1. InHand(s) /\ call' = call /\ awaited' = awaited /\ Reply(s, "error")
    BY <1>7 DEF NoMoreRows, Fail, Raises, InHand
  <2> QED BY <1>3, <2>1
<1>8. CASE Hold(s)
  <2>1. pc[s] = "held" /\ call' = call /\ awaited' = awaited /\ ticket' = ticket
    BY <1>8 DEF Hold
  <2>2. CASE awaited[s] = 0
    <3>1. Latest(s, ticket[s])'
      <4>1. PICK row : row = ticket[s]
        OBVIOUS
      <4> QED BY <1>1, <2>1, <2>2, <4>1 DEF Served, Latest
    <3> QED BY <2>1, <2>2, <3>1 DEF Served
  <2>3. CASE awaited[s] # 0
    <3>1. pc'[s] = "answering"
      BY <1>0, <1>8, <2>3 DEF Hold, Reply, Goto
    <3> QED BY <1>1, <2>1, <2>3, <3>1 DEF Served, InHand
  <2> QED BY <2>2, <2>3
<1>9. CASE Run(s)
  <2>1. pc[s] = "running" /\ InHand(s) /\ call' = call /\ awaited' = awaited
    BY <1>9 DEF Run, InHand
  <2>2. PICK end \in Execute(call[s].tool, call[s].target) :
           /\ \E e \in Effects(call[s].tool, end) : effect' = [effect EXCEPT ![s] = e]
           /\ Reply(s, StatusOf(end))
    BY <1>9 DEF Run
  <2>3. StatusOf(end) # "approval_required"
    BY <2>2, ToolsEnd
  <2> QED BY <1>3, <2>1, <2>2, <2>3
<1>10. CASE Poll(s)
  <2>1. /\ pc[s] = "waiting" /\ awaited[s] = 0 /\ Latest(s, ticket[s]) /\ call' = call
        /\ UNCHANGED <<status, callOf, nextRow, maker>>
    BY <1>10 DEF Poll, Served, store
  <2>2. CASE awaited' = awaited
    <3>1. pc'[s] = "answering"
      BY <1>0, <1>10, <2>1, <2>2, RowsAreNumbers DEF Poll, Reply, Goto, Latest, Rows
    <3> QED BY <2>1, <2>2, <3>1 DEF Served, InHand
  <2>3. CASE awaited' # awaited
    <3>1. /\ status[ticket[s]] = "APPROVED" /\ awaited'[s] = ticket[s] /\ pc'[s] = "evaluating"
      BY <1>0, <1>10, <2>3 DEF Poll, Goto
    <3>2. Latest(s, awaited[s])'
      BY <2>1, <3>1 DEF Latest
    <3> QED BY <2>1, <3>1, <3>2 DEF Served, InHand, Latest
  <2> QED BY <2>2, <2>3
<1>11. CASE WindowEnds(s)
  <2>1. UNCHANGED <<pc, call, ticket, awaited, reply>>
    BY <1>11 DEF WindowEnds
  <2> QED BY <2>1, ServedKept
<1>12. CASE Write(s) \/ Stop(s)
  <2>1. awaited'[s] = 0 /\ pc'[s] \in {"reading", "stopped"}
    BY <1>0, <1>12 DEF Write, Stop, Forget, Goto
  <2> QED BY <2>1 DEF Served, InHand
<1>13. ASSUME NEW m \in Messages, Read(s, m) PROVE Served(s)'
  <2>1. awaited'[s] = 0
    BY <1>13 DEF Read, Served, InHand
  <2>2. pc'[s] \in {"reading", "stopped", "evaluating", "answering"}
    BY <1>0, <1>13 DEF Read, Reply, Goto
  <2> QED BY <2>1, <2>2 DEF Served
<1> QED BY <1>4, <1>5, <1>6, <1>7, <1>8, <1>9, <1>10, <1>11, <1>12, <1>13 DEF Handle

LEMMA ServedStep ==
    ASSUME Typed, RowInv, ListedInv, ServedInv, [Next]_vars
    PROVE  ServedInv'
<1>0. /\ ServerTyped /\ RowsMove /\ RowInv'
      /\ \A i \in Rows : i >= nextRow => maker[i] = {}
  BY RowStep DEF Typed, RowInv
<1>1. ASSUME NEW s \in Servers, Serve(s) \/ Receive(s) \/ Break(s) \/ CreateAndOpen(s)
      PROVE  ServedInv'
  <2>1. \/ Handle(s) \/ Fail(s) \/ Stop(s) \/ Create(s)
        \/ \E m \in Messages : Read(s, m)
    BY <1>1 DEF Serve, Receive, Break, CreateAndOpen
  <2>2. \A v \in Servers, i \in Rows : i >= nextRow /\ maker'[i] = {v} => v = s /\ Create(s)
    <3>1. CASE Create(s)
      <4>1. maker' = [maker EXCEPT ![nextRow] = {s}] /\ maker \in [Rows -> SUBSET Servers]
        BY <1>0, <3>1 DEF Create, ServerTyped, ServerTypeOK
      <4>2. \A i \in Rows : i >= nextRow => maker'[i] \in {{}, {s}}
        BY <1>0, <4>1
      <4> QED BY <3>1, <4>2
    <3>2. CASE ~Create(s)
      <4>1. maker' = maker
        BY <2>1, <3>2 DEF Handle, Evaluate, Match, Consume, NoMoreRows, Hold, Run, Poll,
                          WindowEnds, Write, Read, Fail, Stop, store
      <4> QED BY <1>0, <4>1
    <3> QED BY <3>1, <3>2
  <2>3. Served(s)'
    <3>1. CASE Create(s)
      BY <1>0, <3>1, ServedCreate DEF ServedInv
    <3>2. CASE ~Create(s)
      BY <1>0, <2>1, <2>2, <3>2, ServedHandle DEF ServedInv
    <3> QED BY <3>1, <3>2
  <2>4. ASSUME NEW v \in Servers \ {s} PROVE Served(v)'
    BY <1>0, <2>1, <2>2, OneServer, ServedKept DEF ServedInv
  <2> QED BY <2>3, <2>4 DEF ServedInv
<1>2. ASSUME UNCHANGED serverVars, maker' = maker PROVE ServedInv'
  BY <1>0, <1>2, ServedKept DEF serverVars, ServedInv
<1> QED BY <1>1, <1>2 DEF Next, Help, OpenOrQuit, Elsewhere, CreateElsewhere, vars, store

\* An approval serves the call that waited for it, but for another's request
\* for the same call.
THEOREM ApprovalsServe == Spec => []ApprovalServes
<1>1. Init => ServedInv
  BY DEF Init, ServerInit, ServedInv, Served, InHand
<1>2. Typed /\ RowInv /\ TerminalInv /\ ServedInv /\ [Next]_vars => ServedInv'
  BY ServedStep, TerminalsList
<1>3. ServedInv => ApprovalServes
  BY DEF ServedInv, Served, Excused, ApprovalServes
<1> QED BY <1>1, <1>2, <1>3, AlwaysTyped, RowsAndTerminals, PTL DEF Spec
=============================================================================
