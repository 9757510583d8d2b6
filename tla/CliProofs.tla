----------------------------- MODULE CliProofs -----------------------------
(***************************************************************************)
(* Proofs about module Cli: for any command lines, events, configurations, *)
(* settings files and number of commands running at a time.                *)
(***************************************************************************)
EXTENDS Cli, WellFoundedInduction, TLAPS

(* subscribe. *)

Phases == {"start", "dial", "ack", "sub", "read", "backoff", "exit"}

\* A --once that runs has printed nothing, and so has one that failed.
StatusInv ==
    /\ phase \in Phases /\ once \in BOOLEAN
    /\ phase # "exit" => code = -1
    /\ phase = "start" => attempt = 0 /\ printed = <<>>
    /\ code \in {-1, 0, 1, 2}
    /\ code = 0 => once /\ Len(printed) = 1
    /\ code # 0 /\ once => printed = <<>>
    /\ code = 1 => attempt = 0 /\ printed = <<>>

Frames == [type : {"next"} \cup Endings, event : Nat]
IsNext(i) == frames[i].type = "next"

\* A line, printed or under way: "null" of a refused operation, or an event
\* that was published and relayed.
LineOK(n) ==
    IF n = 0 THEN Refused(ask)
    ELSE n <= published /\ ~Rejected(ask) /\ ~Refused(ask) /\ Relays(ask, Feed[n])

FramesOK == \A i \in 1 .. Len(frames) : IsNext(i) => LineOK(frames[i].event)
FramesInOrder ==
    \A i, j \in 1 .. Len(frames) :
        i < j /\ IsNext(i) /\ IsNext(j) /\ frames[j].event # 0 => frames[i].event < frames[j].event
LinesOK == \A i \in 1 .. Len(printed) : LineOK(printed[i])
LinesInOrder ==
    \A i, j \in 1 .. Len(printed) : i < j /\ printed[j] # 0 => printed[i] < printed[j]
\* What is under way is later than what is printed, whatever connection it was on.
LinesFirst ==
    \A i \in 1 .. Len(printed), j \in 1 .. Len(frames) :
        IsNext(j) /\ frames[j].event # 0 => printed[i] < frames[j].event

LineTypeOK ==
    /\ ask \in Asks /\ published \in Nat /\ published <= MaxEvents
    /\ printed \in Seq(Nat) /\ frames \in Seq(Frames)
    /\ sub \in {"none", "sent", "on"}

\* The server only sees what the command has accepted, and only registers
\* what the resolver has.
AcceptedOK ==
    /\ phase \notin {"start", "exit"} \/ sub # "none" => ~Rejected(ask)
    /\ sub = "on" => ~Refused(ask)

LineInv == LineTypeOK /\ AcceptedOK /\ FramesOK /\ FramesInOrder /\ LinesOK /\ LinesInOrder /\ LinesFirst

LEMMA FrameEvent == \A f \in Frames : f.event \in Nat
  BY DEF Frames

LEMMA OneLine == \A x : Len(Append(<<>>, x)) = 1
  <1> SUFFICES ASSUME NEW x PROVE Len(Append(<<>>, x)) = 1
    OBVIOUS
  <1>1. <<>> \in Seq({x}) /\ Len(<<>>) = 0
    OBVIOUS
  <1> QED
    BY <1>1

LEMMA StatusInit == Init => StatusInv
  <1> SUFFICES ASSUME Init PROVE StatusInv
    OBVIOUS
  <1>1. /\ once \in BOOLEAN /\ phase = "start" /\ code = -1 /\ attempt = 0 /\ printed = <<>>
    BY DEF Init, SubscribeInit
  <1> QED
    BY <1>1 DEF StatusInv, Phases

LEMMA StatusNext == StatusInv /\ [Next]_vars => StatusInv'
  <1> SUFFICES ASSUME StatusInv, [Next]_vars PROVE StatusInv'
    OBVIOUS
  <1>1. CASE UNCHANGED client
    BY <1>1 DEF client, StatusInv
  <1>2. CASE Validate
    BY <1>2 DEF Validate, Exit, StatusInv, Phases
  <1>3. CASE Dial \/ Acked \/ SendSubscribe
    BY <1>3 DEF Dial, Acked, SendSubscribe, StatusInv, Phases
  <1>4. CASE DialFails \/ HandshakeFails \/ PrintFails \/ ReadEnding
    <2>1. /\ phase \notin {"exit", "start"} /\ UNCHANGED <<once, attempt, printed>>
          /\ (phase' = "exit" /\ code' = 2) \/ (phase' = "backoff" /\ code' = code)
      BY <1>4 DEF DialFails, HandshakeFails, PrintFails, ReadEnding, Drop, Exit
    <2> QED
      BY <2>1 DEF StatusInv, Phases
  <1>5. CASE Backoff
    BY <1>5 DEF Backoff, Exit, StatusInv, Phases
  <1>6. CASE PrintNext
    <2>1. CASE once
      BY <1>6, <2>1, OneLine DEF PrintNext, Exit, StatusInv, Phases
    <2>2. CASE ~once
      BY <1>6, <2>2 DEF PrintNext, StatusInv, Phases
    <2> QED
      BY <2>1, <2>2
  <1>7. CASE ServerSubscribes \/ Publish \/ StreamEnds \/ UNCHANGED vars
    BY <1>1, <1>7 DEF ServerSubscribes, Publish, StreamEnds, vars, subscribeVars
  <1> QED
    BY <1>1, <1>2, <1>3, <1>4, <1>5, <1>6, <1>7 DEF Next, SubscribeNext, ClientStep, subscribeVars

\* runSubscribe: what the shell concludes from the status is right for every
\* sequence of drops and reconnects: 0 is --once with exactly
\* one line, and a --once that failed printed none.
THEOREM StatusHolds == Spec => []StatusTellsOutput
  <1>1. StatusInv => StatusTellsOutput
    <2> SUFFICES ASSUME StatusInv PROVE StatusTellsOutput
      OBVIOUS
    <2>1. once => Len(printed) = 0 \/ Len(printed) = 1
      <3>1. Len(<<>>) = 0
        OBVIOUS
      <3> QED
        BY <3>1 DEF StatusInv
    <2>2. code \in {1, 2} => code # 0
      OBVIOUS
    <2>3. ASSUME once PROVE Len(printed) <= 1
      <3>1. \A n : n = 0 \/ n = 1 => n <= 1
        OBVIOUS
      <3> QED
        BY <2>1, <2>3, <3>1
    <2> QED
      BY <2>2, <2>3 DEF StatusInv, StatusTellsOutput
  <1> QED
    BY <1>1, StatusInit, StatusNext, PTL DEF Spec

----------------------------------------------------------------------------
(* subscribe: the lines. *)

LEMMA LineKept ==
    ASSUME LineInv, UNCHANGED <<ask, printed>>, published' \in Nat,
           published <= published', NEW n \in Nat, LineOK(n)
    PROVE  LineOK(n)'
  BY DEF LineInv, LineTypeOK, LineOK

\* The client hangs up, and what was under way is gone.
LEMMA LineDrop ==
    ASSUME LineInv, AcceptedOK', frames' = <<>>, sub' = "none", UNCHANGED <<ask, printed, published>>
    PROVE  LineInv'
  <1>1. frames' \in Seq(Frames) /\ Len(frames') = 0
    OBVIOUS
  <1>2. LineTypeOK'
    BY <1>1 DEF LineInv, LineTypeOK
  <1>3. FramesOK' /\ FramesInOrder' /\ LinesFirst'
    BY <1>1 DEF FramesOK, FramesInOrder, LinesFirst
  <1>4. LinesOK' /\ LinesInOrder'
    BY DEF LineInv, LinesOK, LinesInOrder, LineOK
  <1> QED
    BY <1>2, <1>3, <1>4 DEF LineInv

\* Nothing is sent or printed; an event may be published that is not relayed.
LEMMA LineSame ==
    ASSUME LineInv, AcceptedOK', sub' \in {"none", "sent", "on"}, UNCHANGED <<ask, frames, printed>>,
           published' \in Nat, published <= published', published' <= MaxEvents
    PROVE  LineInv'
  <1>1. LineTypeOK' /\ FramesInOrder' /\ LinesInOrder' /\ LinesFirst'
    BY DEF LineInv, LineTypeOK, FramesInOrder, LinesInOrder, LinesFirst, IsNext
  <1>2. \A n \in Nat : LineOK(n) => LineOK(n)'
    BY LineKept
  <1>3. \A i \in 1 .. Len(frames) : frames[i].event \in Nat
    <2>1. \A i \in 1 .. Len(frames) : frames[i] \in Frames
      BY DEF LineInv, LineTypeOK
    <2> QED
      BY <2>1, FrameEvent
  <1>4. FramesOK'
    BY <1>2, <1>3 DEF LineInv, FramesOK, IsNext, LineOK
  <1>5. LinesOK'
    <2>1. \A i \in 1 .. Len(printed) : printed[i] \in Nat
      BY DEF LineInv, LineTypeOK
    <2> QED
      BY <1>2, <2>1 DEF LineInv, LinesOK, LineOK
  <1> QED
    BY <1>1, <1>4, <1>5 DEF LineInv

\* A refusal: "null" and `complete` follow what is under way.
LEMMA LineRefused ==
    ASSUME LineInv, AcceptedOK', sub' = "none", UNCHANGED <<ask, printed, published>>, Refused(ask),
           frames' = frames \o <<[type |-> "next", event |-> 0], [type |-> "complete", event |-> 0]>>
    PROVE  LineInv'
  <1> DEFINE N == Len(frames)
             f == [type |-> "next", event |-> 0]
             g == [type |-> "complete", event |-> 0]
  <1>1. f \in Frames /\ g \in Frames /\ f.event = 0 /\ g.event = 0
    BY DEF Frames, Endings
  <1>2. frames \in Seq(Frames) /\ N \in Nat
    BY DEF LineInv, LineTypeOK
  <1>3. /\ frames' \in Seq(Frames) /\ Len(frames') = N + 2
        /\ \A i \in 1 .. N : frames'[i] = frames[i]
        /\ frames'[N + 1] = f /\ frames'[N + 2] = g
    <2> HIDE DEF f, g
    <2>1. <<f, g>> \in Seq(Frames) /\ Len(<<f, g>>) = 2 /\ <<f, g>>[1] = f /\ <<f, g>>[2] = g
      BY <1>1
    <2>2. frames' = frames \o <<f, g>>
      BY DEF f, g
    <2> QED
      BY <1>2, <2>1, <2>2
  <1>4. \A i \in 1 .. (N + 2) : i \in 1 .. N \/ frames'[i].event = 0
    <2>1. \A i \in 1 .. (N + 2) : i \in 1 .. N \/ i = N + 1 \/ i = N + 2
      BY <1>2
    <2> QED
      BY <1>1, <1>3, <2>1
  <1>5. LineTypeOK'
    BY <1>3 DEF LineInv, LineTypeOK
  <1>6. FramesOK'
    <2> SUFFICES ASSUME NEW i \in 1 .. (N + 2), frames'[i].type = "next",
                        NEW m, m = frames'[i].event
                 PROVE  LineOK(m)'
      BY <1>3 DEF FramesOK, IsNext, LineOK
    <2>1. CASE m = 0
      BY <2>1 DEF LineOK
    <2>2. CASE m # 0
      <3>1. i \in 1 .. N /\ frames'[i] = frames[i]
        BY <1>3, <1>4, <2>2
      <3>2. LineOK(m)
        BY <3>1 DEF LineInv, FramesOK, IsNext
      <3> QED
        BY <3>2 DEF LineOK
    <2> QED
      BY <2>1, <2>2
  <1>7. FramesInOrder'
    <2> SUFFICES ASSUME NEW i \in 1 .. (N + 2), NEW j \in 1 .. (N + 2), i < j,
                        frames'[i].type = "next", frames'[j].type = "next", frames'[j].event # 0
                 PROVE  frames'[i].event < frames'[j].event
      BY <1>3 DEF FramesInOrder, IsNext
    <2>1. j \in 1 .. N
      BY <1>4
    <2>2. i \in 1 .. N
      BY <1>2, <2>1
    <2> QED
      BY <1>3, <2>1, <2>2 DEF LineInv, FramesInOrder, IsNext
  <1>8. LinesFirst'
    BY <1>3, <1>4 DEF LineInv, LinesFirst, IsNext
  <1>9. LinesOK' /\ LinesInOrder'
    BY DEF LineInv, LinesOK, LinesInOrder, LineOK
  <1> QED
    BY <1>5, <1>6, <1>7, <1>8, <1>9 DEF LineInv

\* A frame follows those under way, or what was under way is lost first.
LEMMA LineAppend ==
    ASSUME LineInv, AcceptedOK', sub' \in {"none", "sent", "on"}, UNCHANGED <<ask, printed>>,
           NEW f \in Frames, frames' = Append(frames, f),
           published' \in Nat, published <= published', published' <= MaxEvents,
           f.type = "next" => LineOK(f.event)' /\ (f.event = 0 \/ f.event > published)
    PROVE  LineInv'
  <1> DEFINE N == Len(frames)
  <1>1. /\ frames' \in Seq(Frames) /\ Len(frames') = N + 1 /\ N \in Nat
        /\ \A i \in 1 .. N : frames'[i] = frames[i]
        /\ frames'[N + 1] = f
    BY DEF LineInv, LineTypeOK
  <1>2. LineTypeOK'
    BY <1>1 DEF LineInv, LineTypeOK
  <1>3. \A i \in 1 .. N : frames[i] \in Frames
    BY DEF LineInv, LineTypeOK
  <1>4. \A n \in Nat : LineOK(n) => LineOK(n)'
    BY LineKept
  <1>5. \A i \in 1 .. (N + 1) : i \in 1 .. N \/ i = N + 1
    BY <1>1
  <1>6. FramesOK'
    <2> SUFFICES ASSUME NEW i \in 1 .. (N + 1), frames'[i].type = "next",
                        NEW n \in Nat, n = frames'[i].event
                 PROVE  LineOK(n)'
      <3>1. \A k \in 1 .. (N + 1) : frames'[k].event \in Nat
        <4>1. \A k \in 1 .. (N + 1) : frames'[k] \in Frames
          BY <1>1
        <4> QED
          BY <4>1, FrameEvent
      <3> QED
        BY <1>1, <3>1 DEF FramesOK, IsNext, LineOK
    <2>1. CASE i = N + 1
      BY <1>1, <2>1
    <2>2. CASE i \in 1 .. N
      <3>1. frames'[i] = frames[i] /\ frames[i].event \in Nat /\ LineOK(frames[i].event)
        BY <1>1, <1>3, <2>2 DEF LineInv, FramesOK, IsNext, Frames
      <3> QED
        BY <1>4, <3>1
    <2> QED
      BY <1>5, <2>1, <2>2
  <1>7. \A i \in 1 .. N : IsNext(i) => frames[i].event <= published
    <2> SUFFICES ASSUME NEW i \in 1 .. N, IsNext(i) PROVE frames[i].event <= published
      OBVIOUS
    <2>1. LineOK(frames[i].event) /\ published \in Nat
      BY DEF LineInv, LineTypeOK, FramesOK
    <2> QED
      BY <2>1 DEF LineOK
  <1>8. \A i \in 1 .. Len(printed) : printed[i] \in Nat /\ printed[i] <= published
    <2> SUFFICES ASSUME NEW i \in 1 .. Len(printed) PROVE printed[i] \in Nat /\ printed[i] <= published
      OBVIOUS
    <2>1. LineOK(printed[i]) /\ published \in Nat /\ printed[i] \in Nat
      BY DEF LineInv, LineTypeOK, LinesOK
    <2> QED
      BY <2>1 DEF LineOK
  <1>9. FramesInOrder'
    <2> SUFFICES ASSUME NEW i \in 1 .. (N + 1), NEW j \in 1 .. (N + 1), i < j,
                        frames'[i].type = "next", frames'[j].type = "next", frames'[j].event # 0
                 PROVE  frames'[i].event < frames'[j].event
      BY <1>1 DEF FramesInOrder, IsNext
    <2>1. i \in 1 .. N
      BY <1>1
    <2>2. CASE j \in 1 .. N
      BY <1>1, <2>1, <2>2 DEF LineInv, FramesInOrder, IsNext
    <2>3. CASE j = N + 1
      <3>1. frames'[i] = frames[i] /\ frames[i].event <= published /\ frames[i].event \in Nat
        BY <1>1, <1>3, <1>7, <2>1 DEF IsNext, Frames
      <3>2. frames'[j] = f /\ f.event > published /\ f.event \in Nat /\ published \in Nat
        BY <1>1, <2>3 DEF LineInv, LineTypeOK, Frames
      <3> QED
        BY <3>1, <3>2
    <2> QED
      BY <1>5, <2>2, <2>3
  <1>10. LinesFirst'
    <2> SUFFICES ASSUME NEW i \in 1 .. Len(printed), NEW j \in 1 .. (N + 1),
                        frames'[j].type = "next", frames'[j].event # 0
                 PROVE  printed[i] < frames'[j].event
      BY <1>1 DEF LinesFirst, IsNext
    <2>1. CASE j \in 1 .. N
      BY <1>1, <2>1 DEF LineInv, LinesFirst, IsNext
    <2>2. CASE j = N + 1
      <3>1. frames'[j] = f /\ f.event > published /\ f.event \in Nat /\ published \in Nat
        BY <1>1, <2>2 DEF LineInv, LineTypeOK, Frames
      <3> QED
        BY <1>8, <3>1
    <2> QED
      BY <1>5, <2>1, <2>2
  <1>11. LinesOK' /\ LinesInOrder'
    <2>1. \A i \in 1 .. Len(printed) : LineOK(printed[i])'
      BY <1>4, <1>8 DEF LineInv, LinesOK
    <2> QED
      BY <2>1 DEF LineInv, LinesOK, LinesInOrder
  <1> QED
    BY <1>2, <1>6, <1>9, <1>10, <1>11 DEF LineInv

\* The connection breaks: one ending is all that is left of it.
LEMMA LineBreak ==
    ASSUME LineInv, AcceptedOK', sub' = "none", UNCHANGED <<ask, printed, published>>,
           NEW f \in Frames, f.type # "next", frames' = <<f>>
    PROVE  LineInv'
  <1>1. frames' \in Seq(Frames) /\ Len(frames') = 1 /\ frames'[1] = f
    OBVIOUS
  <1>2. \A i \in 1 .. Len(frames') : ~IsNext(i)'
    BY <1>1 DEF IsNext
  <1>3. LineTypeOK'
    BY <1>1 DEF LineInv, LineTypeOK
  <1>4. FramesOK' /\ FramesInOrder' /\ LinesFirst'
    BY <1>2 DEF FramesOK, FramesInOrder, LinesFirst
  <1>5. LinesOK' /\ LinesInOrder'
    BY DEF LineInv, LinesOK, LinesInOrder, LineOK
  <1> QED
    BY <1>3, <1>4, <1>5 DEF LineInv

\* A line is printed: the first frame under way, later than all lines before
\* it and earlier than the frames behind it.
LEMMA LinePrint ==
    ASSUME LineInv, AcceptedOK', PrintNext
    PROVE  LineInv'
  <1> DEFINE P == Len(printed)
             N == Len(frames)
  <1>1. /\ frames # <<>> /\ Head(frames).type = "next" /\ UNCHANGED <<ask, published>>
        /\ printed' = Append(printed, Head(frames).event)
        /\ (frames' = <<>> /\ sub' = "none") \/ (frames' = Tail(frames) /\ sub' = sub)
    BY DEF PrintNext
  <1>2. printed \in Seq(Nat) /\ frames \in Seq(Frames) /\ P \in Nat /\ N \in Nat \ {0}
    BY <1>1 DEF LineInv, LineTypeOK
  <1>3. PICK n \in Nat : n = frames[1].event /\ frames[1] = Head(frames) /\ IsNext(1)
    <2>1. frames[1] = Head(frames) /\ frames[1] \in Frames
      BY <1>1, <1>2
    <2> QED
      BY <1>1, <2>1, FrameEvent DEF IsNext
  <1>4. /\ printed' \in Seq(Nat) /\ Len(printed') = P + 1
        /\ \A i \in 1 .. P : printed'[i] = printed[i]
        /\ printed'[P + 1] = n
    BY <1>1, <1>2, <1>3
  <1>5. /\ frames' \in Seq(Frames) /\ Len(frames') \in {0, N - 1}
        /\ \A i \in 1 .. Len(frames') : i + 1 \in 1 .. N /\ frames'[i] = frames[i + 1]
    <2>1. CASE frames' = <<>>
      <3>1. frames' \in Seq(Frames) /\ Len(frames') = 0
        BY <2>1
      <3> QED
        BY <3>1
    <2>2. CASE frames' = Tail(frames)
      <3>1. frames' \in Seq(Frames) /\ Len(frames') = N - 1
        BY <1>1, <1>2, <2>2
      <3>2. ASSUME NEW i \in 1 .. (N - 1) PROVE i + 1 \in 1 .. N /\ frames'[i] = frames[i + 1]
        BY <1>1, <1>2, <2>2
      <3> QED
        BY <3>1, <3>2
    <2> QED
      BY <1>1, <2>1, <2>2
  <1>6. LineTypeOK'
    BY <1>1, <1>4, <1>5 DEF LineInv, LineTypeOK
  <1>7. LineOK(n)
    BY <1>2, <1>3 DEF LineInv, FramesOK
  <1>8. \A m \in Nat : LineOK(m) => LineOK(m)'
    BY <1>1 DEF LineOK
  <1>9. \A i \in 1 .. (P + 1) : i \in 1 .. P \/ i = P + 1
    BY <1>2
  <1>10. FramesOK'
    <2> SUFFICES ASSUME NEW i \in 1 .. Len(frames'), frames'[i].type = "next",
                        NEW m \in Nat, m = frames'[i].event
                 PROVE  LineOK(m)'
      <3>1. \A k \in 1 .. Len(frames') : frames'[k].event \in Nat
        <4>1. \A k \in 1 .. Len(frames') : frames'[k] \in Frames
          BY <1>5
        <4> QED
          BY <4>1, FrameEvent
      <3> QED
        BY <3>1 DEF FramesOK, IsNext, LineOK
    <2>1. LineOK(m)
      BY <1>5 DEF LineInv, FramesOK, IsNext
    <2> QED
      BY <1>8, <2>1
  <1>11. FramesInOrder'
    <2> SUFFICES ASSUME NEW i \in 1 .. Len(frames'), NEW j \in 1 .. Len(frames'), i < j,
                        frames'[i].type = "next", frames'[j].type = "next", frames'[j].event # 0
                 PROVE  frames'[i].event < frames'[j].event
      BY DEF FramesInOrder, IsNext
    <2>1. i + 1 \in 1 .. N /\ j + 1 \in 1 .. N /\ i + 1 < j + 1
      BY <1>5
    <2> QED
      BY <1>5, <2>1 DEF LineInv, FramesInOrder, IsNext
  <1>12. LinesOK'
    <2> SUFFICES ASSUME NEW i \in 1 .. (P + 1), NEW m \in Nat, m = printed'[i]
                 PROVE  LineOK(m)'
      <3>1. \A k \in 1 .. (P + 1) : printed'[k] \in Nat
        BY <1>4
      <3> QED
        BY <1>4, <3>1 DEF LinesOK, LineOK
    <2>1. LineOK(m)
      BY <1>4, <1>7, <1>9 DEF LineInv, LinesOK
    <2> QED
      BY <1>8, <2>1
  <1>13. LinesInOrder'
    <2> SUFFICES ASSUME NEW i \in 1 .. (P + 1), NEW j \in 1 .. (P + 1), i < j, printed'[j] # 0
                 PROVE  printed'[i] < printed'[j]
      BY <1>4 DEF LinesInOrder
    <2>1. i \in 1 .. P
      BY <1>2
    <2>2. CASE j \in 1 .. P
      BY <1>4, <2>1, <2>2 DEF LineInv, LinesInOrder
    <2>3. CASE j = P + 1
      <3>1. 1 \in 1 .. N /\ frames[1].event # 0
        BY <1>2, <1>3, <1>4, <2>3
      <3>2. printed[i] < frames[1].event
        BY <1>3, <2>1, <3>1 DEF LineInv, LinesFirst
      <3> QED
        BY <1>3, <1>4, <2>1, <2>3, <3>2
    <2> QED
      BY <1>9, <2>2, <2>3
  <1>14. LinesFirst'
    <2> SUFFICES ASSUME NEW i \in 1 .. (P + 1), NEW j \in 1 .. Len(frames'),
                        frames'[j].type = "next", frames'[j].event # 0
                 PROVE  printed'[i] < frames'[j].event
      BY <1>4 DEF LinesFirst, IsNext
    <2>1. j + 1 \in 1 .. N /\ frames'[j] = frames[j + 1] /\ 1 < j + 1 /\ 1 \in 1 .. N
      BY <1>2, <1>5
    <2>2. CASE i \in 1 .. P
      BY <1>4, <2>1, <2>2 DEF LineInv, LinesFirst, IsNext
    <2>3. CASE i = P + 1
      BY <1>3, <1>4, <2>1, <2>3 DEF LineInv, FramesInOrder, IsNext
    <2> QED
      BY <1>9, <2>2, <2>3
  <1> QED
    BY <1>6, <1>10, <1>11, <1>12, <1>13, <1>14 DEF LineInv

LEMMA LineNext ==
    ASSUME StatusInv, LineInv, [Next]_vars
    PROVE  LineInv'
  <1>0. /\ published \in Nat /\ published <= MaxEvents /\ sub \in {"none", "sent", "on"}
        /\ \A x, y : x = published /\ y = published => y <= x
    BY DEF LineInv, LineTypeOK
  <1>1. CASE UNCHANGED subscribeVars
    BY <1>0, <1>1, LineSame DEF subscribeVars, client, conn, LineInv, AcceptedOK
  <1>2. CASE Validate
    <2>1. AcceptedOK' /\ UNCHANGED <<ask, frames, printed, published, sub>>
      BY <1>2 DEF Validate, Exit, conn, LineInv, AcceptedOK
    <2> QED
      BY <1>0, <2>1, LineSame
  <1>3. CASE Dial \/ Acked \/ SendSubscribe \/ Backoff
    <2>1. /\ AcceptedOK' /\ sub' \in {"none", "sent", "on"}
          /\ UNCHANGED <<ask, frames, printed, published>>
      BY <1>0, <1>3 DEF Dial, Acked, SendSubscribe, Backoff, Exit, conn, LineInv, AcceptedOK
    <2> QED
      BY <1>0, <2>1, LineSame
  <1>4. CASE DialFails \/ HandshakeFails \/ PrintFails \/ ReadEnding
    <2>1. /\ AcceptedOK' /\ frames' = <<>> /\ sub' = "none"
          /\ UNCHANGED <<ask, printed, published>>
      BY <1>4 DEF DialFails, HandshakeFails, PrintFails, ReadEnding, Drop, Exit,
                  LineInv, AcceptedOK
    <2> QED
      BY <2>1, LineDrop
  <1>5. CASE PrintNext
    <2>1. AcceptedOK'
      BY <1>5 DEF PrintNext, Exit, LineInv, AcceptedOK
    <2> QED
      BY <1>5, <2>1, LinePrint
  <1>6. CASE ServerSubscribes
    <2>1. AcceptedOK' /\ UNCHANGED <<ask, printed, published>>
      BY <1>6 DEF ServerSubscribes, client, LineInv, AcceptedOK
    <2>2. CASE sub' = "on" /\ UNCHANGED frames
      BY <1>0, <2>1, <2>2, LineSame
    <2>3. CASE sub' = "none" /\ frames' = Append(frames, [type |-> "error", event |-> 0])
      <3>1. [type |-> "error", event |-> 0] \in Frames
        BY DEF Frames, Endings
      <3> QED
        BY <1>0, <2>1, <2>3, <3>1, LineAppend
    <2>4. CASE /\ sub' = "none" /\ Refused(ask)
               /\ frames' = frames \o <<[type |-> "next", event |-> 0], [type |-> "complete", event |-> 0]>>
      BY <2>1, <2>4, LineRefused
    <2> QED
      BY <1>6, <2>2, <2>3, <2>4 DEF ServerSubscribes
  <1>7. CASE Publish
    <2>1. /\ AcceptedOK' /\ UNCHANGED <<ask, printed, sub>>
          /\ published < MaxEvents /\ published' = published + 1
      BY <1>7 DEF Publish, client, LineInv, AcceptedOK
    <2>2. MaxEvents \in Nat
      BY SubscribeAssumption DEF MaxEvents
    <2>3. PICK n \in Nat : /\ n = published + 1 /\ n # 0 /\ n > published /\ n <= MaxEvents
                           /\ published <= n /\ n <= n
      BY <1>0, <2>1, <2>2
    <2>4. CASE UNCHANGED frames
      BY <1>0, <2>1, <2>3, <2>4, LineSame
    <2>5. CASE sub = "on" /\ Relays(ask, Feed[n]) /\ frames' = Append(frames, [type |-> "next", event |-> n])
      <3>1. [type |-> "next", event |-> n] \in Frames
        BY DEF Frames
      <3>2. LineOK(n)'
        BY <2>1, <2>3, <2>5 DEF LineOK, LineInv, AcceptedOK
      <3> QED
        BY <1>0, <2>1, <2>3, <2>5, <3>1, <3>2, LineAppend
    <2> QED
      BY <1>7, <2>1, <2>3, <2>4, <2>5 DEF Publish
  <1>8. CASE StreamEnds
    <2>1. AcceptedOK' /\ UNCHANGED <<ask, printed, published>> /\ sub' = "none"
      BY <1>8 DEF StreamEnds, client, LineInv, AcceptedOK
    <2>2. PICK f \in Frames : f.type # "next" /\ frames' \in {Append(frames, f), <<f>>}
      <3>1. \A e \in Endings : /\ [type |-> e, event |-> 0] \in Frames
                               /\ [type |-> e, event |-> 0].type # "next"
        BY DEF Frames, Endings
      <3> QED
        BY <1>8, <3>1 DEF StreamEnds
    <2>3. CASE frames' = Append(frames, f)
      BY <1>0, <2>1, <2>2, <2>3, LineAppend
    <2>4. CASE frames' = <<f>>
      BY <2>1, <2>2, <2>4, LineBreak
    <2> QED
      BY <2>2, <2>3, <2>4
  <1> QED
    BY <1>1, <1>2, <1>3, <1>4, <1>5, <1>6, <1>7, <1>8 DEF Next, SubscribeNext, ClientStep, vars

LEMMA LineInit == Init => LineInv
  <1> SUFFICES ASSUME Init PROVE LineInv
    OBVIOUS
  <1>1. /\ ask \in Asks /\ phase = "start" /\ sub = "none" /\ published = 0
        /\ frames = <<>> /\ printed = <<>>
    BY CliAssumption DEF Init, SubscribeInit
  <1>2. <<>> \in Seq(Frames) /\ <<>> \in Seq(Nat) /\ Len(<<>>) = 0 /\ 0 <= MaxEvents
    BY SubscribeAssumption DEF MaxEvents
  <1> QED
    BY <1>1, <1>2 DEF LineInv, LineTypeOK, AcceptedOK, FramesOK, FramesInOrder, LinesOK, LinesInOrder,
                      LinesFirst

----------------------------------------------------------------------------
(* Cuts and prefixes of keys. *)

LEMMA MinIn ==
    ASSUME NEW S \in SUBSET Nat, S # {}
    PROVE  Min(S) \in S
  <1>1. \E x \in S : \A y \in S : ~(<<y, x>> \in OpToRel(<, Nat))
    BY NatLessThanWellFounded, WFMin, Zenon
  <1>2. \E x \in S : \A y \in S : x <= y
    <2>1. \A x \in S : x \in Nat
      OBVIOUS
    <2>2. PICK x \in S : \A y \in S : ~(y < x)
      BY <1>1, <2>1 DEF OpToRel
    <2> QED
      BY <2>1, <2>2
  <1> QED
    BY <1>2 DEF Min

LEMMA FirstPlace ==
    ASSUME NEW T, NEW s \in Seq(T), NEW atoms, NEW i \in 1 .. Len(s),
           s[i] \in atoms, \A j \in 1 .. (i - 1) : s[j] \notin atoms
    PROVE  IndexAny(s, atoms) = i
  <1> DEFINE at == {j \in DOMAIN s : s[j] \in atoms}
  <1>1. DOMAIN s = 1 .. Len(s) /\ Len(s) \in Nat
    OBVIOUS
  <1>2. i \in at /\ i \in Nat /\ \A j \in at : j \in Nat /\ i =< j
    BY <1>1
  <1> HIDE DEF at
  <1>3. Min(at) = i
    <2>1. Min(at) \in at /\ Min(at) =< i
      BY <1>2 DEF Min
    <2>2. Min(at) \in Nat /\ i =< Min(at)
      BY <1>2, <2>1
    <2> QED
      BY <1>2, <2>1, <2>2
  <1> QED
    BY <1>2, <1>3 DEF IndexAny, at

LEMMA LastPlace ==
    ASSUME NEW T, NEW s \in Seq(T), NEW atom, NEW i \in 1 .. Len(s),
           s[i] = atom, \A j \in (i + 1) .. Len(s) : s[j] # atom
    PROVE  LastIndex(s, atom) = i
  <1> DEFINE at == {j \in DOMAIN s : s[j] = atom}
  <1>1. DOMAIN s = 1 .. Len(s) /\ Len(s) \in Nat
    OBVIOUS
  <1>2. i \in at /\ i \in Nat /\ \A j \in at : j \in Nat /\ i >= j
    BY <1>1
  <1> HIDE DEF at
  <1>3. Max(at) = i
    <2>1. Max(at) \in at /\ Max(at) >= i
      BY <1>2 DEF Max
    <2>2. Max(at) \in Nat /\ i >= Max(at)
      BY <1>2, <2>1
    <2> QED
      BY <1>2, <2>1, <2>2
  <1> QED
    BY <1>2, <1>3 DEF LastIndex, at

\* A bounded set of naturals has a greatest element: its least upper bound.
LEMMA MaxBounded ==
    ASSUME NEW n \in Nat, NEW S \in SUBSET (1 .. n), S # {}
    PROVE  Max(S) \in S
  <1> DEFINE U == {u \in Nat : \A x \in S : x <= u}
  <1>1. U \in SUBSET Nat /\ n \in U
    OBVIOUS
  <1>2. Min(U) \in U
    BY <1>1, MinIn
  <1>3. \A u \in U : Min(U) <= u
    <2>1. \E x \in U : \A y \in U : x <= y
      <3>1. \E x \in U : \A y \in U : ~(<<y, x>> \in OpToRel(<, Nat))
        BY <1>1, NatLessThanWellFounded, WFMin, Zenon
      <3>2. PICK x \in U : \A y \in U : ~(y < x)
        BY <1>1, <3>1 DEF OpToRel
      <3> QED
        BY <1>1, <3>2
    <2> HIDE DEF U
    <2> QED
      BY <2>1 DEF Min
  <1>4. Min(U) \in S
    <2> SUFFICES ASSUME Min(U) \notin S PROVE FALSE
      OBVIOUS
    <2>1. PICK x \in S : TRUE
      OBVIOUS
    <2>2. Min(U) \in Nat /\ \A y \in S : y <= Min(U)
      BY <1>2
    <2> HIDE DEF U
    <2>3. \A y \in S : y <= Min(U) - 1
      BY <2>2
    <2>4. Min(U) - 1 \in U
      BY <2>1, <2>2, <2>3 DEF U
    <2> QED
      BY <1>3, <2>2, <2>4
  <1>5. Min(U) \in S /\ \A y \in S : Min(U) >= y
    BY <1>2, <1>4
  <1> HIDE DEF U
  <1> QED
    BY <1>5 DEF Max

LEMMA LastIndexIn ==
    ASSUME NEW T, NEW s \in Seq(T), NEW atom, LastIndex(s, atom) # 0
    PROVE  LastIndex(s, atom) \in 1 .. Len(s) /\ s[LastIndex(s, atom)] = atom
  <1> DEFINE at == {j \in DOMAIN s : s[j] = atom}
  <1>1. DOMAIN s = 1 .. Len(s) /\ Len(s) \in Nat /\ at \in SUBSET (1 .. Len(s))
    OBVIOUS
  <1>2. at # {} /\ LastIndex(s, atom) = Max(at)
    BY DEF LastIndex
  <1>3. Max(at) \in at
    BY <1>1, <1>2, MaxBounded
  <1> QED
    BY <1>1, <1>2, <1>3

LEMMA PrefixPlaces ==
    ASSUME NEW T, NEW p \in Seq(T), NEW s \in Seq(T), IsPrefix(p, s)
    PROVE  Len(p) <= Len(s) /\ \A i \in 1 .. Len(p) : s[i] = p[i]
  <1>1. Len(p) \in Nat /\ Len(s) \in Nat /\ Len(p) <= Len(s) /\ SubSeq(p, 1, Len(p)) = SubSeq(s, 1, Len(p))
    BY DEF IsPrefix
  <1> QED
    BY <1>1

LEMMA SuffixPlaces ==
    ASSUME NEW T, NEW p \in Seq(T), NEW s \in Seq(T), IsSuffix(p, s)
    PROVE  Len(p) <= Len(s) /\ \A i \in 1 .. Len(p) : s[Len(s) - Len(p) + i] = p[i]
  <1>1. /\ Reverse(p) \in Seq(T) /\ Len(Reverse(p)) = Len(p)
        /\ Reverse(s) \in Seq(T) /\ Len(Reverse(s)) = Len(s)
        /\ \A i \in 1 .. Len(p) : Reverse(p)[i] = p[(Len(p) - i) + 1]
        /\ \A i \in 1 .. Len(s) : Reverse(s)[i] = s[(Len(s) - i) + 1]
    BY DEF Reverse
  <1> DEFINE rp == Reverse(p)
             rs == Reverse(s)
  <1>2. IsPrefix(rp, rs)
    BY DEF IsSuffix
  <1>3. Len(p) <= Len(s) /\ \A i \in 1 .. Len(p) : rs[i] = rp[i]
    <2> HIDE DEF rp, rs
    <2>1. rp \in Seq(T) /\ rs \in Seq(T) /\ Len(rp) = Len(p) /\ Len(rs) = Len(s)
      BY <1>1 DEF rp, rs
    <2> QED
      BY <1>2, <2>1, PrefixPlaces
  <1>4. ASSUME NEW i \in 1 .. Len(p) PROVE s[Len(s) - Len(p) + i] = p[i]
    <2> DEFINE j == (Len(p) - i) + 1
    <2>1. /\ Len(p) \in Nat /\ Len(s) \in Nat /\ i \in Nat /\ j \in 1 .. Len(p) /\ j \in 1 .. Len(s)
          /\ (Len(p) - j) + 1 = i /\ (Len(s) - j) + 1 = Len(s) - Len(p) + i
      BY <1>3
    <2> QED
      BY <1>1, <1>3, <2>1
  <1> QED
    BY <1>3, <1>4

LEMMA BeforePlaces ==
    ASSUME NEW T, NEW s \in Seq(T), NEW i \in Nat, i < Len(s)
    PROVE  /\ Before(s, i + 1) \in Seq(T) /\ Len(Before(s, i + 1)) = i
           /\ \A j \in 1 .. i : Before(s, i + 1)[j] = s[j]
  <1>1. Len(s) \in Nat /\ (i + 1) - 1 = i
    OBVIOUS
  <1> QED
    BY <1>1 DEF Before

LEMMA AfterPlaces ==
    ASSUME NEW T, NEW s \in Seq(T), NEW i \in 1 .. Len(s)
    PROVE  /\ After(s, i) \in Seq(T) /\ Len(After(s, i)) = Len(s) - i
           /\ \A j \in 1 .. (Len(s) - i) : After(s, i)[j] = s[i + j]
  <1>1. Len(s) \in Nat /\ i \in Nat
    OBVIOUS
  <1> QED
    BY <1>1 DEF After

LEMMA SameText ==
    ASSUME NEW T, NEW s \in Seq(T), NEW t \in Seq(T), Len(s) = Len(t), \A j \in 1 .. Len(s) : s[j] = t[j]
    PROVE  s = t
  OBVIOUS

LEMMA WiderText ==
    ASSUME NEW S, NEW T, S \subseteq T, NEW s \in Seq(S)
    PROVE  s \in Seq(T)
  OBVIOUS
----------------------------------------------------------------------------
(* What parseKey makes of a key. *)

\* The body of a key: without the host.
LEMMA HostStripped ==
    ASSUME NEW T, NEW key \in Seq(T), NEW n \in Nat, n <= Len(key), \A i \in 1 .. n : key[i] # "@"
    PROVE  /\ stripHost(key) \in Seq(T) /\ n <= Len(stripHost(key))
           /\ \A i \in 1 .. n : stripHost(key)[i] = key[i]
  <1>1. CASE LastIndex(key, "@") = 0
    BY <1>1 DEF stripHost
  <1>2. CASE LastIndex(key, "@") # 0
    <2> DEFINE i == LastIndex(key, "@")
    <2>1. i \in 1 .. Len(key) /\ key[i] = "@"
      BY <1>2, LastIndexIn
    <2>2. stripHost(key) = Before(key, i)
      BY <1>2 DEF stripHost
    <2> HIDE DEF i
    <2>3. n < i
      BY <2>1
    <2>4. /\ Before(key, i) \in Seq(T) /\ Len(Before(key, i)) = i - 1
          /\ \A j \in 1 .. (i - 1) : Before(key, i)[j] = key[j]
      <3>1. i - 1 \in Nat /\ i - 1 < Len(key) /\ (i - 1) + 1 = i
        BY <2>1
      <3> QED
        BY <3>1, BeforePlaces
    <2> QED
      BY <2>1, <2>2, <2>3, <2>4
  <1> QED
    BY <1>1, <1>2

\* A key of a kind other than user has an owner, and a repo.
LEMMA ParseKeyScope ==
    ASSUME NEW key, kindOf(key) # <<"user">>, NEW rest, NEW cut, NEW tail, NEW at,
           IndexAny(stripHost(key), {":"}) # 0,
           rest = After(stripHost(key), IndexAny(stripHost(key), {":"})),
           cut = IndexAny(rest, {"/"}), cut # 0,
           tail = After(rest, cut), at = IndexAny(tail, {"#", "/"})
    PROVE  /\ parseKey(key).owner = Before(rest, cut)
           /\ at # 0 => parseKey(key).repo = Before(tail, at)
  BY DEF parseKey

\* The first k atoms of key are those of its body.
InBody(key, k) == k \in Nat /\ k <= Len(key) /\ \A i \in 1 .. k : key[i] # "@"

BeginsWithOwner(key, owner) ==
    /\ key[1] = "issue" /\ key[2] = ":" /\ key[Len(owner) + 3] = "/"
    /\ \A i \in 1 .. Len(owner) : key[i + 2] = owner[i]

\* tail is the key from its repo on.
RepoIn(key, tail) ==
    LET at == IndexAny(tail, {"#", "/"}) IN at # 0 => parseKey(key).repo = Before(tail, at)

LEMMA KindIssue ==
    ASSUME NEW T, NEW key \in Seq(T), 2 <= Len(key), key[1] = "issue", key[2] = ":"
    PROVE  kindOf(key) = <<"issue">>
  <1>1. Len(key) \in Nat
    OBVIOUS
  <1>2. IndexAny(key, {":"}) = 2
    <2>1. 2 \in 1 .. Len(key) /\ key[2] \in {":"} /\ \A j \in 1 .. (2 - 1) : key[j] \notin {":"}
      BY <1>1
    <2> QED
      BY <2>1, FirstPlace
  <1>3. 1 \in Nat /\ 1 < Len(key) /\ 1 + 1 = 2
    BY <1>1
  <1>4. /\ Before(key, 1 + 1) \in Seq(T) /\ Len(Before(key, 1 + 1)) = 1
        /\ \A j \in 1 .. 1 : Before(key, 1 + 1)[j] = key[j]
    BY <1>3, BeforePlaces
  <1>5. Before(key, 2) = <<"issue">>
    BY <1>3, <1>4
  <1> QED
    BY <1>2, <1>5 DEF kindOf

LEMMA PrefixBegins ==
    ASSUME NEW T, NEW owner \in Seq(T), NEW p, NEW key, BeginsWithOwner(p, owner),
           Len(owner) + 3 <= Len(p), Len(p) \in Nat, \A i \in 1 .. Len(p) : key[i] = p[i]
    PROVE  BeginsWithOwner(key, owner)
  <1>1. Len(owner) \in Nat /\ {1, 2, Len(owner) + 3} \subseteq 1 .. Len(p)
    OBVIOUS
  <1>2. \A i \in 1 .. Len(owner) : i + 2 \in 1 .. Len(p)
    BY <1>1
  <1> QED
    BY <1>1, <1>2 DEF BeginsWithOwner

LEMMA OwnerInBody ==
    ASSUME NEW T, NEW key \in Seq(T), NEW owner \in Seq(T), PlainText(owner), BeginsWithOwner(key, owner),
           Len(owner) + 3 <= Len(key)
    PROVE  InBody(key, Len(owner) + 3)
  <1> DEFINE n == Len(owner)
  <1>1. /\ n \in Nat /\ n + 3 <= Len(key) /\ key[1] = "issue" /\ key[2] = ":" /\ key[n + 3] = "/"
        /\ \A i \in 1 .. n : key[i + 2] = owner[i] /\ owner[i] \notin {"/", "#", "@"}
    BY DEF PlainText, BeginsWithOwner
  <1> HIDE DEF n
  <1>2. ASSUME NEW i \in 1 .. (n + 3) PROVE key[i] # "@"
    <2>1. CASE i \in 3 .. (n + 2)
      <3>1. i - 2 \in 1 .. n /\ (i - 2) + 2 = i
        BY <1>1, <2>1
      <3> QED
        BY <1>1, <3>1
    <2>2. CASE i \in {1, 2, n + 3}
      BY <1>1, <2>2
    <2> QED
      BY <1>1, <2>1, <2>2
  <1> QED
    BY <1>1, <1>2 DEF InBody, n

\* A key that begins "issue:<owner>/", of which the first k atoms are no "@":
\* its kind and owner, and where its repo is.
LEMMA IssueScope ==
    ASSUME NEW T, NEW key \in Seq(T), NEW owner \in Seq(T), NEW k,
           PlainText(owner), BeginsWithOwner(key, owner), InBody(key, k), Len(owner) + 3 <= k
    PROVE  /\ kindOf(key) = <<"issue">> /\ parseKey(key).owner = owner
           /\ \E tail \in Seq(T) :
                 /\ k - (Len(owner) + 3) <= Len(tail)
                 /\ \A j \in 1 .. (k - (Len(owner) + 3)) : tail[j] = key[Len(owner) + 3 + j]
                 /\ RepoIn(key, tail)
  <1> DEFINE n == Len(owner)
  <1> DEFINE body == stripHost(key)
             rest == After(body, 2)
             tail == After(rest, n + 1)
  <1>1. /\ n \in Nat /\ Len(key) \in Nat /\ k \in Nat /\ n + 3 <= k /\ k <= Len(key)
        /\ key[1] = "issue" /\ key[2] = ":" /\ key[n + 3] = "/"
        /\ \A i \in 1 .. n : key[i + 2] = owner[i] /\ owner[i] \notin {"/", "#", "@"}
    BY DEF PlainText, BeginsWithOwner, InBody
  <1> HIDE DEF n
  <1>2. kindOf(key) = <<"issue">>
    BY <1>1, KindIssue
  <1>3. body \in Seq(T) /\ k <= Len(body) /\ Len(body) \in Nat /\ \A i \in 1 .. k : body[i] = key[i]
    BY HostStripped DEF InBody
  <1> HIDE DEF body
  <1>4. IndexAny(body, {":"}) = 2 /\ 2 \in 1 .. Len(body)
    <2>1. 2 \in 1 .. Len(body) /\ 1 \in 1 .. k /\ 2 \in 1 .. k
      BY <1>1, <1>3
    <2>2. body[2] \in {":"} /\ \A j \in 1 .. (2 - 1) : body[j] \notin {":"}
      BY <1>1, <1>3, <2>1
    <2> QED
      BY <1>3, <2>1, <2>2, FirstPlace
  <1>5. rest \in Seq(T) /\ Len(rest) = Len(body) - 2 /\ \A j \in 1 .. (k - 2) : rest[j] = key[j + 2]
    <2>1. rest \in Seq(T) /\ Len(rest) = Len(body) - 2 /\ \A j \in 1 .. (Len(body) - 2) : rest[j] = body[2 + j]
      BY <1>3, <1>4, AfterPlaces
    <2> HIDE DEF rest
    <2> QED
      BY <1>1, <1>3, <2>1
  <1> HIDE DEF rest
  <1>6. IndexAny(rest, {"/"}) = n + 1 /\ n + 1 \in 1 .. Len(rest)
    <2>1. n + 1 \in 1 .. Len(rest) /\ n + 1 \in 1 .. (k - 2)
      BY <1>1, <1>3, <1>5
    <2>2. rest[n + 1] \in {"/"}
      <3>1. (n + 1) + 2 = n + 3
        BY <1>1
      <3> QED
        BY <1>1, <1>5, <2>1, <3>1
    <2>3. \A j \in 1 .. ((n + 1) - 1) : rest[j] \notin {"/"}
      <3>1. \A j \in 1 .. ((n + 1) - 1) : j \in 1 .. n /\ j \in 1 .. (k - 2)
        BY <1>1
      <3> QED
        BY <1>1, <1>5, <3>1
    <2> QED
      BY <1>5, <2>1, <2>2, <2>3, FirstPlace
  <1>7. Before(rest, n + 1) = owner
    <2>1. /\ Before(rest, n + 1) \in Seq(T) /\ Len(Before(rest, n + 1)) = n
          /\ \A j \in 1 .. n : Before(rest, n + 1)[j] = rest[j]
      <3>1. n < Len(rest)
        BY <1>1, <1>5, <1>6
      <3> QED
        BY <1>1, <1>5, <3>1, BeforePlaces
    <2>2. \A j \in 1 .. n : Before(rest, n + 1)[j] = owner[j]
      <3>1. \A j \in 1 .. n : j \in 1 .. (k - 2)
        BY <1>1
      <3> QED
        BY <1>1, <1>5, <2>1, <3>1
    <2> QED
      BY <2>1, <2>2, SameText DEF n
  <1>8. tail \in Seq(T) /\ Len(tail) = Len(rest) - (n + 1) /\ \A j \in 1 .. (Len(rest) - (n + 1)) : tail[j] = rest[n + 1 + j]
    <2>1. rest \in Seq(T) /\ Len(rest) \in Nat /\ n + 1 \in 1 .. Len(rest) /\ n \in Nat
      BY <1>1, <1>5, <1>6
    <2> QED
      BY <2>1 DEF After
  <1>9. parseKey(key).owner = owner /\ RepoIn(key, tail)
    <2>1. kindOf(key) # <<"user">>
      BY <1>2
    <2>2. IndexAny(stripHost(key), {":"}) # 0 /\ rest = After(stripHost(key), IndexAny(stripHost(key), {":"}))
      BY <1>4 DEF body, rest
    <2>3. n + 1 = IndexAny(rest, {"/"}) /\ n + 1 # 0
      BY <1>1, <1>6
    <2> QED
      BY <1>7, <2>1, <2>2, <2>3, ParseKeyScope DEF RepoIn
  <1> HIDE DEF tail
  <1>10. k - (n + 3) <= Len(tail) /\ \A j \in 1 .. (k - (n + 3)) : tail[j] = key[n + 3 + j]
    <2>1. k - (n + 3) <= Len(tail)
      BY <1>1, <1>3, <1>5, <1>8
    <2>2. ASSUME NEW j \in 1 .. (k - (n + 3)) PROVE tail[j] = key[n + 3 + j]
      <3>1. /\ j \in 1 .. (Len(rest) - (n + 1)) /\ n + 1 + j \in 1 .. (k - 2) /\ (n + 1 + j) + 2 = n + 3 + j
        BY <1>1, <1>3, <1>5
      <3> QED
        BY <1>5, <1>8, <3>1
    <2> QED
      BY <2>1, <2>2
  <1> QED
    BY <1>2, <1>8, <1>9, <1>10 DEF n
\* ... and the repo, when it goes on "<repo>#".
LEMMA IssueRepo ==
    ASSUME NEW T, NEW key \in Seq(T), NEW owner \in Seq(T), NEW repo \in Seq(T),
           PlainText(owner), PlainText(repo), BeginsWithOwner(key, owner),
           Len(owner) + Len(repo) + 4 <= Len(key), key[Len(owner) + Len(repo) + 4] = "#",
           \A i \in 1 .. Len(repo) : key[Len(owner) + 3 + i] = repo[i]
    PROVE  kindOf(key) = <<"issue">> /\ parseKey(key).owner = owner /\ parseKey(key).repo = repo
  <1> DEFINE n == Len(owner)
             m == Len(repo)
             k == n + m + 4
  <1>1. /\ n \in Nat /\ m \in Nat /\ k \in Nat /\ n + 3 <= k /\ k <= Len(key) /\ k - (n + 3) = m + 1
        /\ key[1] = "issue" /\ key[2] = ":" /\ key[n + 3] = "/" /\ key[n + m + 4] = "#"
        /\ \A i \in 1 .. n : key[i + 2] = owner[i] /\ owner[i] \notin {"/", "#", "@"}
        /\ \A i \in 1 .. m : key[n + 3 + i] = repo[i] /\ repo[i] \notin {"/", "#", "@"}
    BY DEF PlainText, BeginsWithOwner
  <1> HIDE DEF n, m
  <1>2. ASSUME NEW i \in 1 .. k PROVE key[i] # "@"
    <2>1. CASE i \in 3 .. (n + 2)
      <3>1. i - 2 \in 1 .. n /\ (i - 2) + 2 = i
        BY <1>1, <2>1
      <3> QED
        BY <1>1, <3>1
    <2>2. CASE i \in (n + 4) .. (n + m + 3)
      <3>1. i - (n + 3) \in 1 .. m /\ n + 3 + (i - (n + 3)) = i
        BY <1>1, <2>2
      <3> QED
        BY <1>1, <3>1
    <2>3. CASE i \in {1, 2, n + 3, n + m + 4}
      BY <1>1, <2>3
    <2> QED
      BY <1>1, <2>1, <2>2, <2>3
  <1> HIDE DEF k
  <1>3. /\ kindOf(key) = <<"issue">> /\ parseKey(key).owner = owner
        /\ \E tail \in Seq(T) :
              /\ k - (n + 3) <= Len(tail)
              /\ \A j \in 1 .. (k - (n + 3)) : tail[j] = key[n + 3 + j]
              /\ RepoIn(key, tail)
    <2>1. InBody(key, k) /\ Len(owner) + 3 <= k
      BY <1>1, <1>2 DEF InBody, n
    <2> QED
      BY <2>1, IssueScope DEF n
  <1>t. PICK tail \in Seq(T) :
            /\ k - (n + 3) <= Len(tail) /\ \A j \in 1 .. (k - (n + 3)) : tail[j] = key[n + 3 + j]
            /\ RepoIn(key, tail)
    BY <1>3
  <1>4. m + 1 <= Len(tail) /\ \A j \in 1 .. (m + 1) : tail[j] = key[n + 3 + j]
    BY <1>1, <1>t
  <1>5. \A j \in 1 .. m : tail[j] = repo[j]
    <2>1. \A j \in 1 .. m : j \in 1 .. (m + 1)
      BY <1>1
    <2> QED
      BY <1>1, <1>4, <2>1
  <1>6. IndexAny(tail, {"#", "/"}) = m + 1
    <2>1. m + 1 \in 1 .. Len(tail) /\ (m + 1) - 1 = m
      BY <1>1, <1>4
    <2>2. tail[m + 1] \in {"#", "/"}
      <3>1. m + 1 \in 1 .. (m + 1) /\ n + 3 + (m + 1) = n + m + 4
        BY <1>1
      <3> QED
        BY <1>1, <1>4, <3>1
    <2>3. \A j \in 1 .. ((m + 1) - 1) : tail[j] \notin {"#", "/"}
      BY <1>1, <1>5, <2>1
    <2> QED
      BY <2>1, <2>2, <2>3, FirstPlace
  <1>7. Before(tail, m + 1) = repo
    <2>1. m < Len(tail)
      BY <1>1, <1>4
    <2>2. /\ Before(tail, m + 1) \in Seq(T) /\ Len(Before(tail, m + 1)) = m
          /\ \A j \in 1 .. m : Before(tail, m + 1)[j] = tail[j]
      BY <1>1, <2>1, BeforePlaces
    <2> QED
      BY <1>5, <2>2, SameText DEF m
  <1> QED
    BY <1>1, <1>3, <1>t, <1>6, <1>7 DEF RepoIn

\* A key that ends "@<host>": what follows its last "@" is the host.
LEMMA HostParsed ==
    ASSUME NEW T, NEW key \in Seq(T), NEW host \in Seq(T), "@" \in T,
           \A i \in 1 .. Len(host) : host[i] # "@", IsSuffix(<<"@">> \o host, key)
    PROVE  After(key, LastIndex(key, "@")) = host
  <1> DEFINE p == <<"@">> \o host
             n == Len(host)
             at == Len(key) - n
  <1>1. p \in Seq(T) /\ Len(p) = n + 1 /\ p[1] = "@" /\ \A i \in 1 .. n : p[i + 1] = host[i]
    OBVIOUS
  <1>2. n \in Nat /\ Len(key) \in Nat
    OBVIOUS
  <1>3. Len(p) <= Len(key) /\ \A i \in 1 .. Len(p) : key[Len(key) - Len(p) + i] = p[i]
    <2> HIDE DEF p
    <2>1. IsSuffix(p, key)
      BY DEF p
    <2> QED
      BY <1>1, <2>1, SuffixPlaces
  <1> HIDE DEF p, n
  <1>4. at \in 1 .. Len(key) /\ key[at] = "@"
    <2>1. 1 \in 1 .. Len(p) /\ Len(key) - Len(p) + 1 = at /\ at \in 1 .. Len(key)
      BY <1>1, <1>2, <1>3
    <2>2. key[Len(key) - Len(p) + 1] = p[1]
      BY <1>3, <2>1
    <2> QED
      BY <1>1, <2>1, <2>2
  <1>5. \A i \in 1 .. n : key[at + i] = host[i]
    <2> TAKE i \in 1 .. n
    <2>1. i + 1 \in 1 .. Len(p) /\ Len(key) - Len(p) + (i + 1) = at + i
      BY <1>1, <1>2
    <2>2. key[Len(key) - Len(p) + (i + 1)] = p[i + 1]
      BY <1>3, <2>1
    <2> QED
      BY <1>1, <2>1, <2>2
  <1>6. LastIndex(key, "@") = at
    <2>1. ASSUME NEW j \in (at + 1) .. Len(key) PROVE key[j] # "@"
      <3>1. j - at \in 1 .. n /\ at + (j - at) = j
        BY <1>2, <1>4
      <3> QED
        BY <1>5, <3>1 DEF n
    <2> HIDE DEF at
    <2> QED
      BY <1>4, <2>1, LastPlace
  <1>7. After(key, at) \in Seq(T) /\ Len(After(key, at)) = n /\ \A j \in 1 .. n : After(key, at)[j] = key[at + j]
    <2>1. Len(key) - at = n
      BY <1>2
    <2> HIDE DEF at
    <2>2. /\ After(key, at) \in Seq(T) /\ Len(After(key, at)) = Len(key) - at
          /\ \A j \in 1 .. (Len(key) - at) : After(key, at)[j] = key[at + j]
      BY <1>4, AfterPlaces
    <2> QED
      BY <2>1, <2>2
  <1> QED
    BY <1>5, <1>6, <1>7, SameText DEF n

\* The resolvers' filters do their part for these command lines and events:
\* what is relayed is what was asked for.
FiltersAsAsked ==
    \A a \in Asks : ~Rejected(a) /\ ~Refused(a) =>
        \A n \in 1 .. MaxEvents : Relays(a, Feed[n]) => Wanted(a, Feed[n])

\* IssueUpdated: an issue key that begins with the prefix is of the owner,
\* and of the repo, that were asked for.
LEMMA IssueAsked ==
    ASSUME NEW T, {"issue", ":", "/", "#", "@"} \subseteq T, NEW key \in Seq(T), NEW a,
           DOMAIN a.args \subseteq {"owner", "repo"}, "repo" \in DOMAIN a.args => "owner" \in DOMAIN a.args,
           \A x \in DOMAIN a.args : a.args[x] \in Seq(T) /\ PlainText(a.args[x]), IsPrefix(IssuePrefix(a), key)
    PROVE  kindOf(key) = <<"issue">> /\ \A x \in DOMAIN a.args : parseKey(key)[x] = a.args[x]
  <1>1. CASE "owner" \notin DOMAIN a.args
    <2> DEFINE p == <<"issue", ":">> \o <<>> \o <<>>
    <2>1. DOMAIN a.args = {} /\ IsPrefix(p, key)
      BY <1>1 DEF IssuePrefix
    <2>2. p \in Seq(T) /\ Len(p) = 2 /\ p[1] = "issue" /\ p[2] = ":"
      OBVIOUS
    <2> HIDE DEF p
    <2>3. Len(p) <= Len(key) /\ \A i \in 1 .. Len(p) : key[i] = p[i]
      BY <2>1, <2>2, PrefixPlaces
    <2>4. 2 <= Len(key) /\ Len(key) \in Nat /\ key[1] = "issue" /\ key[2] = ":"
      BY <2>2, <2>3
    <2> QED
      BY <2>1, <2>4, KindIssue
  <1>2. CASE "owner" \in DOMAIN a.args /\ "repo" \notin DOMAIN a.args
    <2> DEFINE owner == a.args.owner
               p == <<"issue", ":">> \o (owner \o <<"/">>) \o <<>>
    <2>1. DOMAIN a.args = {"owner"} /\ IsPrefix(p, key) /\ owner \in Seq(T) /\ PlainText(owner)
      BY <1>2 DEF IssuePrefix
    <2> HIDE DEF owner
    <2>2. /\ p \in Seq(T) /\ Len(p) = Len(owner) + 3 /\ p[1] = "issue" /\ p[2] = ":"
          /\ p[Len(owner) + 3] = "/" /\ \A i \in 1 .. Len(owner) : p[i + 2] = owner[i]
      BY <2>1
    <2> HIDE DEF p
    <2>3. Len(p) <= Len(key) /\ \A i \in 1 .. Len(p) : key[i] = p[i]
      BY <2>1, <2>2, PrefixPlaces
    <2>4. BeginsWithOwner(key, owner)
      <3>1. Len(owner) + 3 <= Len(p) /\ BeginsWithOwner(p, owner)
        BY <2>1, <2>2 DEF BeginsWithOwner
      <3> QED
        BY <2>1, <2>3, <3>1, PrefixBegins
    <2>5. InBody(key, Len(owner) + 3)
      BY <2>1, <2>2, <2>3, OwnerInBody, <2>4
    <2>6. Len(owner) + 3 <= Len(owner) + 3
      BY <2>1
    <2>7. kindOf(key) = <<"issue">> /\ parseKey(key).owner = owner
      BY <2>1, <2>4, <2>5, <2>6, IssueScope
    <2> QED
      BY <2>1, <2>7 DEF owner
  <1>3. CASE "owner" \in DOMAIN a.args /\ "repo" \in DOMAIN a.args
    <2> DEFINE owner == a.args.owner
               repo == a.args.repo
               p == <<"issue", ":">> \o (owner \o <<"/">>) \o (repo \o <<"#">>)
    <2>1. /\ DOMAIN a.args = {"owner", "repo"} /\ IsPrefix(p, key)
          /\ owner \in Seq(T) /\ PlainText(owner) /\ repo \in Seq(T) /\ PlainText(repo)
      BY <1>3 DEF IssuePrefix
    <2> HIDE DEF owner, repo
    <2>2. /\ p \in Seq(T) /\ Len(p) = Len(owner) + Len(repo) + 4 /\ p[1] = "issue" /\ p[2] = ":"
          /\ p[Len(owner) + 3] = "/" /\ \A i \in 1 .. Len(owner) : p[i + 2] = owner[i]
          /\ p[Len(owner) + Len(repo) + 4] = "#" /\ \A i \in 1 .. Len(repo) : p[Len(owner) + 3 + i] = repo[i]
      BY <2>1
    <2> HIDE DEF p
    <2>3. Len(p) <= Len(key) /\ \A i \in 1 .. Len(p) : key[i] = p[i]
      BY <2>1, <2>2, PrefixPlaces
    <2>4. BeginsWithOwner(key, owner)
      <3>1. Len(owner) + 3 <= Len(p) /\ BeginsWithOwner(p, owner)
        BY <2>1, <2>2 DEF BeginsWithOwner
      <3> QED
        BY <2>1, <2>3, <3>1, PrefixBegins
    <2>5. /\ Len(owner) + Len(repo) + 4 <= Len(key) /\ key[Len(owner) + Len(repo) + 4] = "#"
          /\ \A i \in 1 .. Len(repo) : key[Len(owner) + 3 + i] = repo[i]
      <3>1. Len(owner) \in Nat /\ Len(repo) \in Nat /\ Len(owner) + Len(repo) + 4 \in 1 .. Len(p)
        BY <2>1, <2>2
      <3>2. \A i \in 1 .. Len(repo) : Len(owner) + 3 + i \in 1 .. Len(p)
        BY <2>2, <3>1
      <3> QED
        BY <2>2, <2>3, <3>1, <3>2
    <2>6. kindOf(key) = <<"issue">> /\ parseKey(key).owner = owner /\ parseKey(key).repo = repo
      BY <2>1, <2>4, <2>5, IssueRepo
    <2> QED
      BY <2>1, <2>6 DEF owner, repo
  <1> QED
    BY <1>1, <1>2, <1>3

LEMMA FiltersKeep ==
    ASSUME NamesArePlain
    PROVE  FiltersAsAsked
  <1> SUFFICES ASSUME NEW a \in Asks, ~Rejected(a), ~Refused(a), NEW n \in 1 .. MaxEvents, Relays(a, Feed[n])
               PROVE  Wanted(a, Feed[n])
    BY DEF FiltersAsAsked
  <1> DEFINE key == Feed[n].key
             Of(s) == {s[i] : i \in DOMAIN s}
             T == {"issue", ":", "/", "#", "@"} \cup Of(key) \cup UNION {Of(a.args[x]) : x \in DOMAIN a.args}
  <1>1. key \in Seq(T)
    <2>1. key \in Seq(Of(key)) /\ Of(key) \subseteq T
      BY SubscribeAssumption DEF IsText, MaxEvents
    <2> HIDE DEF key, Of, T
    <2> QED
      BY <2>1, WiderText
  <1>2. ASSUME NEW x \in DOMAIN a.args PROVE a.args[x] \in Seq(T) /\ PlainText(a.args[x])
    <2>1. PlainText(a.args[x])
      BY DEF NamesArePlain
    <2>2. a.args[x] \in Seq(Of(a.args[x]))
      BY <2>1 DEF PlainText, IsText
    <2>3. Of(a.args[x]) \subseteq T
      <3> HIDE DEF Of
      <3> QED
        OBVIOUS
    <2> HIDE DEF Of, T
    <2> QED
      BY <2>1, <2>2, <2>3, WiderText
  <1>3. {"issue", ":", "/", "#", "@"} \subseteq T
    OBVIOUS
  <1> HIDE DEF T, Of
  <1>4. Feed[n].src = StreamField(a.field).src
    BY DEF Relays
  <1>5. CASE a.field = "issueUpdated"
    <2>1. DOMAIN a.args \subseteq {"owner", "repo"}
      BY <1>5 DEF Rejected, subscriptionFields
    <2>2. "repo" \in DOMAIN a.args => "owner" \in DOMAIN a.args
      BY DEF Refused
    <2>3. IsPrefix(IssuePrefix(a), key)
      BY <1>5 DEF Relays
    <2> HIDE DEF key
    <2>4. kindOf(key) = <<"issue">> /\ \A x \in DOMAIN a.args : parseKey(key)[x] = a.args[x]
      BY <1>1, <1>2, <1>3, <2>1, <2>2, <2>3, IssueAsked
    <2>5. "hostId" \notin DOMAIN a.args
      BY <2>1
    <2> QED
      BY <1>4, <2>4, <2>5 DEF Wanted, key
  <1>6. CASE a.field # "issueUpdated" /\ "hostId" \in DOMAIN a.args
    <2>1. a.field = "claudeSessionUpdated"
      BY <1>6 DEF Rejected, subscriptionFields
    <2>2. IsSuffix(<<"@">> \o a.args.hostId, key)
      BY <1>6, <2>1 DEF Relays, OnHost
    <2> DEFINE host == a.args.hostId
    <2>3. host \in Seq(T) /\ "@" \in T /\ \A i \in 1 .. Len(host) : host[i] # "@"
      BY <1>2, <1>3, <1>6 DEF PlainText
    <2> HIDE DEF key, host
    <2>4. IsSuffix(<<"@">> \o host, key)
      BY <2>2 DEF host
    <2>5. After(key, LastIndex(key, "@")) = host
      BY <1>1, <2>3, <2>4, HostParsed
    <2> QED
      BY <1>4, <1>6, <2>5 DEF Wanted, key, host
  <1>7. CASE a.field # "issueUpdated" /\ "hostId" \notin DOMAIN a.args
    BY <1>4, <1>7 DEF Wanted
  <1> QED
    BY <1>5, <1>6, <1>7

\* subscribeOnce and the resolvers, over any number of reconnects: lines come
\* in the order of the events, none twice, each one of an event that was
\* asked for, where the names asked for are without the separators of a key.
THEOREM LinesAsAsked == NamesArePlain => (Spec => []PrintedAsAsked)
  <1> SUFFICES ASSUME NamesArePlain PROVE Spec => []PrintedAsAsked
    OBVIOUS
  <1>f. FiltersAsAsked
    BY FiltersKeep
  <1>1. ASSUME LineInv PROVE PrintedAsAsked
    <2>1. DOMAIN printed = 1 .. Len(printed) /\ \A i \in DOMAIN printed : printed[i] \in Nat
      BY <1>1 DEF LineInv, LineTypeOK
    <2>2. ASSUME NEW i \in DOMAIN printed
          PROVE  IF printed[i] = 0 THEN Refused(ask) ELSE Wanted(ask, Feed[printed[i]])
      <3>1. LineOK(printed[i]) /\ printed[i] \in Nat /\ ask \in Asks
        BY <1>1, <2>1, <2>2 DEF LineInv, LinesOK, LineTypeOK
      <3>2. CASE printed[i] # 0
        <4>1. printed[i] \in 1 .. MaxEvents
          <5>1. printed[i] <= published /\ published <= MaxEvents /\ published \in Nat /\ MaxEvents \in Nat
            BY <1>1, <3>1, <3>2, SubscribeAssumption DEF LineOK, LineInv, LineTypeOK, MaxEvents
          <5> QED
            BY <3>1, <3>2, <5>1
        <4> QED
          BY <1>f, <3>1, <3>2, <4>1 DEF FiltersAsAsked, LineOK
      <3> QED
        BY <3>1, <3>2 DEF LineOK
    <2> QED
      BY <1>1, <2>1, <2>2 DEF PrintedAsAsked, LineInv, LinesInOrder
  <1>2. StatusInv /\ LineInv /\ [Next]_vars => (StatusInv /\ LineInv)'
    BY StatusNext, LineNext
  <1> QED
    BY <1>1, <1>2, StatusInit, LineInit, PTL DEF Spec

----------------------------------------------------------------------------
(* The short-lived commands. *)

Confs == [ok : BOOLEAN, listen : {"loop", "net"}, tokens : SUBSET (Nat \ {0})]

\* proc is a function to records of these four fields.
ProcShape ==
    proc = [p \in Procs |-> [cmd |-> proc[p].cmd, pc |-> proc[p].pc,
                             read |-> proc[p].read, code |-> proc[p].code]]

\* While p runs and nothing has changed, the server is what the config says,
\* and what p has read of the config is what the server runs with.
ServerOK(p) ==
    proc[p].pc # "exit" =>
        /\ p \in steady => srv # Down /\ srv = config
        /\ srv # Down => p \in met
        /\ proc[p].code = -1
        /\ (At(p, "hook", "post") \/ At(p, "status", "post")) /\ p \in steady => proc[p].read = srv
        /\ At(p, "status", "rows") => fate[p] = "answered"

\* EndTellsServer, of one command.
EndOK(p) ==
    /\ Done(p, "hook") /\ p \in steady => fate[p] \in {"answered", "lost"}
    /\ Done(p, "status") /\ p \in steady /\ ListenIsLoopback(proc[p].read.listen) =>
          proc[p].code = 0 \/ fate[p] = "lost"
    /\ proc[p].cmd \in {"query", "schema", "status"} /\ proc[p].code = 0 => fate[p] = "answered" /\ p \in met

Fates == {"unsent", "answered", "refused", "lost"}

HostInv ==
    /\ ProcShape
    /\ config \in Confs /\ srv \in Confs /\ (srv # Down => Loads(srv))
    /\ fate \in [Procs -> Fates]
    /\ \A p \in Procs : ServerOK(p) /\ EndOK(p) /\ (fate[p] = "answered" => p \in met)

\* A settings file, with our command wired at most once to an event.
Files ==
    [json : {"missing", "torn", "null", "object"}, user : SUBSET UserEntries, ours : [Hooks -> 0 .. 1]]

\* What an installer holds is the user's as last saved, unless that was
\* behind its back, and what it is about to rename into place is complete.
InstallerOK(p) ==
    proc[p].cmd = "install" =>
        /\ proc[p].pc \in {"temp", "rename"} =>
              proc[p].read \in Files /\ (raced \/ proc[p].read.user = kept)
        /\ proc[p].pc = "rename" =>
              proc[p].read.json = "object" /\ \A e \in Hooks : proc[p].read.ours[e] = 1
        /\ proc[p].pc = "exit" /\ proc[p].code = 0 => \A e \in Hooks : settings.ours[e] = 1

SettingsInv ==
    /\ settings \in Files /\ raced \in BOOLEAN
    /\ settings.json = "torn" => was.json = "torn"
    /\ raced \/ settings.user = kept
    /\ \A p \in Procs : InstallerOK(p)

\* The forwarder's bearer opens the server it was configured for.
LEMMA FirstTokenAdmits ==
    ASSUME NEW s \in Confs, s # Down, Loads(s)
    PROVE  Admits(s, s.listen, FirstToken(s))
  <1>1. s.tokens \in SUBSET Nat
    BY DEF Confs
  <1>2. s.tokens # {} => Min(s.tokens) \in s.tokens
    BY <1>1, MinIn
  <1> QED
    BY <1>2 DEF Admits, FirstToken, Loads, Confs

LEMMA ProcChanges ==
    ASSUME ProcShape, NEW p \in Procs, NEW pc, NEW read, NEW c,
           proc' = [proc EXCEPT ![p] = [cmd |-> proc[p].cmd, pc |-> pc, read |-> read, code |-> c]]
    PROVE  /\ ProcShape'
           /\ proc'[p].cmd = proc[p].cmd /\ proc'[p].pc = pc /\ proc'[p].read = read
           /\ proc'[p].code = c
           /\ \A q \in Procs \ {p} : proc'[q] = proc[q]
  <1>1. DOMAIN proc = Procs
    BY DEF ProcShape
  <1>2. proc'[p] = [cmd |-> proc[p].cmd, pc |-> pc, read |-> read, code |-> c]
    BY <1>1
  <1>3. \A q \in Procs \ {p} : proc'[q] = proc[q]
    BY <1>1
  <1>4. \A q \in Procs : proc[q] = [cmd |-> proc[q].cmd, pc |-> proc[q].pc,
                                    read |-> proc[q].read, code |-> proc[q].code]
    BY Zenon DEF ProcShape
  <1>5. \A q \in Procs : proc'[q] = [cmd |-> proc'[q].cmd, pc |-> proc'[q].pc,
                                     read |-> proc'[q].read, code |-> proc'[q].code]
    BY <1>2, <1>3, <1>4
  <1>6. proc' = [q \in Procs |-> proc'[q]]
    BY <1>1
  <1>7. ProcShape'
    BY <1>5, <1>6 DEF ProcShape
  <1> QED
    BY <1>2, <1>3, <1>7

LEMMA GoesTo ==
    ASSUME ProcShape, NEW p \in Procs, NEW pc, NEW read, Goes(p, pc, read)
    PROVE  /\ ProcShape'
           /\ proc'[p].cmd = proc[p].cmd /\ proc'[p].pc = pc /\ proc'[p].read = read
           /\ proc'[p].code = proc[p].code
           /\ \A q \in Procs \ {p} : proc'[q] = proc[q]
  <1>1. ASSUME NEW r, NEW a, NEW b, NEW c, NEW d, r = [cmd |-> a, pc |-> b, read |-> c, code |-> d]
        PROVE  [r EXCEPT !.pc = pc, !.read = read] = [cmd |-> a, pc |-> pc, read |-> read, code |-> d]
    <2>1. r \in [cmd : {a}, pc : {b}, read : {c}, code : {d}]
      BY <1>1
    <2>2. [r EXCEPT !.pc = pc, !.read = read] \in [cmd : {a}, pc : {pc}, read : {read}, code : {d}]
      BY <2>1
    <2>3. \A s \in [cmd : {a}, pc : {pc}, read : {read}, code : {d}] :
                s = [cmd |-> a, pc |-> pc, read |-> read, code |-> d]
      OBVIOUS
    <2> QED
      BY <2>2, <2>3
  <1>2. proc[p] = [cmd |-> proc[p].cmd, pc |-> proc[p].pc, read |-> proc[p].read, code |-> proc[p].code]
    BY Zenon DEF ProcShape
  <1>3. [proc[p] EXCEPT !.pc = pc, !.read = read]
          = [cmd |-> proc[p].cmd, pc |-> pc, read |-> read, code |-> proc[p].code]
    BY <1>1, <1>2, Zenon
  <1>4. proc' = [proc EXCEPT ![p] = [cmd |-> proc[p].cmd, pc |-> pc, read |-> read, code |-> proc[p].code]]
    BY <1>3 DEF Goes
  <1> QED
    BY <1>4, ProcChanges

LEMMA ExitsWith ==
    ASSUME ProcShape, NEW p \in Procs, NEW c, Exits(p, c)
    PROVE  /\ ProcShape'
           /\ proc'[p].cmd = proc[p].cmd /\ proc'[p].pc = "exit" /\ proc'[p].read = proc[p].read
           /\ proc'[p].code = c
           /\ \A q \in Procs \ {p} : proc'[q] = proc[q]
  <1>1. ASSUME NEW r, NEW a, NEW b, NEW d, NEW e, r = [cmd |-> a, pc |-> b, read |-> d, code |-> e]
        PROVE  [r EXCEPT !.pc = "exit", !.code = c] = [cmd |-> a, pc |-> "exit", read |-> d, code |-> c]
    <2>1. r \in [cmd : {a}, pc : {b}, read : {d}, code : {e}]
      BY <1>1
    <2>2. [r EXCEPT !.pc = "exit", !.code = c] \in [cmd : {a}, pc : {"exit"}, read : {d}, code : {c}]
      BY <2>1
    <2>3. \A s \in [cmd : {a}, pc : {"exit"}, read : {d}, code : {c}] :
                s = [cmd |-> a, pc |-> "exit", read |-> d, code |-> c]
      OBVIOUS
    <2> QED
      BY <2>2, <2>3
  <1>2. proc[p] = [cmd |-> proc[p].cmd, pc |-> proc[p].pc, read |-> proc[p].read, code |-> proc[p].code]
    BY Zenon DEF ProcShape
  <1>3. [proc[p] EXCEPT !.pc = "exit", !.code = c]
          = [cmd |-> proc[p].cmd, pc |-> "exit", read |-> proc[p].read, code |-> c]
    BY <1>1, <1>2, Zenon
  <1>4. proc' = [proc EXCEPT ![p] = [cmd |-> proc[p].cmd, pc |-> "exit", read |-> proc[p].read, code |-> c]]
    BY <1>3 DEF Exits
  <1> QED
    BY <1>4, ProcChanges

\* A step of one command concerns that command.
LEMMA HostOne ==
    ASSUME HostInv, NEW p \in Procs, UNCHANGED <<config, srv, steady, met>>, ProcShape',
           fate' \in [Procs -> Fates],
           \A q \in Procs \ {p} : proc'[q] = proc[q] /\ fate'[q] = fate[q],
           ServerOK(p)', EndOK(p)', fate'[p] = "answered" => p \in met
    PROVE  HostInv'
  <1>1. ASSUME NEW q \in Procs, q # p PROVE ServerOK(q)' /\ EndOK(q)' /\ (fate'[q] = "answered" => q \in met)
    <2>1. proc'[q] = proc[q] /\ fate'[q] = fate[q] /\ ServerOK(q) /\ EndOK(q) /\ (fate[q] = "answered" => q \in met)
      BY <1>1 DEF HostInv
    <2> QED
      BY <2>1 DEF ServerOK, EndOK, At, Done, Down, Defaults
  <1> QED
    BY <1>1 DEF HostInv

\* A request is answered, refused or lost: answered by a server that is there
\* and never refused by one that would admit it.
LEMMA Requested ==
    ASSUME HostInv, NEW p \in Procs, proc[p].pc # "exit", NEW t, Request(p, t)
    PROVE  /\ fate' \in [Procs -> Fates] /\ fate'[p] \in {"answered", "refused", "lost"}
           /\ \A q \in Procs \ {p} : fate'[q] = fate[q]
           /\ fate'[p] = "answered" => p \in met
           /\ Admits(srv, proc[p].read.listen, t) => fate'[p] \in {"answered", "lost"}
  <1> DEFINE A == Admits(srv, proc[p].read.listen, t)
  <1>1. PICK f \in {"lost", IF A THEN "answered" ELSE "refused"} : fate' = [fate EXCEPT ![p] = f]
    BY DEF Request
  <1>2. A => p \in met
    BY DEF HostInv, ServerOK, Admits
  <1>3. fate \in [Procs -> Fates]
    BY DEF HostInv
  <1> HIDE DEF A
  <1>4. f \in {"answered", "refused", "lost"} /\ (f = "answered" => A) /\ (A => f # "refused")
    BY <1>1
  <1>5. fate'[p] = f /\ fate' \in [Procs -> Fates] /\ \A q \in Procs \ {p} : fate'[q] = fate[q]
    BY <1>1, <1>3, <1>4 DEF Fates
  <1> QED
    BY <1>2, <1>4, <1>5 DEF A

\* The ways a command ends that ask nothing more of the server.
LEMMA HostEnds ==
    ASSUME HostInv, NEW p \in Procs, UNCHANGED <<config, srv, steady, met, fate>>,
           NEW c, Exits(p, c), proc[p].cmd \notin {"hook", "status"},
           c = 0 => proc[p].cmd \notin {"query", "schema"}
    PROVE  HostInv'
  <1>1. /\ ProcShape' /\ proc'[p].cmd = proc[p].cmd /\ proc'[p].pc = "exit" /\ proc'[p].code = c
        /\ \A q \in Procs \ {p} : proc'[q] = proc[q]
    BY ExitsWith DEF HostInv
  <1>2. ServerOK(p)' /\ EndOK(p)'
    BY <1>1 DEF ServerOK, EndOK, At, Done
  <1>3. fate' \in [Procs -> Fates] /\ (fate'[p] = "answered" => p \in met)
    BY DEF HostInv
  <1> QED
    BY <1>1, <1>2, <1>3, HostOne

LEMMA HostReads ==
    ASSUME HostInv, NEW p \in Procs, ReadConfig(p)
    PROVE  HostInv'
  <1>1. /\ UNCHANGED <<config, srv, steady, met, fate>> /\ Goes(p, "post", Loaded(config))
        /\ proc[p].pc = "read"
    BY DEF ReadConfig, files
  <1>2. /\ ProcShape' /\ proc'[p].cmd = proc[p].cmd /\ proc'[p].pc = "post"
        /\ proc'[p].read = Loaded(config) /\ proc'[p].code = proc[p].code
        /\ \A q \in Procs \ {p} : proc'[q] = proc[q]
    BY <1>1, GoesTo DEF HostInv
  <1>3. ServerOK(p) /\ (srv # Down => Loads(srv)) /\ fate \in [Procs -> Fates] /\ (fate[p] = "answered" => p \in met)
        /\ EndOK(p)
    BY DEF HostInv
  <1>4. p \in steady => Loaded(config) = srv
    BY <1>1, <1>3 DEF ServerOK, Loaded
  <1>5. ServerOK(p)'
    BY <1>1, <1>2, <1>3, <1>4 DEF ServerOK, At, Down, Defaults
  <1>6. EndOK(p)'
    BY <1>1, <1>2, <1>3 DEF EndOK, Done, At
  <1> QED
    BY <1>1, <1>2, <1>3, <1>5, <1>6, HostOne

LEMMA HostPostsHook ==
    ASSUME HostInv, NEW p \in Procs, PostHook(p)
    PROVE  HostInv'
  <1>1. /\ UNCHANGED <<config, srv, steady, met>> /\ Exits(p, 0)
        /\ proc[p].cmd = "hook" /\ proc[p].pc = "post" /\ Request(p, FirstToken(proc[p].read))
    BY DEF PostHook, files, At
  <1>2. /\ ProcShape' /\ proc'[p].cmd = "hook" /\ proc'[p].pc = "exit"
        /\ \A q \in Procs \ {p} : proc'[q] = proc[q]
    BY <1>1, ExitsWith DEF HostInv
  <1>3. ServerOK(p) /\ srv \in Confs /\ (srv # Down => Loads(srv))
    BY DEF HostInv
  <1>4. p \in steady => Admits(srv, proc[p].read.listen, FirstToken(proc[p].read))
    BY <1>1, <1>3, FirstTokenAdmits DEF ServerOK, At
  <1>5. /\ fate' \in [Procs -> Fates] /\ (fate'[p] = "answered" => p \in met)
        /\ \A q \in Procs \ {p} : fate'[q] = fate[q]
        /\ p \in steady => fate'[p] \in {"answered", "lost"}
    BY <1>1, <1>4, Requested
  <1>6. ServerOK(p)' /\ EndOK(p)'
    BY <1>1, <1>2, <1>5 DEF ServerOK, EndOK, Done, At
  <1> QED
    BY <1>1, <1>2, <1>5, <1>6, HostOne

LEMMA HostPostsQuery ==
    ASSUME HostInv, NEW p \in Procs, PostQuery(p) \/ PostSchema(p)
    PROVE  HostInv'
  <1>1. /\ UNCHANGED <<config, srv, steady, met>>
        /\ (fate'[p] = "answered" /\ Exits(p, 0)) \/ Exits(p, 1)
        /\ proc[p].cmd \in {"query", "schema"} /\ proc[p].pc = "post" /\ Request(p, NoToken)
    BY DEF PostQuery, PostSchema, files, At
  <1>2. PICK c \in {0, 1} : Exits(p, c) /\ (c = 0 => fate'[p] = "answered")
    BY <1>1
  <1>3. /\ ProcShape' /\ proc'[p].cmd = proc[p].cmd /\ proc'[p].pc = "exit" /\ proc'[p].code = c
        /\ \A q \in Procs \ {p} : proc'[q] = proc[q]
    BY <1>2, ExitsWith DEF HostInv
  <1>4. /\ fate' \in [Procs -> Fates] /\ (fate'[p] = "answered" => p \in met)
        /\ \A q \in Procs \ {p} : fate'[q] = fate[q]
    BY <1>1, Requested
  <1>5. ServerOK(p)' /\ EndOK(p)'
    BY <1>1, <1>2, <1>3, <1>4 DEF ServerOK, EndOK, Done, At
  <1> QED
    BY <1>1, <1>3, <1>4, <1>5, HostOne

LEMMA HostProbes ==
    ASSUME HostInv, NEW p \in Procs, Probe(p)
    PROVE  HostInv'
  <1>1. /\ UNCHANGED <<config, srv, steady, met>>
        /\ IF fate'[p] = "answered" THEN Goes(p, "rows", proc[p].read) ELSE Exits(p, 3)
        /\ proc[p].cmd = "status" /\ proc[p].pc = "post" /\ Request(p, NoToken)
    BY DEF Probe, files, At
  <1>2. /\ fate' \in [Procs -> Fates] /\ (fate'[p] = "answered" => p \in met)
        /\ \A q \in Procs \ {p} : fate'[q] = fate[q]
        /\ Admits(srv, proc[p].read.listen, NoToken) => fate'[p] \in {"answered", "lost"}
    BY <1>1, Requested
  <1>3. ServerOK(p)
    BY DEF HostInv
  <1>4. CASE fate'[p] = "answered"
    <2>1. /\ ProcShape' /\ proc'[p].cmd = proc[p].cmd /\ proc'[p].pc = "rows"
          /\ proc'[p].read = proc[p].read /\ proc'[p].code = proc[p].code
          /\ \A q \in Procs \ {p} : proc'[q] = proc[q]
      BY <1>1, <1>4, GoesTo DEF HostInv
    <2>2. ServerOK(p)' /\ EndOK(p)'
      BY <1>1, <1>2, <1>3, <1>4, <2>1 DEF ServerOK, EndOK, Done, At, Down, Defaults
    <2> QED
      BY <1>1, <1>2, <2>1, <2>2, HostOne
  <1>5. CASE fate'[p] # "answered"
    <2>1. /\ ProcShape' /\ proc'[p].cmd = proc[p].cmd /\ proc'[p].pc = "exit"
          /\ proc'[p].read = proc[p].read /\ proc'[p].code = 3
          /\ \A q \in Procs \ {p} : proc'[q] = proc[q]
      BY <1>1, <1>5, ExitsWith DEF HostInv
    <2>2. p \in steady /\ ListenIsLoopback(proc[p].read.listen) => fate'[p] = "lost"
      BY <1>1, <1>2, <1>3, <1>5 DEF ServerOK, At, Admits
    <2>3. ServerOK(p)' /\ EndOK(p)'
      BY <1>1, <2>1, <2>2 DEF ServerOK, EndOK, Done, At
    <2> QED
      BY <1>1, <1>2, <2>1, <2>3, HostOne
  <1> QED
    BY <1>4, <1>5

LEMMA HostProbesRows ==
    ASSUME HostInv, NEW p \in Procs, ProbeRows(p)
    PROVE  HostInv'
  <1>1. /\ UNCHANGED <<config, srv, steady, met, fate>> /\ Exits(p, 0)
        /\ proc[p].cmd = "status" /\ proc[p].pc = "rows"
    BY DEF ProbeRows, files, At
  <1>2. /\ ProcShape' /\ proc'[p].cmd = "status" /\ proc'[p].pc = "exit" /\ proc'[p].code = 0
        /\ \A q \in Procs \ {p} : proc'[q] = proc[q]
    BY <1>1, ExitsWith DEF HostInv
  <1>3. fate[p] = "answered" /\ p \in met /\ fate \in [Procs -> Fates]
    BY <1>1 DEF HostInv, ServerOK, At
  <1>4. ServerOK(p)' /\ EndOK(p)'
    BY <1>1, <1>2, <1>3 DEF ServerOK, EndOK, Done, At
  <1> QED
    BY <1>1, <1>2, <1>3, <1>4, HostOne

LEMMA HostInstalls ==
    ASSUME HostInv, NEW p \in Procs, UNCHANGED <<config, srv, steady, met, fate>>,
           proc[p].cmd = "install", proc[p].pc # "exit", NEW pc, NEW read, Goes(p, pc, read), pc # "exit"
    PROVE  HostInv'
  <1>1. /\ ProcShape' /\ proc'[p].cmd = "install" /\ proc'[p].pc = pc /\ proc'[p].code = proc[p].code
        /\ \A q \in Procs \ {p} : proc'[q] = proc[q]
    BY GoesTo DEF HostInv
  <1>2. ServerOK(p) /\ fate \in [Procs -> Fates] /\ (fate[p] = "answered" => p \in met)
    BY DEF HostInv
  <1>3. ServerOK(p)' /\ EndOK(p)'
    BY <1>1, <1>2 DEF ServerOK, EndOK, Done, At, Down, Defaults
  <1> QED
    BY <1>1, <1>2, <1>3, HostOne

\* An edit, a start or a stop: no running command is steady any more.
LEMMA HostChanges ==
    ASSUME HostInv, EditConfig \/ StartServer \/ StopServer
    PROVE  HostInv'
  <1>1. /\ UNCHANGED <<proc, fate>> /\ steady' = steady \ Running
        /\ met \subseteq met'
        /\ srv' # Down => srv' = srv \/ Running \subseteq met'
    BY DEF EditConfig, StartServer, StopServer
  <1>2. config' \in Confs /\ srv' \in Confs /\ (srv' # Down => Loads(srv'))
    <2>1. Down \in Confs
      BY DEF Confs, Down, Defaults
    <2>2. CASE EditConfig
      BY <2>2, HostAssumption DEF EditConfig, HostInv, Confs, Down, Defaults, Loads
    <2>3. CASE StartServer \/ StopServer
      BY <2>1, <2>3 DEF StartServer, StopServer, HostInv, Down, Defaults, Loads
    <2> QED
      BY <2>2, <2>3
  <1>3. ASSUME NEW p \in Procs PROVE ServerOK(p)' /\ EndOK(p)' /\ (fate'[p] = "answered" => p \in met')
    <2>1. ServerOK(p) /\ EndOK(p) /\ (fate[p] = "answered" => p \in met)
      BY DEF HostInv
    <2>2. CASE proc[p].pc = "exit"
      BY <1>1, <2>1, <2>2 DEF ServerOK, EndOK, Done, At
    <2>3. CASE proc[p].pc # "exit"
      <3>1. p \in Running /\ p \notin steady'
        BY <1>1, <2>3 DEF Running
      <3>2. srv' # Down => p \in met'
        BY <1>1, <2>1, <2>3, <3>1 DEF ServerOK
      <3> QED
        BY <1>1, <2>1, <3>1, <3>2 DEF ServerOK, EndOK, Done, At, Down, Defaults
    <2> QED
      BY <2>2, <2>3
  <1>4. ProcShape' /\ fate' \in [Procs -> Fates]
    BY <1>1 DEF HostInv, ProcShape
  <1> QED
    BY <1>2, <1>3, <1>4 DEF HostInv

LEMMA HostSame ==
    ASSUME HostInv, UNCHANGED <<config, srv, steady, met, fate, proc>>
    PROVE  HostInv'
  BY DEF HostInv, ProcShape, ServerOK, EndOK, At, Done, Down, Defaults

LEMMA HostInvNext == HostInv /\ [Next]_vars => HostInv'
  <1> SUFFICES ASSUME HostInv, [Next]_vars PROVE HostInv'
    OBVIOUS
  <1>1. CASE UNCHANGED hostVars \/ EditSettings
    BY <1>1, HostSame DEF hostVars, EditSettings
  <1>2. ASSUME NEW p \in Procs, LoadFails(p) PROVE HostInv'
    BY <1>2, HostEnds DEF LoadFails, files, At
  <1>3. ASSUME NEW p \in Procs, ReadSettings(p) \/ WriteTemp(p) \/ Rename(p) \/ Crash(p) PROVE HostInv'
    <2>1. /\ proc[p].cmd = "install" /\ proc[p].pc # "exit"
          /\ UNCHANGED <<config, srv, steady, met, fate>>
          /\ (\E c \in {0, 1, 2, 137} : Exits(p, c))
                \/ \E pc \in {"temp", "rename"} : \E read : Goes(p, pc, read)
      BY <1>3 DEF ReadSettings, WriteTemp, Rename, Crash, files, At
    <2> QED
      BY <2>1, HostEnds, HostInstalls
  <1> QED
    BY <1>1, <1>2, <1>3, HostReads, HostPostsHook, HostPostsQuery, HostProbes, HostProbesRows, HostChanges
       DEF Next, HostNext, vars

LEMMA HostStarts ==
    ASSUME NEW cmds, NEW configs \in SUBSET Confs, NEW contents \in SUBSET Files,
           HostInit(cmds, configs, contents)
    PROVE  HostInv /\ SettingsInv
  <1>1. ASSUME NEW p \in Procs
        PROVE  \E c \in cmds : proc[p] = [cmd |-> c, pc |-> IF c = "none" THEN "exit" ELSE "read",
                                          read |-> "nothing", code |-> -1]
    BY DEF HostInit
  <1>2. ASSUME NEW p \in Procs
        PROVE  /\ proc[p] = [cmd |-> proc[p].cmd, pc |-> proc[p].pc, read |-> proc[p].read, code |-> proc[p].code]
               /\ proc[p].pc \in {"read", "exit"} /\ proc[p].code = -1
               /\ proc[p].pc = "exit" => proc[p].cmd = "none"
    <2>1. PICK c, pc : /\ proc[p] = [cmd |-> c, pc |-> pc, read |-> "nothing", code |-> -1]
                       /\ (pc = "exit" /\ c = "none") \/ pc = "read"
      BY <1>1
    <2>2. proc[p].cmd = c /\ proc[p].pc = pc /\ proc[p].read = "nothing" /\ proc[p].code = -1
      BY <2>1
    <2> QED
      BY <2>1, <2>2
  <1>3. ProcShape
    <2>1. proc = [p \in Procs |-> proc[p]]
      BY DEF HostInit
    <2> QED
      BY <1>2, <2>1 DEF ProcShape
  <1>4. /\ config \in Confs /\ srv \in Confs /\ (srv # Down => Loads(srv))
        /\ fate = [p \in Procs |-> "unsent"]
        /\ \A p \in steady : srv # Down /\ srv = config
        /\ srv # Down => met = Procs
    <2>1. Down \in Confs
      BY DEF Confs, Down, Defaults
    <2> QED
      BY <2>1 DEF HostInit
  <1>5. HostInv
    <2>1. ASSUME NEW p \in Procs PROVE ServerOK(p) /\ EndOK(p) /\ fate[p] = "unsent"
      <3>1. fate[p] = "unsent" /\ (p \in steady => srv # Down /\ srv = config) /\ (srv # Down => p \in met)
        BY <1>4
      <3>2. ServerOK(p)
        BY <1>2, <3>1 DEF ServerOK, At
      <3>3. EndOK(p)
        <4>1. proc[p].code # 0
          <5>1. proc[p].code = -1
            BY <1>2
          <5>2. -1 # 0
            OBVIOUS
          <5> QED
            BY <5>1, <5>2
        <4>2. proc[p].pc = "exit" => proc[p].cmd = "none"
          BY <1>2
        <4> QED
          BY <4>1, <4>2 DEF EndOK, Done, At
      <3> QED
        BY <3>1, <3>2, <3>3
    <2> QED
      BY <1>3, <1>4, <2>1 DEF HostInv, Fates
  <1>6. SettingsInv
    BY <1>2 DEF HostInit, SettingsInv, InstallerOK
  <1> QED
    BY <1>5, <1>6

LEMMA HostInvInit == Init => HostInv /\ SettingsInv
  <1>1. {Defaults} \in SUBSET Confs /\ HostConfigs \in SUBSET Confs
    BY HostAssumption DEF Defaults, Confs
  <1>2. {CHOOSE s \in Contents : TRUE} \in SUBSET Files /\ Contents \in SUBSET Files
    BY CliAssumption DEF Files
  <1> QED
    BY <1>1, <1>2, HostStarts DEF Init

\* claude-hook, status, query and schema: what a command's end says of the
\* server holds whatever is edited, started and stopped while it runs. The
\* bearer a hook reads opens the server, tokens or not, if neither changed.
THEOREM EndsTellServer == Spec => []EndTellsServer
  <1>1. HostInv => EndTellsServer
    BY DEF HostInv, EndOK, EndTellsServer
  <1> QED
    BY <1>1, HostInvInit, HostInvNext, PTL DEF Spec

----------------------------------------------------------------------------
(* install-claude-hook. *)

LEMMA MergedOK ==
    ASSUME NEW r \in Files
    PROVE  /\ Merged(r) \in Files /\ Merged(r).json = "object" /\ Merged(r).user = r.user
           /\ \A e \in Hooks : Merged(r).ours[e] = 1
  <1>1. ASSUME NEW n \in 0 .. 1 PROVE Max({1, n}) = 1
    <2>1. n = 0 \/ n = 1
      OBVIOUS
    <2> QED
      BY <2>1 DEF Max
  <1>2. r.ours \in [Hooks -> 0 .. 1] /\ r.user \in SUBSET UserEntries
    BY DEF Files
  <1>3. \A e \in Hooks : Max({1, r.ours[e]}) = 1
    BY <1>1, <1>2
  <1>4. [e \in Hooks |-> Max({1, r.ours[e]})] \in [Hooks -> 0 .. 1]
    BY <1>3
  <1> QED
    BY <1>2, <1>3, <1>4 DEF Merged, Files

LEMMA SettingsOne ==
    ASSUME SettingsInv, NEW p \in Procs, UNCHANGED <<settings, was, kept, raced>>,
           \A q \in Procs \ {p} : proc'[q] = proc[q], InstallerOK(p)'
    PROVE  SettingsInv'
  BY DEF SettingsInv, InstallerOK

\* The commands that ask the server leave the settings alone, and so does an
\* installer that gives up.
LEMMA SettingsOther ==
    ASSUME SettingsInv, HostInv, NEW p \in Procs, UNCHANGED <<settings, was, kept, raced>>,
           \/ proc[p].cmd # "install" /\ \E pc, read : Goes(p, pc, read)
           \/ proc[p].cmd # "install" /\ \E c : Exits(p, c)
           \/ \E c \in {1, 2, 137} : Exits(p, c)
    PROVE  SettingsInv'
  <1>0. ProcShape
    BY DEF HostInv
  <1>1. CASE proc[p].cmd # "install" /\ \E pc, read : Goes(p, pc, read)
    <2>1. proc'[p].cmd # "install" /\ \A q \in Procs \ {p} : proc'[q] = proc[q]
      BY <1>0, <1>1, GoesTo
    <2> QED
      BY <2>1, SettingsOne DEF InstallerOK
  <1>2. CASE proc[p].cmd # "install" /\ \E c : Exits(p, c)
    <2>1. proc'[p].cmd # "install" /\ \A q \in Procs \ {p} : proc'[q] = proc[q]
      BY <1>0, <1>2, ExitsWith
    <2> QED
      BY <2>1, SettingsOne DEF InstallerOK
  <1>3. ASSUME NEW c \in {1, 2, 137}, Exits(p, c) PROVE SettingsInv'
    <2>1. proc'[p].pc = "exit" /\ proc'[p].code # 0 /\ \A q \in Procs \ {p} : proc'[q] = proc[q]
      BY <1>0, <1>3, ExitsWith
    <2> QED
      BY <2>1, SettingsOne DEF InstallerOK
  <1> QED
    BY <1>1, <1>2, <1>3

LEMMA SettingsReads ==
    ASSUME SettingsInv, HostInv, NEW p \in Procs, ReadSettings(p)
    PROVE  SettingsInv'
  <1>1. UNCHANGED <<settings, was, kept, raced>>
    BY DEF ReadSettings, files
  <1>2. CASE Goes(p, "temp", settings)
    <2>1. /\ proc'[p].pc = "temp" /\ proc'[p].read = settings
          /\ \A q \in Procs \ {p} : proc'[q] = proc[q]
      BY <1>2, GoesTo DEF HostInv
    <2>2. InstallerOK(p)'
      BY <1>1, <2>1 DEF InstallerOK, SettingsInv
    <2> QED
      BY <1>1, <2>1, <2>2, SettingsOne
  <1>3. CASE Exits(p, 1) \/ Exits(p, 2)
    BY <1>1, <1>3, SettingsOther
  <1> QED
    BY <1>2, <1>3 DEF ReadSettings

LEMMA SettingsWrites ==
    ASSUME SettingsInv, HostInv, NEW p \in Procs, WriteTemp(p)
    PROVE  SettingsInv'
  <1>1. UNCHANGED <<settings, was, kept, raced>> /\ proc[p].cmd = "install" /\ proc[p].pc = "temp"
    BY DEF WriteTemp, files, At
  <1>2. CASE Goes(p, "rename", Merged(proc[p].read))
    <2>1. /\ proc'[p].pc = "rename" /\ proc'[p].read = Merged(proc[p].read)
          /\ \A q \in Procs \ {p} : proc'[q] = proc[q]
      BY <1>2, GoesTo DEF HostInv
    <2>2. proc[p].read \in Files /\ (raced \/ proc[p].read.user = kept)
      BY <1>1 DEF SettingsInv, InstallerOK
    <2>3. InstallerOK(p)'
      BY <1>1, <2>1, <2>2, MergedOK DEF InstallerOK
    <2> QED
      BY <1>1, <2>1, <2>3, SettingsOne
  <1>3. CASE Exits(p, 1)
    BY <1>1, <1>3, SettingsOther
  <1> QED
    BY <1>2, <1>3 DEF WriteTemp

LEMMA SettingsRenames ==
    ASSUME SettingsInv, HostInv, NEW p \in Procs, Rename(p)
    PROVE  SettingsInv'
  <1>1. UNCHANGED <<was, kept, raced>> /\ proc[p].cmd = "install" /\ proc[p].pc = "rename"
    BY DEF Rename, At
  <1>2. CASE settings' = proc[p].read /\ Exits(p, 0)
    <2>1. /\ proc'[p].pc = "exit" /\ \A q \in Procs \ {p} : proc'[q] = proc[q]
      BY <1>2, ExitsWith DEF HostInv
    <2>2. /\ settings' \in Files /\ settings'.json = "object" /\ (raced \/ settings'.user = kept)
          /\ \A e \in Hooks : settings'.ours[e] = 1
      BY <1>1, <1>2 DEF SettingsInv, InstallerOK
    <2>3. ASSUME NEW q \in Procs PROVE InstallerOK(q)'
      <3>1. CASE q = p
        BY <2>1, <2>2, <3>1 DEF InstallerOK
      <3>2. CASE q # p
        <4>1. proc'[q] = proc[q] /\ InstallerOK(q)
          BY <2>1, <3>2 DEF SettingsInv
        <4> QED
          BY <1>1, <2>2, <4>1 DEF InstallerOK
      <3> QED
        BY <3>1, <3>2
    <2> QED
      BY <1>1, <2>2, <2>3 DEF SettingsInv
  <1>3. CASE settings' = settings /\ Exits(p, 1)
    BY <1>1, <1>3, SettingsOther
  <1> QED
    BY <1>2, <1>3 DEF Rename

\* The user saves: an installer that holds the old entries makes it a race.
LEMMA SettingsEdited ==
    ASSUME SettingsInv, EditSettings
    PROVE  SettingsInv'
  <1>1. PICK u \in SUBSET UserEntries : settings' = [settings EXCEPT !.user = u] /\ kept' = u
    BY DEF EditSettings
  <1>2. /\ settings.json = "object" /\ UNCHANGED <<was, proc>>
        /\ raced' = (raced \/ \E p \in Procs : proc[p].cmd = "install" /\ proc[p].pc \in {"temp", "rename"})
    BY DEF EditSettings
  <1>3. /\ settings' \in Files /\ settings'.json = "object" /\ settings'.user = u
        /\ settings'.ours = settings.ours
    BY <1>1, <1>2 DEF SettingsInv, Files
  <1>4. ASSUME NEW p \in Procs PROVE InstallerOK(p)'
    <2>1. InstallerOK(p)
      BY DEF SettingsInv
    <2> QED
      BY <1>2, <1>3, <2>1 DEF InstallerOK
  <1>5. raced' \in BOOLEAN
    BY <1>2 DEF SettingsInv
  <1> QED
    BY <1>1, <1>3, <1>4, <1>5 DEF SettingsInv

LEMMA SettingsNext ==
    ASSUME SettingsInv, HostInv, [Next]_vars
    PROVE  SettingsInv'
  <1>1. CASE UNCHANGED <<settings, was, kept, raced, proc>>
    BY <1>1 DEF SettingsInv, InstallerOK
  <1>2. ASSUME NEW p \in Procs,
               \/ ReadConfig(p) \/ PostHook(p) \/ LoadFails(p) \/ PostQuery(p) \/ PostSchema(p)
               \/ Probe(p) \/ ProbeRows(p) \/ Crash(p)
        PROVE  SettingsInv'
    <2>1. UNCHANGED <<settings, was, kept, raced>>
      BY <1>2 DEF ReadConfig, PostHook, LoadFails, PostQuery, PostSchema, Probe, ProbeRows, Crash, files
    <2>2. \/ proc[p].cmd # "install" /\ \E pc, read : Goes(p, pc, read)
          \/ proc[p].cmd # "install" /\ \E c : Exits(p, c)
          \/ Exits(p, 137)
      BY <1>2 DEF ReadConfig, PostHook, LoadFails, PostQuery, PostSchema, Probe, ProbeRows, Crash, At
    <2> QED
      BY <2>1, <2>2, SettingsOther
  <1>3. CASE EditConfig \/ StartServer \/ StopServer \/ UNCHANGED hostVars
    BY <1>1, <1>3 DEF EditConfig, StartServer, StopServer, hostVars
  <1> QED
    BY <1>2, <1>3, SettingsReads, SettingsWrites, SettingsRenames, SettingsEdited
       DEF Next, HostNext, vars

\* install-claude-hook: for any number of installers, each killed anywhere, the
\* settings file is never left torn, our command is wired at most once to an
\* event, status 0 means it is wired, and the user's entries survive unless
\* they were saved between an installer's read and its rename.
THEOREM SettingsKept == Spec => []SettingsSurvive
  <1>1. ASSUME SettingsInv PROVE SettingsSurvive
    <2>1. \A e \in Hooks : settings.ours[e] \in 0 .. 1
      BY <1>1 DEF SettingsInv, Files
    <2>2. \A e \in Hooks : settings.ours[e] <= 1
      BY <2>1
    <2> QED
      BY <1>1, <2>2 DEF SettingsSurvive, SettingsInv, InstallerOK, Done, At
  <1>2. SettingsInv /\ HostInv /\ [Next]_vars => (SettingsInv /\ HostInv)'
    BY SettingsNext, HostInvNext
  <1> QED
    BY <1>1, <1>2, HostInvInit, PTL DEF Spec
=============================================================================
