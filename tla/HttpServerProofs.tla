---------------------------- MODULE HttpServerProofs ----------------------------
(***************************************************************************)
(* The front end's safety properties for any number of connections, slots, *)
(* inflight requests and tokens.                                           *)
(*                                                                         *)
(* Neither property is inductive.  SlotInv counts the open connections in  *)
(* a finite set, and ConnectionInv says what each stage of a connection    *)
(* has written, decided and handed to the service.                         *)
(***************************************************************************)
EXTENDS HttpServer, SequenceTheorems, FiniteSetTheorems, TLAPS

\* What a generation may have written: nothing, or headers and tokens.
Prefix(s) ==
  \/ s = <<>>
  \/ Len(s) > 1 /\ s[1] = "headers" /\ \A i \in 2..Len(s) : s[i] = "token"

\* What a connection may have written when it is over.
Whole(s) ==
  \/ s = <<>>
  \/ Len(s) = 1 /\ s[1] \in Statuses \union {"headers"}
  \/ /\ Len(s) > 1 /\ s[1] = "headers"
     /\ \A i \in 2..Len(s) - 1 : s[i] = "token"
     /\ s[Len(s)] \in {"token"} \union Terminal

TypeInv ==
  /\ slots \in Int
  /\ pc \in [Connections -> Stages]
  /\ route \in [Connections -> {"none"} \union Routes]
  /\ verdict \in [Connections -> {"none"} \union Statuses \union Terminal]
  /\ sent \in [Connections -> Seq(Parts)]
  /\ expired \subseteq Connections /\ called \subseteq Connections /\ active \subseteq Connections
  /\ draining \in BOOLEAN /\ stopping \in BOOLEAN
  /\ main \in {"starting", "serving", "failed", "draining", "joining", "exited"}
  /\ stopper \in {"armed", "draining", "waiting", "done", "cancelled"}

OpenConnections == {c \in Connections : Open(c)}

SlotInv == slots = MaxConnections - Cardinality(OpenConnections) /\ slots >= 0

\* One connection, by its stage.
Fits(stage, way, decided, s, late, given) ==
  /\ late => ~given
  /\ stage \in {"away", "receiving", "body"} => s = <<>> /\ ~late /\ ~given
  /\ stage = "body" => way \in Routes
  /\ stage = "generating" =>
       way \in Routes /\ ~late /\ given /\ Prefix(s) /\ (way = "generate" => s = <<>>)
  /\ stage = "answering" =>
       /\ decided # "none"
       /\ decided \in Statuses => s = <<>>
       /\ decided = "done" => Prefix(s)
       /\ decided = "error" => Prefix(s) /\ s # <<>>
       /\ late => decided = "408"
  /\ stage \in {"closing", "closed"} => Whole(s) /\ (late => s \in {<<>>, <<"408">>})

FitsAt(c) == Fits(pc[c], route[c], verdict[c], sent[c], c \in expired, c \in called)

ConnectionInv == \A c \in Connections : FitsAt(c)

IInv == TypeInv /\ SlotInv /\ ConnectionInv

-------------------------------------------------------------------------------
(* What is written                                                            *)

LEMMA ExtendedPrefix ==
  ASSUME NEW s \in Seq(Parts), NEW t \in Seq(Parts)
  PROVE  /\ s \o t \in Seq(Parts) /\ Len(s \o t) = Len(s) + Len(t)
         /\ \A i \in 1..Len(s) : (s \o t)[i] = s[i]
         /\ \A i \in 1..Len(t) : (s \o t)[Len(s) + i] = t[i]
  BY SMTT(30)

LEMMA PartsTyped ==
  /\ \A x \in Parts : <<x>> \in Seq(Parts) /\ <<"headers", x>> \in Seq(Parts)
  /\ <<>> \in Seq(Parts)
  /\ Statuses \subseteq Parts /\ Terminal \subseteq Parts /\ "token" \in Parts
  BY DEF Parts, Statuses, Terminal

\* One part more, at the end of a prefix.
LEMMA OneMore ==
  ASSUME NEW s \in Seq(Parts), NEW x \in Parts, Prefix(s), s # <<>>
  PROVE  /\ x = "token" => Prefix(s \o <<x>>)
         /\ x \in {"token"} \union Terminal => Whole(s \o <<x>>)
         /\ s \o <<x>> # <<>>
<1> DEFINE t == s \o <<x>>
<1>1. Len(s) \in Nat /\ Len(s) > 1 /\ s[1] = "headers" /\ \A i \in 2..Len(s) : s[i] = "token"
  BY DEF Prefix
<1>2. /\ Len(t) = Len(s) + 1
      /\ \A i \in 1..Len(s) : t[i] = s[i]
      /\ t[Len(s) + 1] = x
  BY PartsTyped, ExtendedPrefix
<1> HIDE DEF t
<1>3. QED
  BY <1>1, <1>2 DEF t, Prefix, Whole

LEMMA FirstPart ==
  ASSUME NEW x \in Parts
  PROVE  /\ <<>> \o <<x>> = <<x>> /\ <<>> \o <<"headers", x>> = <<"headers", x>>
         /\ x = "token" => Prefix(<<"headers", x>>)
         /\ x \in {"token"} \union Terminal => Whole(<<"headers", x>>)
         /\ x \in Statuses => Whole(<<x>>)
  BY DEF Prefix, Whole

LEMMA PrefixIsWhole == ASSUME NEW s, Prefix(s), s \in Seq(Parts) PROVE Whole(s)
  BY DEF Prefix, Whole

\* What is to be written next is made of parts.
LEMMA PendingTyped ==
  ASSUME TypeInv, ConnectionInv, NEW c \in Connections,
         pc[c] = "generating" \/ pc[c] = "answering"
  PROVE  /\ Pending(c) \in Seq(Parts)
         /\ \E x \in Parts :
              /\ x = IF pc[c] = "generating" THEN "token" ELSE verdict[c]
              /\ Pending(c) = IF x \in {"token", "done"} /\ sent[c] = <<>> THEN <<"headers", x>> ELSE <<x>>
<1>1. FitsAt(c)
  BY DEF ConnectionInv
<1>2. (IF pc[c] = "generating" THEN "token" ELSE verdict[c]) \in Parts
  BY <1>1, PartsTyped DEF FitsAt, Fits, TypeInv
<1>3. QED
  BY <1>2, PartsTyped DEF Pending, Streaming

\* A first part of what is to be written.
LEMMA CutShort ==
  ASSUME NEW x \in Parts, NEW t, t = <<x>> \/ t = <<"headers", x>>, NEW n \in 0..(Len(t) - 1)
  PROVE  SubSeq(t, 1, n) = <<>> \/ (t = <<"headers", x>> /\ SubSeq(t, 1, n) = <<"headers">>)
<1>1. CASE t = <<x>>
  <2>1. n = 0
    BY <1>1
  <2>2. QED
    BY <1>1, <2>1
<1>2. CASE t = <<"headers", x>>
  <2>1. t \in Seq(Parts) /\ Len(t) = 2 /\ t[1] = "headers" /\ (n = 0 \/ n = 1)
    BY <1>2, PartsTyped
  <2>2. CASE n = 0
    BY <2>1, <2>2
  <2>3. CASE n = 1
    <3>1. SubSeq(t, 1, 1) \in Seq(Parts) /\ Len(SubSeq(t, 1, 1)) = 1 /\ SubSeq(t, 1, 1)[1] = "headers"
      BY <2>1
    <3>2. \A u \in Seq(Parts) : Len(u) = 1 => u = <<u[1]>>
      OBVIOUS
    <3>3. SubSeq(t, 1, 1) = <<"headers">>
      BY <3>1, <3>2
    <3>4. QED
      BY <1>2, <2>3, <3>3
  <2>4. QED
    BY <2>1, <2>2, <2>3
<1>3. QED
  BY <1>1, <1>2

-------------------------------------------------------------------------------
(* Steps                                                                      *)

LEMMA InitInv == Init /\ HttpAssumption => IInv
<1> SUFFICES ASSUME Init, HttpAssumption PROVE IInv
  OBVIOUS
<1>1. TypeInv
  <2>1. sent \in [Connections -> Seq(Parts)]
    BY PartsTyped DEF Init
  <2>2. pc \in [Connections -> Stages] /\ slots \in Int
    BY DEF Init, Stages, HttpAssumption
  <2>3. route \in [Connections -> {"none"} \union Routes]
    BY DEF Init
  <2>4. verdict \in [Connections -> {"none"} \union Statuses \union Terminal]
    BY DEF Init
  <2>5. QED
    BY <2>1, <2>2, <2>3, <2>4 DEF Init, TypeInv
<1>2. OpenConnections = {}
  BY DEF Init, OpenConnections, Open
<1>3. SlotInv
  BY <1>2, FS_EmptySet DEF Init, SlotInv, HttpAssumption
<1>4. ConnectionInv
  BY DEF Init, ConnectionInv, FitsAt, Fits
<1>5. QED
  BY <1>1, <1>3, <1>4 DEF IInv

\* A step of a connection that has another one unchanged keeps that one.
LEMMA OthersFit ==
  ASSUME NEW d, FitsAt(d), pc'[d] = pc[d], route'[d] = route[d], verdict'[d] = verdict[d],
         sent'[d] = sent[d], (d \in expired') = (d \in expired), (d \in called') = (d \in called)
  PROVE  FitsAt(d)'
  BY DEF FitsAt

\* What a step of connection c leaves of the others.
Alone(c) ==
  \A d \in Connections \ {c} :
    /\ pc'[d] = pc[d] /\ route'[d] = route[d] /\ verdict'[d] = verdict[d] /\ sent'[d] = sent[d]
    /\ (d \in expired') = (d \in expired) /\ (d \in called') = (d \in called)

LEMMA OneFits ==
  ASSUME ConnectionInv, NEW c \in Connections, Alone(c), FitsAt(c)'
  PROVE  ConnectionInv'
  BY OthersFit DEF ConnectionInv, Alone

\* The slots, when c opens, stays as it was, or closes.
LEMMA SlotStep ==
  ASSUME HttpAssumption, TypeInv, SlotInv, NEW c \in Connections, Alone(c),
         \/ ~Open(c) /\ Open(c)' /\ slots > 0 /\ slots' = slots - 1
         \/ Open(c) /\ ~Open(c)' /\ slots' = slots + 1
         \/ (Open(c) <=> Open(c)') /\ slots' = slots
  PROVE  SlotInv'
<1>1. IsFiniteSet(OpenConnections)
  BY FS_Subset DEF HttpAssumption, OpenConnections
<1>2. \A d \in Connections \ {c} : Open(d)' <=> Open(d)
  BY DEF Alone, Open
<1>3. Cardinality(OpenConnections) \in Nat /\ MaxConnections \in Nat /\ slots \in Int
  BY <1>1, FS_CardinalityType DEF HttpAssumption, TypeInv
<1>4. CASE ~Open(c) /\ Open(c)' /\ slots > 0 /\ slots' = slots - 1
  <2>1. OpenConnections' = OpenConnections \union {c} /\ c \notin OpenConnections
    BY <1>2, <1>4 DEF OpenConnections
  <2>2. Cardinality(OpenConnections') = Cardinality(OpenConnections) + 1
    BY <1>1, <2>1, FS_AddElement
  <2>3. QED
    BY <1>3, <1>4, <2>2 DEF SlotInv
<1>5. CASE Open(c) /\ ~Open(c)' /\ slots' = slots + 1
  <2>1. OpenConnections' = OpenConnections \ {c} /\ c \in OpenConnections
    BY <1>2, <1>5 DEF OpenConnections
  <2>2. Cardinality(OpenConnections') = Cardinality(OpenConnections) - 1
    BY <1>1, <2>1, FS_RemoveElement
  <2>3. QED
    BY <1>3, <1>5, <2>2 DEF SlotInv
<1>6. CASE (Open(c) <=> Open(c)') /\ slots' = slots
  <2>1. OpenConnections' = OpenConnections
    BY <1>2, <1>6 DEF OpenConnections
  <2>2. QED
    BY <1>6, <2>1 DEF SlotInv
<1>7. QED
  BY <1>4, <1>5, <1>6

\* The steps of one connection.
StepOf(c) == Accept(c) \/ Refuse(c) \/ NoThread(c) \/ Handle(c)

LEMMA ConnectionStep ==
  ASSUME HttpAssumption, IInv, NEW c \in Connections, StepOf(c)
  PROVE  IInv'
<1> USE DEF Goto, Write, Decide, Leave, TooLate, connection, process
<1>0. TypeInv /\ SlotInv /\ ConnectionInv /\ FitsAt(c)
  BY DEF IInv, ConnectionInv
<1>1. CASE Accept(c)
  <2>1. TypeInv'
    BY <1>0, <1>1, PartsTyped DEF Accept, TypeInv, Stages, Statuses, Terminal
  <2>2. Alone(c)
    BY <1>0, <1>1 DEF Accept, Alone, TypeInv
  <2>3. FitsAt(c)'
    BY <1>0, <1>1, PrefixIsWhole DEF Accept, FitsAt, Fits, TypeInv, Statuses, Streaming, Whole
  <2>4. SlotInv'
    BY <1>0, <1>1, <2>2, SlotStep DEF Accept, Open, TypeInv
  <2>5. QED
    BY <1>0, <2>1, <2>2, <2>3, <2>4, OneFits DEF IInv
<1>2. CASE NoThread(c)
  <2>1. TypeInv'
    BY <1>0, <1>2, PartsTyped DEF NoThread, TypeInv, Stages, Statuses, Terminal
  <2>2. Alone(c)
    BY <1>0, <1>2 DEF NoThread, Alone, TypeInv
  <2>3. FitsAt(c)'
    BY <1>0, <1>2, PrefixIsWhole DEF NoThread, FitsAt, Fits, TypeInv, Statuses, Streaming, Whole
  <2>4. SlotInv'
    BY <1>0, <1>2, <2>2, SlotStep DEF NoThread, Open, TypeInv
  <2>5. QED
    BY <1>0, <2>1, <2>2, <2>3, <2>4, OneFits DEF IInv
<1>3. CASE Expire(c)
  <2>1. TypeInv'
    BY <1>0, <1>3, PartsTyped DEF Expire, TypeInv, Stages, Statuses, Terminal
  <2>2. Alone(c)
    BY <1>0, <1>3 DEF Expire, Alone, TypeInv
  <2>3. FitsAt(c)'
    BY <1>0, <1>3, PrefixIsWhole DEF Expire, FitsAt, Fits, TypeInv, Statuses, Streaming, Whole
  <2>4. SlotInv'
    BY <1>0, <1>3, <2>2, SlotStep DEF Expire, Open, TypeInv
  <2>5. QED
    BY <1>0, <2>1, <2>2, <2>3, <2>4, OneFits DEF IInv
<1>4. CASE Vanish(c)
  <2>1. TypeInv'
    BY <1>0, <1>4, PartsTyped DEF Vanish, TypeInv, Stages, Statuses, Terminal
  <2>2. Alone(c)
    BY <1>0, <1>4 DEF Vanish, Alone, TypeInv
  <2>3. FitsAt(c)'
    BY <1>0, <1>4, PrefixIsWhole DEF Vanish, FitsAt, Fits, TypeInv, Statuses, Streaming, Whole
  <2>4. SlotInv'
    BY <1>0, <1>4, <2>2, SlotStep DEF Vanish, Open, TypeInv
  <2>5. QED
    BY <1>0, <2>1, <2>2, <2>3, <2>4, OneFits DEF IInv
<1>5. CASE Get(c)
  <2>1. TypeInv'
    BY <1>0, <1>5, PartsTyped DEF Get, TypeInv, Stages, Statuses, Terminal
  <2>2. Alone(c)
    BY <1>0, <1>5 DEF Get, Alone, TypeInv
  <2>3. FitsAt(c)'
    BY <1>0, <1>5, PrefixIsWhole DEF Get, FitsAt, Fits, TypeInv, Statuses, Streaming, Whole
  <2>4. SlotInv'
    BY <1>0, <1>5, <2>2, SlotStep DEF Get, Open, TypeInv
  <2>5. QED
    BY <1>0, <2>1, <2>2, <2>3, <2>4, OneFits DEF IInv
<1>6. CASE Malformed(c)
  <2>1. TypeInv'
    BY <1>0, <1>6, PartsTyped DEF Malformed, TypeInv, Stages, Statuses, Terminal
  <2>2. Alone(c)
    BY <1>0, <1>6 DEF Malformed, Alone, TypeInv
  <2>3. FitsAt(c)'
    BY <1>0, <1>6, PrefixIsWhole DEF Malformed, FitsAt, Fits, TypeInv, Statuses, Streaming, Whole
  <2>4. SlotInv'
    BY <1>0, <1>6, <2>2, SlotStep DEF Malformed, Open, TypeInv
  <2>5. QED
    BY <1>0, <2>1, <2>2, <2>3, <2>4, OneFits DEF IInv
<1>7. CASE Body(c)
  <2>1. TypeInv'
    BY <1>0, <1>7, PartsTyped DEF Body, TypeInv, Stages, Statuses, Terminal
  <2>2. Alone(c)
    BY <1>0, <1>7 DEF Body, Alone, TypeInv
  <2>3. FitsAt(c)'
    BY <1>0, <1>7, PrefixIsWhole DEF Body, FitsAt, Fits, TypeInv, Statuses, Routes, Prefix
  <2>4. SlotInv'
    BY <1>0, <1>7, <2>2, SlotStep DEF Body, Open, TypeInv
  <2>5. QED
    BY <1>0, <2>1, <2>2, <2>3, <2>4, OneFits DEF IInv
<1>8. CASE Return(c)
  <2>1. TypeInv'
    BY <1>0, <1>8, PartsTyped DEF Return, TypeInv, Stages, Statuses, Terminal
  <2>2. Alone(c)
    BY <1>0, <1>8 DEF Return, Alone, TypeInv
  <2>3. FitsAt(c)'
    BY <1>0, <1>8, PrefixIsWhole DEF Return, FitsAt, Fits, TypeInv, Statuses, Routes, Prefix
  <2>4. SlotInv'
    BY <1>0, <1>8, <2>2, SlotStep DEF Return, Open, TypeInv
  <2>5. QED
    BY <1>0, <2>1, <2>2, <2>3, <2>4, OneFits DEF IInv
<1>9. CASE Reject(c)
  <2>1. TypeInv'
    BY <1>0, <1>9, PartsTyped DEF Reject, TypeInv, Stages, Statuses, Terminal
  <2>2. Alone(c)
    BY <1>0, <1>9 DEF Reject, Alone, TypeInv
  <2>3. FitsAt(c)'
    BY <1>0, <1>9, PrefixIsWhole DEF Reject, FitsAt, Fits, TypeInv, Statuses, Streaming, Whole
  <2>4. SlotInv'
    BY <1>0, <1>9, <2>2, SlotStep DEF Reject, Open, TypeInv
  <2>5. QED
    BY <1>0, <2>1, <2>2, <2>3, <2>4, OneFits DEF IInv
<1>10. CASE Raise(c)
  <2>1. TypeInv'
    BY <1>0, <1>10, PartsTyped DEF Raise, TypeInv, Stages, Statuses, Terminal
  <2>2. Alone(c)
    BY <1>0, <1>10 DEF Raise, Alone, TypeInv
  <2>3. FitsAt(c)'
    BY <1>0, <1>10, PrefixIsWhole DEF Raise, FitsAt, Fits, TypeInv, Statuses, Streaming, Whole
  <2>4. SlotInv'
    BY <1>0, <1>10, <2>2, SlotStep DEF Raise, Open, TypeInv
  <2>5. QED
    BY <1>0, <2>1, <2>2, <2>3, <2>4, OneFits DEF IInv
<1>11. CASE Close(c)
  <2>1. TypeInv'
    BY <1>0, <1>11, PartsTyped DEF Close, TypeInv, Stages, Statuses, Terminal
  <2>2. Alone(c)
    BY <1>0, <1>11 DEF Close, Alone, TypeInv
  <2>3. FitsAt(c)'
    BY <1>0, <1>11, PrefixIsWhole DEF Close, FitsAt, Fits, TypeInv, Statuses, Streaming, Whole
  <2>4. SlotInv'
    BY <1>0, <1>11, <2>2, SlotStep DEF Close, Open, TypeInv
  <2>5. QED
    BY <1>0, <2>1, <2>2, <2>3, <2>4, OneFits DEF IInv
<1>12. CASE \E r \in Routes : Post(c, r)
  <2>1. TypeInv'
    BY <1>0, <1>12, PartsTyped DEF Post, TypeInv, Stages, Routes
  <2>2. Alone(c)
    BY <1>0, <1>12 DEF Post, Alone, TypeInv
  <2>3. FitsAt(c)'
    BY <1>0, <1>12 DEF Post, FitsAt, Fits, TypeInv
  <2>4. SlotInv'
    BY <1>0, <1>12, <2>2, SlotStep DEF Post, Open, TypeInv
  <2>5. QED
    BY <1>0, <2>1, <2>2, <2>3, <2>4, OneFits DEF IInv
<1>13. CASE Refuse(c)
  <2>0. PICK written \in {<<>>, <<"5xx">>} : Write(c, written)
    BY <1>13 DEF Refuse
  <2>1. sent[c] = <<>> /\ sent'[c] = written /\ written \in Seq(Parts)
    BY <1>0, <1>13, <2>0, PartsTyped, FirstPart DEF Refuse, FitsAt, Fits, TypeInv, Statuses
  <2>2. TypeInv'
    BY <1>0, <1>13, <2>0, <2>1 DEF Refuse, TypeInv, Stages
  <2>3. Alone(c)
    BY <1>0, <1>13, <2>0 DEF Refuse, Alone, TypeInv
  <2>4. Whole(written)
    BY PartsTyped, FirstPart DEF Whole, Statuses
  <2>5. FitsAt(c)'
    BY <1>0, <1>13, <2>1, <2>4 DEF Refuse, FitsAt, Fits, TypeInv
  <2>6. SlotInv'
    BY <1>0, <1>13, <2>3, SlotStep DEF Refuse, Open, TypeInv
  <2>7. QED
    BY <1>0, <2>2, <2>3, <2>5, <2>6, OneFits DEF IInv
<1>14. CASE Token(c)
  <2>0. /\ pc[c] = "generating" \/ pc[c] = "answering"
        /\ sent[c] \in Seq(Parts) /\ sent \in [Connections -> Seq(Parts)]
    BY <1>0, <1>14 DEF Token, TypeInv
  <2>1. PICK x \in Parts :
          /\ x = IF pc[c] = "generating" THEN "token" ELSE verdict[c]
          /\ Pending(c) = IF x \in {"token", "done"} /\ sent[c] = <<>> THEN <<"headers", x>> ELSE <<x>>
    BY <1>0, <2>0, PendingTyped
  <2>2. sent' = [sent EXCEPT ![c] = sent[c] \o Pending(c)]
    BY <1>14 DEF Token
  <2>3. sent'[c] = sent[c] \o Pending(c) /\ sent'[c] \in Seq(Parts)
    BY <1>0, <2>0, <2>2, PendingTyped, ExtendedPrefix
  <2>4. Prefix(sent'[c])
    <3>1. CASE sent[c] = <<>>
      BY <1>14, <2>1, <2>3, <3>1, FirstPart DEF Token
    <3>2. CASE sent[c] # <<>>
      <4>1. Prefix(sent[c]) /\ x = "token"
        BY <1>0, <1>14, <2>1 DEF Token, FitsAt, Fits
      <4>2. QED
        BY <2>0, <2>1, <2>3, <3>2, <4>1, OneMore
    <3>3. QED
      BY <3>1, <3>2
  <2>5. TypeInv'
    BY <1>0, <1>14, <2>2, <2>3 DEF Token, TypeInv, Stages
  <2>6. Alone(c)
    BY <1>0, <1>14, <2>2 DEF Token, Alone, TypeInv
  <2>7. FitsAt(c)'
    BY <1>0, <1>14, <2>4 DEF Token, FitsAt, Fits, TypeInv, Routes
  <2>8. SlotInv'
    BY <1>0, <1>14, <2>6, SlotStep DEF Token, Open, TypeInv
  <2>9. QED
    BY <1>0, <2>5, <2>6, <2>7, <2>8, OneFits DEF IInv
<1>15. CASE Answer(c)
  <2>0. /\ pc[c] = "generating" \/ pc[c] = "answering"
        /\ sent[c] \in Seq(Parts) /\ sent \in [Connections -> Seq(Parts)]
    BY <1>0, <1>15 DEF Answer, TypeInv
  <2>1. PICK x \in Parts :
          /\ x = IF pc[c] = "generating" THEN "token" ELSE verdict[c]
          /\ Pending(c) = IF x \in {"token", "done"} /\ sent[c] = <<>> THEN <<"headers", x>> ELSE <<x>>
    BY <1>0, <2>0, PendingTyped
  <2>2. sent' = [sent EXCEPT ![c] = sent[c] \o Pending(c)]
    BY <1>15 DEF Answer
  <2>3. sent'[c] = sent[c] \o Pending(c) /\ sent'[c] \in Seq(Parts)
    BY <1>0, <2>0, <2>2, PendingTyped, ExtendedPrefix
  <2>4. Whole(sent'[c]) /\ (c \in expired => sent'[c] = <<"408">>)
    <3>0. /\ x = verdict[c] /\ x # "none"
          /\ x \in Statuses => sent[c] = <<>>
          /\ x = "done" => Prefix(sent[c])
          /\ x = "error" => Prefix(sent[c]) /\ sent[c] # <<>>
          /\ c \in expired => x = "408"
          /\ x \in Statuses \union Terminal
      BY <1>0, <1>15, <2>1 DEF Answer, FitsAt, Fits, TypeInv
    <3>1. CASE x \in Statuses
      <4>1. Pending(c) = <<x>> /\ sent'[c] = <<x>>
        BY <2>1, <2>3, <3>0, <3>1, FirstPart DEF Statuses
      <4>2. QED
        BY <3>0, <3>1, <4>1, FirstPart
    <3>2. CASE x \in Terminal
      <4>1. c \notin expired /\ Prefix(sent[c])
        BY <3>0, <3>2 DEF Terminal
      <4>2. CASE sent[c] = <<>>
        <5>1. x = "done" /\ sent'[c] = <<"headers", x>>
          BY <2>1, <2>3, <3>0, <3>2, <4>2, FirstPart DEF Terminal
        <5>2. QED
          BY <3>2, <4>1, <5>1, FirstPart
      <4>3. CASE sent[c] # <<>>
        <5>1. sent'[c] = sent[c] \o <<x>>
          BY <2>1, <2>3, <4>3
        <5>2. QED
          BY <2>0, <3>2, <4>1, <4>3, <5>1, OneMore
      <4>4. QED
        BY <4>2, <4>3
    <3>3. QED
      BY <3>0, <3>1, <3>2
  <2>5. TypeInv'
    BY <1>0, <1>15, <2>2, <2>3 DEF Answer, TypeInv, Stages
  <2>6. Alone(c)
    BY <1>0, <1>15, <2>2 DEF Answer, Alone, TypeInv
  <2>7. FitsAt(c)'
    BY <1>0, <1>15, <2>4 DEF Answer, FitsAt, Fits, TypeInv
  <2>8. SlotInv'
    BY <1>0, <1>15, <2>6, SlotStep DEF Answer, Open, TypeInv
  <2>9. QED
    BY <1>0, <2>5, <2>6, <2>7, <2>8, OneFits DEF IInv
<1>16. CASE WriteFails(c)
  <2>0. /\ pc[c] = "generating" \/ pc[c] = "answering"
        /\ sent[c] \in Seq(Parts) /\ sent \in [Connections -> Seq(Parts)]
    BY <1>0, <1>16 DEF WriteFails, TypeInv
  <2>1. PICK x \in Parts :
          /\ x = IF pc[c] = "generating" THEN "token" ELSE verdict[c]
          /\ Pending(c) = IF x \in {"token", "done"} /\ sent[c] = <<>> THEN <<"headers", x>> ELSE <<x>>
    BY <1>0, <2>0, PendingTyped
  <2>2. PICK n \in 0..(Len(Pending(c)) - 1) :
          sent' = [sent EXCEPT ![c] = sent[c] \o SubSeq(Pending(c), 1, n)]
    BY <1>16 DEF WriteFails
  <2>3. \/ sent'[c] = sent[c]
        \/ sent[c] = <<>> /\ x \in {"token", "done"} /\ sent'[c] = <<"headers">>
    <3>1. \/ SubSeq(Pending(c), 1, n) = <<>>
          \/ Pending(c) = <<"headers", x>> /\ SubSeq(Pending(c), 1, n) = <<"headers">>
      BY <2>1, <2>2, CutShort
    <3>2. CASE SubSeq(Pending(c), 1, n) = <<>>
      BY <2>0, <2>2, <3>2, ConcatEmptySeq
    <3>3. CASE Pending(c) = <<"headers", x>> /\ SubSeq(Pending(c), 1, n) = <<"headers">>
      <4>1. sent[c] = <<>> /\ x \in {"token", "done"}
        BY <2>1, <3>3
      <4>2. QED
        BY <2>0, <2>2, <3>3, <4>1
    <3>4. QED
      BY <3>1, <3>2, <3>3
  <2>4. /\ Whole(sent'[c]) /\ sent'[c] \in Seq(Parts)
        /\ c \in expired => sent'[c] = <<>>
    <3>1. Prefix(sent[c]) /\ (c \in expired => sent[c] = <<>> /\ x = "408")
      BY <1>0, <2>0, <2>1, <1>16 DEF WriteFails, FitsAt, Fits, TypeInv, Terminal, Prefix
    <3>2. <<"headers">> \in Seq(Parts) /\ Whole(<<"headers">>)
      BY DEF Parts, Whole
    <3>3. QED
      BY <2>0, <2>3, <3>1, <3>2, PrefixIsWhole
  <2>5. TypeInv'
    BY <1>0, <1>16, <2>2, <2>4 DEF WriteFails, TypeInv, Stages
  <2>6. Alone(c)
    BY <1>0, <1>16, <2>2 DEF WriteFails, Alone, TypeInv
  <2>7. FitsAt(c)'
    BY <1>0, <1>16, <2>4 DEF WriteFails, FitsAt, Fits, TypeInv
  <2>8. SlotInv'
    BY <1>0, <1>16, <2>6, SlotStep DEF WriteFails, Open, TypeInv
  <2>9. QED
    BY <1>0, <2>5, <2>6, <2>7, <2>8, OneFits DEF IInv
<1>17. QED
  BY <1>1, <1>2, <1>3, <1>4, <1>5, <1>6, <1>7, <1>8, <1>9, <1>10, <1>11, <1>12, <1>13, <1>14, <1>15, <1>16 DEF StepOf, Handle

\* The timer, the loop and the main thread touch no connection.
LEMMA ProcessStep ==
  ASSUME IInv, Start \/ Fire \/ LeaveLoop(TRUE) \/ Stop \/ UNCHANGED vars
  PROVE  IInv'
<1>1. UNCHANGED connection
  BY DEF Start, Listen, FailStart, Fire, LeaveLoop, Stop, Shutdown, Stopped, Drained, Exit, vars
<1>2. TypeInv'
  BY <1>1 DEF IInv, TypeInv, connection, Start, Listen, FailStart, Fire, LeaveLoop, Stop, Shutdown, Stopped, Drained, Exit, vars, process
<1>3. SlotInv'
  <2>1. OpenConnections' = OpenConnections
    BY <1>1 DEF OpenConnections, Open, connection
  <2>2. QED
    BY <1>1, <2>1 DEF IInv, SlotInv, connection
<1>4. ConnectionInv'
  BY <1>1 DEF IInv, ConnectionInv, FitsAt, connection
<1>5. QED
  BY <1>2, <1>3, <1>4 DEF IInv

LEMMA Inductive == ASSUME HttpAssumption, IInv, [Next]_vars PROVE IInv'
  BY ConnectionStep, ProcessStep DEF Next, StepOf

-------------------------------------------------------------------------------
(* Theorems                                                                   *)

THEOREM Invariant == Spec => []IInv
<1>1. Init => IInv
  BY InitInv, HttpAssumption
<1>2. IInv /\ [Next]_vars => IInv'
  BY Inductive, HttpAssumption
<1>3. QED
  BY <1>1, <1>2, PTL DEF Spec

\* SlotsConserved: BoundedHTTPServer's semaphore counts the open connections,
\* whatever peers, deadlines, failing threads and the service do.
THEOREM SlotsComeBack == Spec => []SlotsConserved
<1>1. IInv => SlotsConserved
  BY DEF IInv, SlotInv, SlotsConserved, OpenConnections
<1>2. QED
  BY <1>1, Invariant, PTL

\* OneAnswer: the handler answers a connection once and whole, for any number of
\* tokens, and never gives the service a request whose input it gave up.
THEOREM AnswersOnce == Spec => []OneAnswer
<1>1. ASSUME IInv, NEW c \in Connections
      PROVE  /\ Whole(sent[c])
             /\ c \in expired => c \notin called /\ sent[c] \in {<<>>, <<"408">>}
  <2>1. FitsAt(c) /\ sent[c] \in Seq(Parts)
        /\ pc[c] \in Stages /\ verdict[c] \in {"none"} \union Statuses \union Terminal
    BY <1>1 DEF IInv, ConnectionInv, TypeInv
  <2>2. CASE pc[c] = "answering"
    BY <2>1, <2>2, PrefixIsWhole DEF FitsAt, Fits, Whole, Terminal, Statuses
  <2>3. CASE pc[c] # "answering"
    BY <2>1, <2>3, PrefixIsWhole DEF FitsAt, Fits, Whole, Stages
  <2>4. QED
    BY <2>2, <2>3
<1>2. IInv => OneAnswer
  BY <1>1 DEF OneAnswer, Whole
<1>3. QED
  BY <1>2, Invariant, PTL

\* TypeOK: every variable keeps its type; in particular no slot is given back
\* that was not taken.
THEOREM TypeCorrect == Spec => []TypeOK
<1>1. ASSUME IInv, HttpAssumption PROVE TypeOK
  <2>1. Cardinality(OpenConnections) \in Nat
    BY <1>1, FS_Subset, FS_CardinalityType DEF HttpAssumption, OpenConnections
  <2>2. slots \in 0..MaxConnections
    BY <1>1, <2>1 DEF IInv, SlotInv, TypeInv, HttpAssumption
  <2>3. QED
    BY <1>1, <2>2 DEF IInv, TypeInv, TypeOK
<1>2. QED
  BY <1>1, HttpAssumption, Invariant, PTL

===============================================================================
