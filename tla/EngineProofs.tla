---------------------------- MODULE EngineProofs ----------------------------
(***************************************************************************)
(* Theorems about Engine.tla, for any servers, tools and number of         *)
(* function calls in a turn.                                               *)
(***************************************************************************)
EXTENDS Engine, FiniteSetTheorems, SequenceTheorems, TLAPS

-----------------------------------------------------------------------------
(***************************************************************************)
(* Sequences.                                                              *)
(***************************************************************************)
LEMMA BoundedSequences ==
    ASSUME NEW S, NEW n \in Nat
    PROVE  SeqOf(S, n) = {q \in Seq(S) : Len(q) <= n}
<1>1. ASSUME NEW q \in SeqOf(S, n)
      PROVE  q \in Seq(S) /\ Len(q) <= n
  <2>1. PICK m \in 0 .. n : q \in [1 .. m -> S]
    BY DEF SeqOf
  <2>2. q \in Seq(S) /\ Len(q) = m
    BY <2>1
  <2> QED BY <2>2
<1>2. ASSUME NEW q \in Seq(S), Len(q) <= n
      PROVE  q \in SeqOf(S, n)
  <2>1. Len(q) \in 0 .. n /\ q \in [1 .. Len(q) -> S]
    BY <1>2, LenProperties
  <2> QED BY <2>1 DEF SeqOf
<1> QED BY <1>1, <1>2

\* The order in which the tools of a server are declared.
LEMMA Listing ==
    ASSUME NEW S, IsFiniteSet(S)
    PROVE  SetToSeq(S) \in Seq(S)
<1> DEFINE n == Cardinality(S)
<1>1. n \in Nat /\ ExistsBijection(1 .. n, S)
  BY FS_CardinalityType
<1>2. PICK f \in [1 .. n -> S] : IsInjective(f)
  BY <1>1 DEF ExistsBijection, Bijection, Injection, IsInjective
<1>3. SetToSeq(S) \in [1 .. n -> S]
  BY <1>2, Zenon DEF SetToSeq
<1> QED BY <1>1, <1>3, IsASeq

LEMMA CallLists ==
    ASSUME NEW q \in SeqOf(Tools, MaxCalls)
    PROVE  q \in Seq(Tools) /\ Len(q) \in 0 .. MaxCalls
BY BoundedSequences, MaxCallsAssumption

LEMMA ShorterList ==
    ASSUME NEW S, NEW n \in Nat, NEW q \in SeqOf(S, n), q # <<>>
    PROVE  /\ Head(q) \in S /\ Tail(q) \in SeqOf(S, n)
           /\ Len(Tail(q)) = Len(q) - 1
<1>1. q \in Seq(S) /\ Len(q) <= n
  BY BoundedSequences
<1>2. Head(q) \in S /\ Tail(q) \in Seq(S) /\ Len(Tail(q)) = Len(q) - 1
  BY <1>1, HeadTailProperties
<1>3. Len(q) \in Nat /\ Len(Tail(q)) <= n
  BY <1>1, <1>2, LenProperties
<1>4. SeqOf(S, n) = {r \in Seq(S) : Len(r) <= n}
  BY BoundedSequences
<1> QED BY <1>2, <1>3, <1>4

-----------------------------------------------------------------------------
(***************************************************************************)
(* Type correctness.                                                       *)
(***************************************************************************)
\* The phases of a request.  A round whose calls are being served is not over
\* (so the counter cannot pass MaxRounds), nothing is left to serve outside of
\* it, and the model is first asked after the last server; the clean-up knows
\* every session that is open.
PhasesOK ==
    /\ pc = "serve" => round < MaxRounds
    /\ pc # "serve" => calls = <<>>
    /\ pc = "connect" => round = 0
    /\ open \subseteq sessions

IInv == TypeOK /\ PhasesOK

LEMMA InitIInv == Init => IInv
<1> SUFFICES ASSUME Init PROVE IInv
  OBVIOUS
<1>1. <<>> \in SeqOf(Tools, MaxCalls)
  <2>1. <<>> \in Seq(Tools) /\ Len(<<>>) = 0 /\ 0 <= MaxCalls
    BY EmptySeq, MaxCallsAssumption
  <2>2. SeqOf(Tools, MaxCalls) = {q \in Seq(Tools) : Len(q) <= MaxCalls}
    BY BoundedSequences, MaxCallsAssumption
  <2> QED BY <2>1, <2>2
<1>2. Servers \in SeqOf(Range(Servers), Len(Servers))
  BY ServersAssumption, BoundedSequences, LenProperties
<1>3. TypeOK
  BY <1>1, <1>2 DEF Init, TypeOK, MaxRounds
<1>4. PhasesOK
  BY DEF Init, PhasesOK
<1> QED BY <1>3, <1>4 DEF IInv

\* One server is dealt with.
LEMMA ServerPassed ==
    ASSUME TypeOK, NextServer
    PROVE  /\ Head(left) \in Range(Servers)
           /\ left' \in SeqOf(Range(Servers), Len(Servers))
<1>1. Len(Servers) \in Nat
  BY ServersAssumption, LenProperties
<1> QED BY <1>1, ShorterList DEF TypeOK, NextServer

LEMMA ConnectIInv ==
    ASSUME IInv, ConnectFails \/ ListToolsFails \/ ListTools \/ Connected
    PROVE  IInv'
<1>1. CASE Connected
  BY <1>1 DEF Connected, LoopUnchanged, IInv, TypeOK, PhasesOK, Turns, Turn, Response
<1>2. CASE ConnectFails
  BY <1>2, ServerPassed
     DEF ConnectFails, NextServer, LoopUnchanged, IInv, TypeOK, PhasesOK, Turns, Turn, Response
<1>3. CASE ListToolsFails
  BY <1>3, ServerPassed
     DEF ListToolsFails, NextServer, OpenSession, LoopUnchanged, IInv, TypeOK, PhasesOK, Turns, Turn, Response
<1>4. CASE ListTools
  <2> DEFINE known == {t \in Tools : toolMap[t] # None}
             listed == Offered[Head(left)]
  <2>1. /\ Head(left) \in Range(Servers) /\ Head(left) # None
        /\ left' \in SeqOf(Range(Servers), Len(Servers))
    BY <1>4, ServerPassed, NoneAssumption DEF ListTools, IInv
  <2>2. listed \subseteq Tools /\ SetToSeq(listed) \in Seq(listed)
    BY <2>1, OfferedAssumption, Listing
  <2>3. /\ sessions' \subseteq Range(Servers) /\ open' \subseteq sessions'
        /\ open' \subseteq Range(Servers)
        /\ Head(left) \in sessions' /\ sessions \subseteq sessions'
    BY <1>4, <2>1 DEF ListTools, OpenSession, IInv, TypeOK, PhasesOK
  <2>4. toolMap' \in [Tools -> sessions' \cup {None}] /\ known' = known \cup listed
    BY <1>4, <2>1, <2>2, <2>3 DEF ListTools, IInv, TypeOK
  <2>5. decls' \in Seq(known')
    <3>1. decls \in Seq(known') /\ SetToSeq(listed) \in Seq(known')
      BY <2>2, <2>4, SeqMonotonic DEF IInv, TypeOK
    <3>2. decls' = decls \o SetToSeq(listed)
      BY <1>4 DEF ListTools
    <3> QED BY <3>1, <3>2, ConcatProperties
  <2>6. TypeOK'
    BY <1>4, <2>1, <2>3, <2>4, <2>5
       DEF ListTools, NextServer, LoopUnchanged, IInv, TypeOK, Turns, Turn, Response
  <2>7. PhasesOK'
    BY <1>4, <2>3 DEF ListTools, NextServer, LoopUnchanged, IInv, PhasesOK
  <2> QED BY <2>6, <2>7 DEF IInv
<1> QED BY <1>1, <1>2, <1>3, <1>4

LEMMA AskIInv ==
    ASSUME IInv, AskCalls \/ AskText \/ AskFails \/ OutOfRounds
    PROVE  IInv'
<1>1. ASSUME NEW result \in {"answer", "error"}, pc = "ask", Return(result)
      PROVE  IInv'
  BY <1>1, NoneAssumption DEF Return, IInv, TypeOK, PhasesOK, Turns, Turn, Response
<1>2. CASE AskCalls
  <2>1. PICK names \in SeqOf(Tools, MaxCalls) \ {<<>>} :
          /\ calls' = names
          /\ contents' = Append(contents, Turn(names))
    BY <1>2 DEF AskCalls
  <2> DEFINE messages == Turns \cup {Response(t) : t \in Tools}
  <2>2. contents \in Seq(messages) /\ Turn(names) \in messages
    BY DEF IInv, TypeOK, Turns
  <2> HIDE DEF messages
  <2>3. contents' \in Seq(messages)
    BY <2>1, <2>2, AppendProperties
  <2> USE DEF messages
  <2>4. TypeOK'
    BY <1>2, <2>1, <2>3
       DEF AskCalls, ConnectionsUnchanged, IInv, TypeOK, Turns, Turn, Response
  <2>5. PhasesOK'
    BY <1>2, <2>1 DEF AskCalls, ConnectionsUnchanged, IInv, PhasesOK
  <2> QED BY <2>4, <2>5 DEF IInv
<1>3. CASE AskText \/ AskFails \/ OutOfRounds
  BY <1>1, <1>3 DEF AskText, AskFails, OutOfRounds
<1> QED BY <1>2, <1>3

\* A call is answered: the conversation is longer, and one less is left.
LEMMA ServeIInv ==
    ASSUME IInv, CallDone, contents' = Append(contents, Response(Head(calls)))
    PROVE  IInv'
<1> DEFINE messages == Turns \cup {Response(t) : t \in Tools}
<1>1. Head(calls) \in Tools /\ Tail(calls) \in SeqOf(Tools, MaxCalls)
  BY ShorterList, MaxCallsAssumption DEF CallDone, IInv, TypeOK
<1>2. contents \in Seq(messages) /\ Response(Head(calls)) \in messages
  BY <1>1 DEF IInv, TypeOK
<1> HIDE DEF messages
<1>3. contents' \in Seq(messages)
  BY <1>2, AppendProperties
<1> USE DEF messages
<1>4. round < MaxRounds /\ round \in 0 .. MaxRounds /\ pc = "serve"
  BY DEF CallDone, IInv, TypeOK, PhasesOK
<1>5. TypeOK'
  BY <1>1, <1>3, <1>4
     DEF CallDone, ConnectionsUnchanged, IInv, TypeOK, Turns, Turn, Response, MaxRounds
<1>6. PhasesOK'
  BY <1>4 DEF CallDone, ConnectionsUnchanged, IInv, PhasesOK
<1> QED BY <1>5, <1>6 DEF IInv

LEMMA NextIInv == IInv /\ [Next]_vars => IInv'
<1> SUFFICES ASSUME IInv, [Next]_vars
             PROVE  IInv'
  OBVIOUS
<1>1. CASE UNCHANGED vars
  BY <1>1 DEF vars, IInv, TypeOK, PhasesOK, Turns, Turn, Response
<1> QED BY <1>1, ConnectIInv, AskIInv, ServeIInv DEF Next, Execute, ExecuteFails

THEOREM Inductive == Spec => []IInv
BY InitIInv, NextIInv, PTL DEF Spec

\* The state of a request keeps its shape, whatever the model and the servers
\* do: the model is called at most MaxRounds times, and a tool that is declared
\* to it is executed by a server whose session the clean-up will close.
THEOREM TypeCorrect == Spec => []TypeOK
<1>1. IInv => TypeOK
  BY DEF IInv
<1> QED BY <1>1, Inductive, PTL

-----------------------------------------------------------------------------
(***************************************************************************)
(* Every function call has its response.                                   *)
(***************************************************************************)
\* The conversation as it will be once the calls of the last turn are
\* executed.  Executing one leaves it as it is: that is why the responses
\* come in the order of the calls.
Due(q) == [k \in 1 .. Len(q) |-> Response(q[k])]

Conversation == contents \o Due(calls)

\* AllCallsAnswered says nothing while calls are being served; this does.
AnswersDue ==
    \A i \in DOMAIN contents :
        contents[i].role = "model" =>
            \A k \in DOMAIN contents[i].names :
                /\ i + k \in DOMAIN Conversation
                /\ Conversation[i + k] = Response(contents[i].names[k])

Messages == Turns \cup {Response(t) : t \in Tools}

LEMMA MessageTypes ==
    ASSUME TypeOK
    PROVE  /\ contents \in Seq(Messages) /\ calls \in Seq(Tools)
           /\ Len(contents) \in Nat /\ Len(calls) \in Nat
           /\ DOMAIN contents = 1 .. Len(contents)
BY CallLists, LenProperties DEF TypeOK, Messages

LEMMA ConversationFacts ==
    ASSUME NEW c \in Seq(Messages), NEW q \in Seq(Tools)
    PROVE  /\ DOMAIN (c \o Due(q)) = 1 .. Len(c) + Len(q)
           /\ \A i \in 1 .. Len(c) : (c \o Due(q))[i] = c[i]
           /\ \A k \in 1 .. Len(q) : (c \o Due(q))[Len(c) + k] = Response(q[k])
<1>1. /\ Due(q) \in Seq(Messages) /\ Len(Due(q)) = Len(q)
      /\ \A k \in 1 .. Len(q) : Due(q)[k] = Response(q[k])
      /\ Len(c) \in Nat /\ Len(q) \in Nat
  <2>1. Len(c) \in Nat /\ Len(q) \in Nat /\ q \in [1 .. Len(q) -> Tools]
    BY LenProperties
  <2>2. Due(q) \in [1 .. Len(q) -> Messages]
    BY <2>1 DEF Due, Messages
  <2>3. \A k \in 1 .. Len(q) : Due(q)[k] = Response(q[k])
    BY DEF Due
  <2> QED BY <2>1, <2>2, <2>3
<1> HIDE DEF Due
<1> DEFINE r == c \o Due(q)
<1>2. /\ r \in Seq(Messages) /\ Len(r) = Len(c) + Len(q)
      /\ \A i \in 1 .. Len(c) + Len(q) :
            r[i] = IF i <= Len(c) THEN c[i] ELSE Due(q)[i - Len(c)]
  <2>1. /\ r \in Seq(Messages) /\ Len(r) = Len(c) + Len(Due(q))
        /\ \A i \in 1 .. Len(c) + Len(Due(q)) :
              r[i] = IF i <= Len(c) THEN c[i] ELSE Due(q)[i - Len(c)]
    BY <1>1, ConcatProperties, Zenon
  <2> QED BY <1>1, <2>1, Zenon
<1>3. DOMAIN r = 1 .. Len(c) + Len(q)
  BY <1>2, LenProperties
<1> HIDE DEF r
<1>4. ASSUME NEW k \in 1 .. Len(q) PROVE r[Len(c) + k] = Response(q[k])
  <2>1. /\ Len(c) + k \in 1 .. Len(c) + Len(q) /\ ~(Len(c) + k <= Len(c))
        /\ Len(c) + k - Len(c) = k
    BY <1>1
  <2> QED BY <1>1, <1>2, <2>1
<1>5. ASSUME NEW i \in 1 .. Len(c) PROVE r[i] = c[i]
  BY <1>1, <1>2
<1> QED BY <1>3, <1>4, <1>5 DEF r

\* The model's turn: its calls are due, and nothing else was.
LEMMA AskDue ==
    ASSUME IInv, IInv', AnswersDue, AskCalls
    PROVE  AnswersDue'
<1>1. PICK names \in SeqOf(Tools, MaxCalls) \ {<<>>} :
        /\ calls' = names
        /\ contents' = Append(contents, Turn(names))
  BY DEF AskCalls
<1>2. /\ names \in Seq(Tools) /\ DOMAIN names = 1 .. Len(names) /\ Len(names) \in Nat
  BY CallLists, LenProperties
<1>3. calls = <<>> /\ Len(calls) = 0
  BY DEF AskCalls, IInv, PhasesOK
<1>4. /\ Len(contents') = Len(contents) + 1 /\ Len(contents) \in Nat
      /\ \A i \in 1 .. Len(contents) : contents'[i] = contents[i]
      /\ contents'[Len(contents) + 1] = Turn(names)
  <2>1. contents \in Seq(Messages) /\ Len(contents) \in Nat /\ Turn(names) \in Messages
    BY MessageTypes DEF IInv, Messages, Turns
  <2> QED BY <1>1, <2>1, AppendProperties
<1>5. /\ DOMAIN contents = 1 .. Len(contents)
      /\ DOMAIN Conversation = 1 .. Len(contents)
      /\ \A i \in 1 .. Len(contents) : Conversation[i] = contents[i]
  <2>1. contents \in Seq(Messages) /\ calls \in Seq(Tools) /\ Len(contents) \in Nat
    BY MessageTypes DEF IInv
  <2>2. /\ DOMAIN Conversation = 1 .. Len(contents) + Len(calls)
        /\ \A i \in 1 .. Len(contents) : Conversation[i] = contents[i]
    BY <2>1, ConversationFacts, Zenon DEF Conversation
  <2> QED BY <1>3, <2>1, <2>2, LenProperties
<1>6. /\ DOMAIN contents' = 1 .. Len(contents) + 1
      /\ DOMAIN Conversation' = 1 .. Len(contents) + 1 + Len(names)
      /\ \A i \in 1 .. Len(contents) + 1 : Conversation'[i] = contents'[i]
      /\ \A k \in 1 .. Len(names) :
            Conversation'[Len(contents) + 1 + k] = Response(names[k])
  <2>1. contents' \in Seq(Messages) /\ calls' \in Seq(Tools)
    BY <1>1, <1>2, MessageTypes, AppendProperties DEF IInv, Messages, Turns
  <2>2. Conversation' = contents' \o Due(calls')
    BY DEF Conversation
  <2>3. /\ DOMAIN Conversation' = 1 .. Len(contents') + Len(calls')
        /\ \A i \in 1 .. Len(contents') : Conversation'[i] = contents'[i]
        /\ \A k \in 1 .. Len(calls') :
              Conversation'[Len(contents') + k] = Response(calls'[k])
    BY <2>1, <2>2, ConversationFacts, Zenon
  <2>4. DOMAIN contents' = 1 .. Len(contents')
    BY <2>1, LenProperties
  <2> QED BY <1>1, <1>4, <2>3, <2>4
<1> SUFFICES ASSUME NEW i \in 1 .. Len(contents) + 1, contents'[i].role = "model",
                    NEW k \in DOMAIN contents'[i].names
             PROVE  /\ i + k \in DOMAIN Conversation'
                    /\ Conversation'[i + k] = Response(contents'[i].names[k])
  BY <1>6 DEF AnswersDue
<1>7. CASE i \in 1 .. Len(contents)
  <2>1. contents'[i] = contents[i]
    BY <1>4, <1>7
  <2>2. i + k \in 1 .. Len(contents) /\ Conversation[i + k] = Response(contents[i].names[k])
    BY <1>5, <1>7, <2>1 DEF AnswersDue
  <2>3. i + k \in 1 .. Len(contents) + 1 + Len(names) /\ i + k \in 1 .. Len(contents) + 1
    BY <1>2, <1>4, <2>2
  <2>4. Conversation'[i + k] = contents[i + k]
    BY <1>4, <1>6, <2>2, <2>3
  <2> QED BY <1>5, <1>6, <2>1, <2>2, <2>3, <2>4
<1>8. CASE i = Len(contents) + 1
  <2>1. contents'[i].names = names
    BY <1>4, <1>8 DEF Turn
  <2>2. k \in 1 .. Len(names)
    BY <1>2, <2>1
  <2>3. i + k \in 1 .. Len(contents) + 1 + Len(names)
    BY <1>2, <1>4, <1>8, <2>2
  <2> QED BY <1>6, <1>8, <2>1, <2>2, <2>3
<1> QED BY <1>4, <1>7, <1>8

\* A response: what was due is there.
LEMMA ServeDue ==
    ASSUME IInv, IInv', AnswersDue, CallDone,
           contents' = Append(contents, Response(Head(calls)))
    PROVE  AnswersDue'
<1>1. /\ contents \in Seq(Messages) /\ calls \in Seq(Tools) /\ calls # <<>>
      /\ contents' \in Seq(Messages) /\ calls' = Tail(calls)
      /\ Len(contents) \in Nat /\ Len(calls) \in Nat
      /\ Response(Head(calls)) \in Messages
  <2>1. calls # <<>> /\ calls' = Tail(calls)
    BY DEF CallDone, IInv, TypeOK
  <2>2. calls \in Seq(Tools) /\ contents \in Seq(Messages)
    BY MessageTypes DEF IInv
  <2>3. Head(calls) \in Tools
    BY <2>1, <2>2, HeadTailProperties
  <2>4. Response(Head(calls)) \in Messages
    BY <2>3 DEF Messages
  <2> QED BY <2>1, <2>2, <2>4, MessageTypes, AppendProperties DEF IInv
<1>2. /\ Len(contents') = Len(contents) + 1
      /\ \A i \in 1 .. Len(contents) : contents'[i] = contents[i]
      /\ contents'[Len(contents) + 1] = Response(Head(calls))
  BY <1>1, AppendProperties
<1>3. /\ Len(calls') = Len(calls) - 1 /\ calls' \in Seq(Tools)
      /\ \A k \in 1 .. Len(calls') : calls'[k] = calls[k + 1]
      /\ Head(calls) = calls[1] /\ Len(calls) >= 1
  BY <1>1, HeadTailProperties, EmptySeq
<1>4. /\ DOMAIN contents = 1 .. Len(contents)
      /\ DOMAIN Conversation = 1 .. Len(contents) + Len(calls)
      /\ \A i \in 1 .. Len(contents) : Conversation[i] = contents[i]
      /\ \A k \in 1 .. Len(calls) :
           Conversation[Len(contents) + k] = Response(calls[k])
  <2>1. /\ DOMAIN Conversation = 1 .. Len(contents) + Len(calls)
        /\ \A i \in 1 .. Len(contents) : Conversation[i] = contents[i]
        /\ \A k \in 1 .. Len(calls) :
             Conversation[Len(contents) + k] = Response(calls[k])
    BY <1>1, ConversationFacts, Zenon DEF Conversation
  <2> QED BY <1>1, <2>1, LenProperties
<1>5. /\ DOMAIN contents' = 1 .. Len(contents) + 1
      /\ DOMAIN Conversation' = 1 .. Len(contents) + Len(calls)
      /\ \A i \in 1 .. Len(contents) + 1 : Conversation'[i] = contents'[i]
      /\ \A k \in 1 .. Len(calls') :
           Conversation'[Len(contents) + 1 + k] = Response(calls'[k])
  <2>1. Conversation' = contents' \o Due(calls')
    BY DEF Conversation
  <2>2. /\ DOMAIN Conversation' = 1 .. Len(contents') + Len(calls')
        /\ \A i \in 1 .. Len(contents') : Conversation'[i] = contents'[i]
        /\ \A k \in 1 .. Len(calls') :
             Conversation'[Len(contents') + k] = Response(calls'[k])
    BY <1>1, <1>3, <2>1, ConversationFacts, Zenon
  <2>3. DOMAIN contents' = 1 .. Len(contents')
    BY <1>1, LenProperties
  <2>4. Len(contents') + Len(calls') = Len(contents) + Len(calls)
    BY <1>1, <1>2, <1>3
  <2> QED BY <1>2, <2>2, <2>3, <2>4
<1>6. ASSUME NEW j \in 1 .. Len(contents) + Len(calls)
      PROVE  Conversation'[j] = Conversation[j]
  <2>1. CASE j \in 1 .. Len(contents)
    <3>1. j \in 1 .. Len(contents) + 1
      BY <1>1, <2>1
    <3> QED BY <1>2, <1>4, <1>5, <2>1, <3>1
  <2>2. CASE j = Len(contents) + 1
    <3>1. Conversation'[j] = contents'[j] /\ contents'[j] = Response(calls[1])
      BY <1>1, <1>2, <1>3, <1>5, <2>2
    <3>2. Conversation[j] = Response(calls[1])
      BY <1>1, <1>3, <1>4, <2>2
    <3> QED BY <3>1, <3>2
  <2>3. CASE j > Len(contents) + 1
    <3> DEFINE k == j - (Len(contents) + 1)
    <3>1. k \in 1 .. Len(calls') /\ j = Len(contents) + 1 + k
      BY <1>1, <1>3, <2>3
    <3> HIDE DEF k
    <3>2. k + 1 \in 1 .. Len(calls) /\ j = Len(contents) + (k + 1)
      BY <1>1, <1>3, <3>1
    <3>3. Conversation'[j] = Response(calls[k + 1])
      BY <1>3, <1>5, <3>1
    <3>4. Conversation[j] = Response(calls[k + 1])
      BY <1>4, <3>2
    <3> QED BY <3>3, <3>4
  <2> QED BY <1>1, <2>1, <2>2, <2>3
<1> SUFFICES ASSUME NEW i \in 1 .. Len(contents) + 1, contents'[i].role = "model",
                    NEW k \in DOMAIN contents'[i].names
             PROVE  /\ i + k \in DOMAIN Conversation'
                    /\ Conversation'[i + k] = Response(contents'[i].names[k])
  BY <1>5 DEF AnswersDue
<1>7. i # Len(contents) + 1
  BY <1>2 DEF Response
<1>8. i \in 1 .. Len(contents) /\ contents'[i] = contents[i]
  BY <1>1, <1>2, <1>7
<1>9. i + k \in DOMAIN Conversation /\ Conversation[i + k] = Response(contents[i].names[k])
  BY <1>4, <1>8 DEF AnswersDue
<1> QED BY <1>4, <1>5, <1>6, <1>8, <1>9

LEMMA NextDue == IInv /\ IInv' /\ AnswersDue /\ [Next]_vars => AnswersDue'
<1> SUFFICES ASSUME IInv, IInv', AnswersDue, [Next]_vars
             PROVE  AnswersDue'
  OBVIOUS
<1>1. CASE UNCHANGED <<contents, calls>>
  BY <1>1 DEF AnswersDue, Conversation
<1>2. CASE ConnectFails \/ ListToolsFails \/ ListTools \/ Connected
  BY <1>1, <1>2 DEF ConnectFails, ListToolsFails, ListTools, Connected, LoopUnchanged
<1>3. CASE AskText \/ AskFails \/ OutOfRounds
  BY <1>1, <1>3 DEF AskText, AskFails, OutOfRounds, Return
<1>4. CASE UNCHANGED vars
  BY <1>1, <1>4 DEF vars
<1> QED BY <1>2, <1>3, <1>4, AskDue, ServeDue DEF Next, Execute, ExecuteFails

\* Whenever the model is called, every function call of its earlier turns has
\* its response, right after the turn and in the order of the calls, whatever
\* became of the tool: for any number of calls in a turn.
THEOREM CallsAnswered == Spec => []AllCallsAnswered
<1>1. Init => AnswersDue
  BY DEF Init, AnswersDue
<1>2. ASSUME IInv, AnswersDue PROVE AllCallsAnswered
  <2> SUFFICES ASSUME pc = "ask"
               PROVE  /\ DOMAIN Conversation = DOMAIN contents
                      /\ \A i \in DOMAIN contents : Conversation[i] = contents[i]
    BY <1>2, Zenon DEF AnswersDue, AllCallsAnswered
  <2>1. calls = <<>> /\ Len(calls) = 0
    BY <1>2 DEF IInv, PhasesOK
  <2>2. /\ contents \in Seq(Messages) /\ calls \in Seq(Tools) /\ Len(contents) \in Nat
        /\ DOMAIN contents = 1 .. Len(contents)
    BY <1>2, MessageTypes DEF IInv
  <2>3. /\ DOMAIN Conversation = 1 .. Len(contents) + Len(calls)
        /\ \A i \in 1 .. Len(contents) : Conversation[i] = contents[i]
    BY <2>2, ConversationFacts, Zenon DEF Conversation
  <2> QED BY <2>1, <2>2, <2>3
<1> QED BY <1>1, <1>2, NextDue, Inductive, PTL DEF Spec

-----------------------------------------------------------------------------
(***************************************************************************)
(* The request from the outside.                                           *)
(***************************************************************************)
LEMMA InitOutside == Init => Outside!Init
BY EmptySeq DEF Init, Outside!Init, Asked

LEMMA StepOutside ==
    ASSUME IInv, IInv', [Next]_vars
    PROVE  [Outside!Next]_(Outside!vars)
<1>1. ASSUME NEW result \in {"answer", "error"}, pc = "ask", Return(result),
             round < MaxRounds \/ (round = MaxRounds /\ result = "error")
      PROVE  Outside!End
  <2>1. open' = {} /\ calls' = calls /\ Len(calls) = 0 /\ outcome = None
    BY <1>1, EmptySeq DEF Return, IInv, TypeOK, PhasesOK
  <2>2. /\ Asked = round /\ round \in 0 .. MaxRounds
        /\ Asked' = IF round < MaxRounds THEN round + 1 ELSE round
    BY <1>1 DEF Return, Asked, IInv, TypeOK
  <2>3. outcome' = result
    BY <1>1 DEF Return
  <2> QED BY <1>1, <2>1, <2>2, <2>3 DEF Outside!End, MaxRounds
<1>2. CASE AskText \/ AskFails
  BY <1>1, <1>2 DEF AskText, AskFails, Outside!Next
<1>3. CASE OutOfRounds
  BY <1>1, <1>3 DEF OutOfRounds, Outside!Next
<1>4. CASE ListTools \/ ListToolsFails
  <2>1. open' # {} /\ outcome = None /\ Asked = 0 /\ Asked' = 0 /\ UNCHANGED <<calls, outcome>>
    BY <1>4 DEF ListTools, ListToolsFails, NextServer, OpenSession, LoopUnchanged,
                Asked, IInv, TypeOK, PhasesOK
  <2> QED BY <2>1 DEF Outside!Connect, Outside!Next
<1>5. CASE ConnectFails \/ Connected
  BY <1>5 DEF ConnectFails, Connected, NextServer, LoopUnchanged, Asked, Outside!vars
<1>6. CASE AskCalls
  <2>1. PICK names \in SeqOf(Tools, MaxCalls) \ {<<>>} : calls' = names
    BY <1>6 DEF AskCalls
  <2>2. Len(names) \in 1 .. MaxCalls
    BY CallLists, EmptySeq, MaxCallsAssumption
  <2>3. Len(calls) = 0 /\ Asked = round /\ Asked' = round + 1 /\ outcome = None
    BY <1>6, EmptySeq DEF AskCalls, ConnectionsUnchanged, Asked, IInv, TypeOK, PhasesOK
  <2> QED BY <1>6, <2>1, <2>2, <2>3
          DEF AskCalls, ConnectionsUnchanged, Outside!Ask, Outside!Next
<1>7. CASE CallDone
  <2>1. Len(calls) \in Nat /\ Len(calls) > 0 /\ Len(calls') = Len(calls) - 1
    BY <1>7, CallLists, ShorterList, EmptySeq, MaxCallsAssumption
       DEF CallDone, IInv, TypeOK
  <2>2. Asked' = Asked
    BY <1>7 DEF CallDone, Asked
  <2> QED BY <1>7, <2>1, <2>2
          DEF CallDone, ConnectionsUnchanged, Outside!Serve, Outside!Next
<1>8. CASE UNCHANGED vars
  BY <1>8 DEF vars, Asked, Outside!vars
<1> QED BY <1>2, <1>3, <1>4, <1>5, <1>6, <1>7, <1>8 DEF Next, Execute, ExecuteFails

\* The loop with its sessions implements Exchange.tla: at most MaxRounds calls
\* of the model, none while a function call is unanswered, one end, and every
\* session closed by then, also one whose tools could not be listed.
THEOREM ExchangeImplemented == Spec => ImplementsExchange
BY InitOutside, StepOutside, Inductive, PTL DEF Spec, ImplementsExchange, Outside!Spec
=============================================================================
