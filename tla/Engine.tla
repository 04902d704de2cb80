------------------------------- MODULE Engine -------------------------------
(***************************************************************************)
(* One request to the Gemini client (pkg/gemini/client.go), from the       *)
(* controller or from the scheduler: SynthesizeWorkload and SchedulePod    *)
(* run the same loop.  ConnectMCPServers (pkg/gemini/mcp.go) opens a       *)
(* session with each MCP server of the request and collects their tools;   *)
(* then the model is called, at most MaxRounds times, and the function     *)
(* calls of each of its turns are executed before the next; on every way   *)
(* out the sessions are closed.                                            *)
(*                                                                         *)
(* Requests share nothing, so one is modelled.  Texts are left out: what   *)
(* counts of an answer is whether it parses, of a tool's result that it    *)
(* is there.                                                               *)
(***************************************************************************)
EXTENDS Naturals, SequencesExt

CONSTANTS Servers,      \* MCP servers of the request, in order: a sequence
          Tools,        \* names a function call of the model may have
          Offered,      \* the tools each server lists
          MaxCalls,     \* function calls in one turn of the model
          None

ASSUME ServersAssumption == Servers \in Seq(Range(Servers))

ASSUME OfferedAssumption ==
    /\ Offered \in [Range(Servers) -> SUBSET Tools]
    /\ \A server \in Range(Servers) : IsFiniteSet(Offered[server])

ASSUME MaxCallsAssumption == MaxCalls \in Nat \ {0}

\* No server, and no outcome yet.
ASSUME NoneAssumption == None \notin Range(Servers) \cup {"answer", "error"}

\* Rounds of the loop.
MaxRounds == 5

VARIABLES pc,        \* "connect", "ask", "serve" or "done"
          left,      \* servers still to connect to
          open,      \* sessions that are open
          sessions,  \* the sessions the clean-up will close
          toolMap,   \* the server that executes a tool
          decls,     \* the tools declared to the model
          round,     \* the loop's counter
          calls,     \* function calls of the last turn still to execute
          contents,  \* the conversation after the prompt
          outcome    \* what the caller gets

vars == <<pc, left, open, sessions, toolMap, decls, round, calls, contents, outcome>>

Init ==
    /\ pc = "connect"
    /\ left = Servers
    /\ open = {}
    /\ sessions = {}
    /\ toolMap = [t \in Tools |-> None]
    /\ decls = <<>>
    /\ round = 0
    /\ calls = <<>>
    /\ contents = <<>>
    /\ outcome = None

-----------------------------------------------------------------------------
(***************************************************************************)
(* ConnectMCPServers.  A server that cannot be reached is passed over.     *)
(***************************************************************************)
LoopUnchanged == UNCHANGED <<round, calls, contents, outcome>>

NextServer == /\ pc = "connect"
              /\ left # <<>>
              /\ left' = Tail(left)
              /\ UNCHANGED pc

\* Mutant: it is put off instead.
ConnectLater ==
    /\ pc = "connect"
    /\ left # <<>>
    /\ left' = Append(Tail(left), Head(left))
    /\ UNCHANGED <<pc, open, sessions, toolMap, decls>> /\ LoopUnchanged

ConnectFails ==
    /\ NextServer
    /\ UNCHANGED <<open, sessions, toolMap, decls>> /\ LoopUnchanged

\* The session is kept for the clean-up as soon as it is open.
OpenSession == /\ open' = open \cup {Head(left)}
               /\ sessions' = sessions \cup {Head(left)}

\* Mutant: a session is kept only once its tools are known.
ListToolsLeaks ==
    /\ NextServer
    /\ open' = open \cup {Head(left)}
    /\ UNCHANGED <<sessions, toolMap, decls>> /\ LoopUnchanged

ListToolsFails ==
    /\ NextServer
    /\ OpenSession
    /\ UNCHANGED <<toolMap, decls>> /\ LoopUnchanged

\* A tool that an earlier server listed, too, is taken over.
ListTools ==
    /\ NextServer
    /\ OpenSession
    /\ toolMap' = [t \in Tools |-> IF t \in Offered[Head(left)] THEN Head(left)
                                   ELSE toolMap[t]]
    /\ decls' = decls \o SetToSeq(Offered[Head(left)])
    /\ LoopUnchanged

Connected ==
    /\ pc = "connect"
    /\ left = <<>>
    /\ pc' = "ask"
    /\ UNCHANGED <<left, open, sessions, toolMap, decls>> /\ LoopUnchanged

-----------------------------------------------------------------------------
(***************************************************************************)
(* The loop.                                                               *)
(***************************************************************************)
ConnectionsUnchanged == UNCHANGED <<left, open, sessions, toolMap, decls>>

\* The function returns, and the deferred clean-up runs.
Return(result) ==
    /\ pc' = "done"
    /\ outcome' = result
    /\ open' = open \ sessions
    /\ UNCHANGED <<left, sessions, toolMap, decls, round, calls, contents>>

Turn(names) == [role |-> "model", names |-> names]

Response(name) == [role |-> "user", names |-> <<name>>]

\* Mutant: the loop runs once more.
AskCallsOffByOne ==
    /\ pc = "ask"
    /\ round <= MaxRounds
    /\ \E names \in SeqOf(Tools, MaxCalls) \ {<<>>} :
         /\ calls' = names
         /\ contents' = Append(contents, Turn(names))
    /\ pc' = "serve"
    /\ ConnectionsUnchanged /\ UNCHANGED <<round, outcome>>

\* GenerateContent answers with function calls, to tools it knows or not.
AskCalls ==
    /\ pc = "ask"
    /\ round < MaxRounds
    /\ \E names \in SeqOf(Tools, MaxCalls) \ {<<>>} :
         /\ calls' = names
         /\ contents' = Append(contents, Turn(names))
    /\ pc' = "serve"
    /\ ConnectionsUnchanged /\ UNCHANGED <<round, outcome>>

\* It answers with a text, or with nothing; only JSON of the right shape is an
\* answer.
AskText ==
    /\ pc = "ask"
    /\ round < MaxRounds
    /\ Return("answer") \/ Return("error")

\* The call fails.
AskFails ==
    /\ pc = "ask"
    /\ round < MaxRounds
    /\ Return("error")

OutOfRounds ==
    /\ pc = "ask"
    /\ round = MaxRounds
    /\ Return("error")

\* After the last call of a turn the next round begins.
CallDone ==
    /\ pc = "serve"
    /\ calls' = Tail(calls)
    /\ IF Tail(calls) = <<>> THEN pc' = "ask" /\ round' = round + 1
                             ELSE UNCHANGED <<pc, round>>
    /\ ConnectionsUnchanged /\ UNCHANGED outcome

\* The tool's result is appended to the conversation.
Execute ==
    /\ CallDone
    /\ toolMap[Head(calls)] # None
    /\ contents' = Append(contents, Response(Head(calls)))

\* Mutant: an error is not told to the model.
ExecuteFailsSilently ==
    /\ CallDone
    /\ UNCHANGED contents

\* The call fails, or no server lists the tool: the error is appended.
ExecuteFails ==
    /\ CallDone
    /\ contents' = Append(contents, Response(Head(calls)))

Next ==
    \/ ConnectFails \/ ListToolsFails \/ ListTools \/ Connected
    \/ AskCalls \/ AskText \/ AskFails \/ OutOfRounds
    \/ Execute \/ ExecuteFails

\* Every call returns (the HTTP client of the sessions has a timeout, the
\* model's is assumed to answer), and the code goes on.
Spec == Init /\ [][Next]_vars /\ WF_vars(Next)

-----------------------------------------------------------------------------
(***************************************************************************)
(* Properties.                                                             *)
(***************************************************************************)
Turns == {Turn(names) : names \in SeqOf(Tools, MaxCalls)}

\* The type invariant: the state has the shape the code gives it.
TypeOK ==
    /\ pc \in {"connect", "ask", "serve", "done"}
    /\ left \in SeqOf(Range(Servers), Len(Servers))
    /\ sessions \subseteq Range(Servers)
    /\ open \subseteq Range(Servers)
    /\ toolMap \in [Tools -> sessions \cup {None}]
    /\ decls \in Seq({t \in Tools : toolMap[t] # None})
    /\ round \in 0 .. MaxRounds
    /\ calls \in SeqOf(Tools, MaxCalls)
    /\ contents \in Seq(Turns \cup {Response(t) : t \in Tools})
    /\ outcome \in {None, "answer", "error"}
    /\ pc = "serve" => calls # <<>>
    /\ pc = "done" <=> outcome # None

\* When the model is called, every function call of its earlier turns has its
\* response, right after the turn and in the order of the calls, whether the
\* tool worked, failed or does not exist.
AllCallsAnswered ==
    pc = "ask" =>
        \A i \in DOMAIN contents :
            contents[i].role = "model" =>
                \A k \in DOMAIN contents[i].names :
                    /\ i + k \in DOMAIN contents
                    /\ contents[i + k] = Response(contents[i].names[k])

\* Every request comes to an end, whatever the model and the servers do.
Terminates == <>(pc = "done")

-----------------------------------------------------------------------------
(***************************************************************************)
(* Refinement: the loop with its sessions implements Exchange.             *)
(***************************************************************************)
\* A round counts as soon as the model has been called.
Asked == IF pc = "serve" \/ (pc = "done" /\ round < MaxRounds)
         THEN round + 1 ELSE round

Outside == INSTANCE Exchange WITH
    asked <- Asked, owed <- Len(calls), holding <- open # {},
    Turns <- 1 .. MaxCalls

\* The request keeps what Exchange promises: no call beyond the fifth, none
\* while a function call is unanswered, and no session left open at the end,
\* not even one whose tools could not be listed.
ImplementsExchange == Outside!Spec
=============================================================================
