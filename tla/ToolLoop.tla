------------------------------ MODULE ToolLoop ------------------------------
(***************************************************************************)
(* One invocation of an agent (complete_model_request): a request to the   *)
(* provider, its streamed answer put together (src/openrouter.rs), the     *)
(* calls of the answer checked (src/model.rs) and run (src/tools.rs), and  *)
(* the request again with their results, until an answer asks for nothing. *)
(*                                                                         *)
(* The stream is one HTTP response: its events arrive in order, and it may *)
(* break anywhere.  The provider sends a call in two pieces, the first     *)
(* with its id and its name; the pieces of several calls, and of several   *)
(* choices, come in any order.  The JSON of a piece alone does not parse.  *)
(*                                                                         *)
(* What a request costs, and the session events around it, are             *)
(* ModelSession's: here a reservation or a settlement may fail.  Of the    *)
(* arguments of a call only what fits its schema and what does not differ. *)
(***************************************************************************)
EXTENDS Naturals, Sequences, FiniteSets, FiniteSetsExt, SequencesExt

CONSTANTS
  Byte, Lead, Trail, Replacement, Path, Unsafe, None, MaxLength, MaxResult,
  MaxVisible, MaxSession, MaxCalls, MaxProtect,   \* of ToolExecutor
  Agent,          \* roles of workflow.rs that are invoked
  Repertoire,     \* calls a provider may make
  MaxTurns,       \* the 64 turns of the loop
  Strict,         \* strict_backend_errors: FALSE only for scripted tests
  MaxPlan,        \* bound: calls of one answer
  MaxInvocations  \* bound: invocations of a session

VARIABLES
  files, role, artifacts, accounted, calls, result,   \* of ToolExecutor
  pc,             \* "idle", "ask", "sent", "streaming", "tools", "failed"
  agent,
  turn,
  conversation,   \* request.messages after the first
  parts,          \* SseAccumulator: pieces by choice and tool index
  texts,          \* choices whose text is not empty
  usage,
  todo,           \* calls of the answer that have not run
  outcome,        \* how the invocation ended
  \* Of the provider, and of the history:
  plan,           \* the calls it means to make, by choice
  sent,           \* pieces it has sent of each
  over,           \* it has sent [DONE]
  ran,            \* calls that ran in this turn
  invocations

Tools == INSTANCE ToolExecutor

ASSUME ToolsAssumption == Tools!Limits
ASSUME NoneAssumption == None \notin Tools!ToolRole \cup Tools!ToolResult

streamVars == <<parts, texts, usage>>
providerVars == <<plan, sent, over>>
loopVars == <<pc, agent, turn, conversation, todo, outcome>>
historyVars == <<ran, invocations>>
vars == <<files, role, artifacts, accounted, calls, result, streamVars,
          providerVars, loopVars, historyVars>>

Choice == {0, 1}
Index == 0..(MaxPlan - 1)

Call == [id : {None, "id"},
         name : Tools!AllTools,
         arg : Path \cup Byte \cup {"status", "diff", "wrong", None}]

ASSUME RepertoireAssumption == Repertoire \subseteq Call
ASSUME LoopAssumption ==
  MaxTurns \in Nat \ {0} /\ MaxPlan \in Nat \ {0} /\ MaxInvocations \in Nat

Piece == [call : Repertoire, part : 1..2]

(***************************************************************************)
(* What a role is offered, and the role its executor has.                  *)
(***************************************************************************)
AgentRole == {"story-architect", "writer", "character-voice-critic",
              "canon-critic", "reader-pull-critic", "story-editor-critic",
              "naturalness-style-critic", "source-adherence-critic",
              "reviser", "validator"}

ASSUME AgentAssumption == Agent \subseteq AgentRole

ToolRole(a) ==
  CASE a = "validator" -> "coordinator"
    [] a \in {"story-architect", "writer", "reviser"} -> "author"
    [] OTHER -> "consistency_critic"

\* complete_model_request tells it from the name in the request.
ExecutorRole(name) ==
  CASE name \in {"coordinator", "validator"} -> "coordinator"
    [] name \in {"character-voice-critic", "canon-critic",
                 "reader-pull-critic", "story-editor-critic",
                 "naturalness-style-critic", "source-adherence-critic"}
         -> "consistency_critic"
    [] OTHER -> "author"

Offered(a) == Tools!Exposed(ToolRole(a))

(***************************************************************************)
(* A call and its arguments.                                               *)
(***************************************************************************)
Fits(call) ==
  CASE call.name \in {"read_file", "import"} -> call.arg \in Path
    [] call.name = "search_files" -> call.arg \in Tools!Plain
    [] call.name = "git" -> call.arg \in {"status", "diff"}
    [] call.name = "diff" -> call.arg = None
    [] OTHER -> call.arg # "wrong"

\* validate_tool_calls.
ValidateToolCalls(as) ==
  \A i \in DOMAIN as : as[i].name \in Offered(agent) /\ Fits(as[i])

Convertible(call) ==
  call.name \in {"read_file", "search_files", "diff", "import", "git"}
    /\ Fits(call)

\* from_call.
FromCall(call) ==
  CASE call.name \in {"read_file", "import"} ->
         [tool |-> call.name, path |-> call.arg]
    [] call.name \in {"search_files", "git"} ->
         [tool |-> call.name, query |-> call.arg]
    [] call.name = "diff" -> [tool |-> "diff"]

(***************************************************************************)
(* SseAccumulator.                                                         *)
(***************************************************************************)
NoParts == [c \in Choice |-> [i \in Index |-> <<>>]]

Seen == texts \cup {c \in Choice : \E i \in Index : parts[c][i] # <<>>}

\* feed, with the pieces of one call.
Feed(c, i, piece) ==
  parts' = [parts EXCEPT ![c][i] = Append(@, piece)]

Whole(pieces) ==
  /\ Len(pieces) = 2
  /\ pieces[1].part = 1 /\ pieces[2].part = 2
  /\ pieces[1].call = pieces[2].call

InOrder(S) ==
  CHOOSE s \in [1..Cardinality(S) -> S] :
    \A i, j \in DOMAIN s : i < j => s[i] < s[j]

\* The calls of a choice in the order of their indices.
Assembled(of) ==
  LET present == InOrder({i \in Index : of[i] # <<>>})
  IN  [k \in DOMAIN present |-> of[present[k]][1].call]

Stopped(why) == [class |-> "stopped", why |-> why]
Ambiguous(why) == [class |-> "ambiguous", why |-> why]

\* Mutant: a stream that ends early is taken for a whole one.
FinishUndone(done) ==
  IF 0 \notin Seen THEN Stopped("empty")
  ELSE IF \E i \in Index : parts[0][i] # <<>> /\ ~Whole(parts[0][i])
    THEN Stopped("invalid")
  ELSE [class |-> "ok", calls |-> Assembled(parts[0])]

\* finish: a failure, or the calls of choice zero.
Finish(done) ==
  IF ~done THEN Ambiguous("eof")
  ELSE IF 0 \notin Seen THEN Stopped("empty")
  ELSE IF \E i \in Index : parts[0][i] # <<>> /\ ~Whole(parts[0][i])
    THEN Stopped("invalid")
  ELSE [class |-> "ok", calls |-> Assembled(parts[0])]

(***************************************************************************)
(* The invocation.                                                         *)
(***************************************************************************)
\* The invocation returns, and its executor and its artifacts are dropped.
Return(how) ==
  /\ pc' = "idle"
  /\ outcome' = how
  /\ todo' = <<>>
  /\ conversation' = <<>>
  /\ role' = None
  /\ artifacts' = Tools!NoArtifacts
  /\ accounted' = 0
  /\ calls' = 0
  /\ UNCHANGED <<files, result, agent, turn, ran, invocations>>

Invoke(a) ==
  /\ pc = "idle" /\ invocations < MaxInvocations
  /\ pc' = "ask"
  /\ agent' = a
  /\ turn' = 0
  /\ conversation' = <<>>
  /\ outcome' = None
  /\ ran' = <<>>
  /\ invocations' = invocations + 1
  /\ UNCHANGED <<files, role, artifacts, accounted, calls, result, streamVars,
                 providerVars, todo>>

\* The reservation, the session event, the key and the body: any may fail.
AskRefused ==
  /\ pc = "ask" /\ turn < MaxTurns
  /\ Return(Stopped("refused"))
  /\ UNCHANGED <<streamVars, providerVars>>

TooManyTurns ==
  /\ pc = "ask" /\ turn = MaxTurns
  /\ Return(Stopped("turns"))
  /\ UNCHANGED <<streamVars, providerVars>>

Ask ==
  /\ pc = "ask" /\ turn < MaxTurns
  /\ pc' = "sent"
  /\ ran' = <<>>
  /\ parts' = NoParts
  /\ texts' = {}
  /\ usage' = FALSE
  /\ plan' = [c \in Choice |-> <<>>]
  /\ sent' = [c \in Choice |-> [i \in Index |-> 0]]
  /\ over' = FALSE
  /\ UNCHANGED <<files, role, artifacts, accounted, calls, result, agent, turn,
                 conversation, todo, outcome, invocations>>

\* The request may or may not have reached the provider.
SendFails ==
  /\ pc = "sent"
  /\ Return(Ambiguous("transport"))
  /\ UNCHANGED <<streamVars, providerVars>>

HttpError ==
  /\ pc = "sent"
  /\ Return(Stopped("http"))
  /\ UNCHANGED <<streamVars, providerVars>>

\* The provider decides on its answer and begins to stream it.
Accepted ==
  /\ pc = "sent"
  /\ pc' = "streaming"
  /\ \E zero \in SeqOf(Repertoire, MaxPlan), one \in SeqOf(Repertoire, 1) :
       plan' = [c \in Choice |-> IF c = 0 THEN zero ELSE one]
  /\ UNCHANGED <<files, role, artifacts, accounted, calls, result, streamVars,
                 sent, over, agent, turn, conversation, todo, outcome,
                 historyVars>>

Streamed ==
  UNCHANGED <<files, role, artifacts, accounted, calls, result, plan, over,
              loopVars, historyVars>>

ToolDelta(c, i) ==
  /\ pc = "streaming"
  /\ i < Len(plan[c]) /\ sent[c][i] < 2
  /\ sent' = [sent EXCEPT ![c][i] = @ + 1]
  /\ Feed(c, i, [call |-> plan[c][i + 1], part |-> sent[c][i] + 1])
  /\ UNCHANGED <<texts, usage>>
  /\ Streamed

TextDelta(c) ==
  /\ pc = "streaming"
  /\ texts' = texts \cup {c}
  /\ UNCHANGED <<parts, usage, sent>>
  /\ Streamed

UsageEvent ==
  /\ pc = "streaming"
  /\ usage' = TRUE
  /\ UNCHANGED <<parts, texts, sent>>
  /\ Streamed

\* An error event, or data that is not what feed and parse_usage read.
BadEvent(why) ==
  /\ pc = "streaming"
  /\ why \in {"error event", "malformed"}
  /\ Return(Stopped(why))
  /\ UNCHANGED <<streamVars, providerVars>>

\* The connection breaks, or the request has lasted REQUEST_TIMEOUT.
StreamBreaks ==
  /\ pc = "streaming"
  /\ Return(Stopped("transport"))
  /\ UNCHANGED <<streamVars, providerVars>>

\* What complete, complete_model_turn and complete_model_request do with what
\* finish returns, without a pause between them.
RunTurn(answer) ==
  IF answer.class # "ok" THEN Return(answer)
  ELSE IF ~ValidateToolCalls(answer.calls) THEN Return(Stopped("invalid"))
  ELSE \/ Return(Stopped("local"))  \* the ledger, the session, the workspace
       \/ /\ ~usage /\ Strict
          /\ Return(Ambiguous("usage"))
       \/ /\ usage \/ ~Strict
          /\ answer.calls = <<>>
          /\ Return([class |-> "ok", why |-> "answer"])
       \/ /\ usage \/ ~Strict
          /\ answer.calls # <<>>
          /\ pc' = "tools"
          /\ todo' = answer.calls
          /\ IF role = None THEN Tools!NewExecutor(ExecutorRole(agent))
             ELSE UNCHANGED <<role, artifacts, accounted, calls>>
          /\ conversation' = Append(conversation,
               [kind |-> "assistant",
                ids |-> [k \in DOMAIN answer.calls |-> answer.calls[k].id]])
          /\ UNCHANGED <<files, result, agent, turn, outcome, historyVars>>

\* [DONE] ends the stream, whatever the provider still meant to send.
Done ==
  /\ pc = "streaming"
  /\ over' = TRUE
  /\ RunTurn(Finish(TRUE))
  /\ UNCHANGED <<streamVars, plan, sent>>

Eof ==
  /\ pc = "streaming"
  /\ RunTurn(Finish(FALSE))
  /\ UNCHANGED <<streamVars, providerVars>>

\* The recorded answers of a test: the next of a queue that clones share.
Scripted ==
  /\ pc = "sent"
  /\ \/ \E why \in {"script", "no script"} :
          Return(Stopped(why)) /\ UNCHANGED providerVars
     \/ Return(Ambiguous("script")) /\ UNCHANGED providerVars
     \/ \E as \in SeqOf(Repertoire, MaxPlan) :
          /\ plan' = [c \in Choice |-> IF c = 0 THEN as ELSE <<>>]
          /\ sent' = [c \in Choice |->
                        [i \in Index |-> IF c = 0 /\ i < Len(as) THEN 2 ELSE 0]]
          /\ over' = TRUE
          /\ RunTurn([class |-> "ok", calls |-> as])
  /\ UNCHANGED streamVars

CallId(call, k) ==
  IF call.id = None THEN <<"phemius-call", turn, k>> ELSE call.id

\* Mutant: an empty result is left out of the conversation.
DropTheEmpty(messages, call) ==
  IF result'.total_bytes = 0 THEN messages
  ELSE Append(messages,
         [kind |-> "tool", id |-> CallId(call, Len(ran))])

PushResult(messages, call) ==
  Append(messages, [kind |-> "tool", id |-> CallId(call, Len(ran))])

\* One round of the loop over the calls.
RunCall ==
  /\ pc = "tools"
  /\ LET call == Head(todo)
     IN  IF ~Convertible(call)
           THEN Return(Stopped("tool"))
           ELSE /\ Tools!Execute(FromCall(call))
                /\ ran' = Append(ran, call)
                /\ IF ~result'.ok
                     THEN /\ pc' = "failed"
                          /\ UNCHANGED <<todo, conversation, turn>>
                     ELSE /\ conversation' = PushResult(conversation, call)
                          /\ todo' = Tail(todo)
                          /\ IF Tail(todo) = <<>>
                               THEN turn' = turn + 1 /\ pc' = "ask"
                               ELSE UNCHANGED <<turn, pc>>
                /\ UNCHANGED <<agent, outcome, invocations>>
  /\ UNCHANGED <<streamVars, providerVars>>

\* The rest of a round whose tool failed.
ToolFailed ==
  /\ pc = "failed"
  /\ Return(Stopped("tool"))
  /\ UNCHANGED <<streamVars, providerVars>>

Outside(p) ==
  /\ Tools!Outside(p)
  /\ UNCHANGED <<streamVars, providerVars, loopVars, historyVars>>

Init ==
  /\ files \in [Path \ Unsafe -> Tools!File]
  /\ Tools!NoExecutor
  /\ result = None
  /\ pc = "idle" /\ agent \in Agent /\ turn = 0
  /\ conversation = <<>> /\ todo = <<>> /\ outcome = None
  /\ parts = NoParts /\ texts = {} /\ usage = FALSE
  /\ plan = [c \in Choice |-> <<>>]
  /\ sent = [c \in Choice |-> [i \in Index |-> 0]]
  /\ over = FALSE
  /\ ran = <<>> /\ invocations = 0

\* The backend finishes the request it was given.
Stream ==
  \/ \E c \in Choice, i \in Index : ToolDelta(c, i)
  \/ \E c \in Choice : TextDelta(c)
  \/ UsageEvent
  \/ Accepted

StreamEnds ==
  \/ SendFails
  \/ HttpError
  \/ \E why \in {"error event", "malformed"} : BadEvent(why)
  \/ StreamBreaks
  \/ Done
  \/ Eof
  \/ Scripted

Next ==
  \/ \E a \in Agent : Invoke(a)
  \/ AskRefused \/ TooManyTurns \/ Ask
  \/ Stream \/ StreamEnds
  \/ RunCall \/ ToolFailed
  \/ \E p \in DOMAIN files : Outside(p)

Spec == Init /\ [][Next]_vars

\* The controller goes on by itself, and a request does not outlive
\* REQUEST_TIMEOUT (openrouter.rs:15, 92); nothing is asked of the provider.
Fairness ==
  /\ WF_vars(AskRefused \/ TooManyTurns \/ Ask)
  /\ WF_vars(SendFails)
  /\ WF_vars(StreamBreaks)
  /\ WF_vars(RunCall)
  /\ WF_vars(ToolFailed)

FairSpec == Spec /\ Fairness

Message ==
  [kind : {"assistant"}, ids : SeqOf({None, "id"}, MaxPlan)]
    \cup [kind : {"tool"},
          id : {"id"} \cup ({"phemius-call"} \X (0..MaxTurns) \X Index)]

TypeOK ==
  /\ Tools!TypeOK
  /\ pc \in {"idle", "ask", "sent", "streaming", "tools", "failed"}
  /\ agent \in Agent /\ turn \in 0..MaxTurns
  /\ conversation \in Seq(Message)
  /\ parts \in [Choice -> [Index -> Seq(Piece)]]
  /\ texts \subseteq Choice /\ usage \in BOOLEAN
  /\ todo \in Seq(Repertoire)
  /\ plan \in [Choice -> Seq(Repertoire)]
  /\ sent \in [Choice -> [Index -> 0..2]]
  /\ over \in BOOLEAN
  /\ ran \in Seq(Repertoire)
  /\ invocations \in 0..MaxInvocations
  /\ pc \in {"tools", "failed"} => role = ExecutorRole(agent)
  /\ pc = "tools" => todo # <<>>
  /\ pc = "idle" => role = None

(***************************************************************************)
(* Properties.                                                             *)
(***************************************************************************)
SentCalls ==
  LET complete == InOrder({i \in Index : sent[0][i] = 2})
  IN  [k \in DOMAIN complete |-> plan[0][complete[k] + 1]]

\* The calls that run are those the provider sent in its first choice, in
\* their order, after its [DONE], and none runs when another one of the answer
\* was cut: whatever order the pieces of several calls and choices came in and
\* wherever the stream ended (openrouter.rs:156-169, 310-439).
RunsWhatWasSent ==
  ran # <<>> =>
    /\ over
    /\ \A i \in Index : sent[0][i] # 1
    /\ IsPrefix(ran, SentCalls)

\* No call of an answer runs unless all of them are offered to the role and
\* carry fitting arguments: one bad call leaves the others undone too
\* (model.rs:224-240, workflow.rs:2316-2327).
AllOrNone ==
  ran # <<>> =>
    \A i \in DOMAIN SentCalls :
      /\ SentCalls[i].name \in
           {"read_file", "search_files", "diff", "import", "git"}
      /\ Fits(SentCalls[i])

\* What the provider is sent is a conversation it accepts: every call of an
\* assistant message has one result, and nothing comes between them, after any
\* number of turns (workflow.rs:2311-2337).
ConversationIsClosed ==
  pc \in {"sent", "streaming"} =>
    \A k \in DOMAIN conversation :
      LET message == conversation[k]
          n == Len(message.ids)
      IN  message.kind = "assistant" =>
            /\ k + n <= Len(conversation)
            /\ \A j \in 1..n : conversation[k + j].kind = "tool"
            /\ \/ k + n = Len(conversation)
               \/ conversation[k + n + 1].kind = "assistant"

\* An invocation ends, also when the provider stalls in the middle of an
\* answer or asks for tools in every one (openrouter.rs:15, workflow.rs:2292).
InvocationEnds == pc # "idle" ~> pc = "idle"
=============================================================================
