------------------------------ MODULE ChatTurn ------------------------------
(***************************************************************************)
(* The chat turns of aidream/http_api.py on a llama.cpp backend: the lock  *)
(* that admits one turn, the lease and the binding a turn takes, the       *)
(* conversation the backend keeps for each loaded model, the stream of the *)
(* answer, the client that may leave, and what is saved.                   *)
(*                                                                         *)
(* Every holder of _chat_lock is a value of turn; a handler that does not  *)
(* let go of the lock before it returns, and that nothing can interrupt,   *)
(* is one action.  A model stands for the scheduler's record, the          *)
(* adapter's handle and the backend's instance, which its adapter creates  *)
(* and drops together.  A conversation is the set of the exchanges in it,  *)
(* each told by the chat it belongs to and by how much of it is there.     *)
(***************************************************************************)
EXTENDS Naturals, Sequences, Keeping

CONSTANTS
  Chat,      \* saved chats
  Model,     \* models of the catalog that this backend can load
  Grounded,  \* chats whose settings enable knowledge
  Panel,     \* models that are also used from the model panel
  MaxCalls,  \* tool calls of one agent turn
  None       \* no model, no chat, no binding

ASSUME GroundedAssumption == Grounded \subseteq Chat
ASSUME PanelAssumption    == Panel \subseteq Model
ASSUME MaxCallsAssumption == MaxCalls \in Nat

Part == {"whole", "question", "cut"}  \* "cut": the answer lost its end
Item == [chat : Chat \cup {None}, part : Part]
PanelItem == [chat |-> None, part |-> "whole"]  \* of the model panel
Same == None  \* backend._messages is the list of the active instance

Binding == [model : Model, chat : Chat \cup {None}, kind : {"chat", "agent"}]
ASSUME NoneAssumption == None \notin Chat \cup Model \cup Binding

Turn    == [kind   : {"none", "chat", "agent", "run"},
            phase  : {"idle", "ready", "connecting", "reading", "asking",
                      "tools", "saving", "closing"},
            chat   : Chat \cup {None},
            model  : Model \cup {None},
            server : Model \cup {None},  \* the model the request went to
            sent   : SUBSET Item,        \* the conversation it carried
            cancel : BOOLEAN,            \* the event of the turn
            cut    : BOOLEAN,            \* its socket was shut down
            got    : BOOLEAN,            \* a delta has arrived
            part   : Part,               \* how much is to be saved
            calls  : 0..MaxCalls]        \* tools the agent has called

VARIABLES
  loaded,   \* models with an instance, in the order they were loaded
  alive,    \* those whose llama-server runs
  active,   \* backend._loaded_model, with _process and _base_url
  memo,     \* instance.messages
  shown,    \* backend._messages, which the next stream is sent with
  socket,   \* what backend._active_socket belongs to
  leases,   \* models a direct chat holds a lease on
  direct,   \* _direct_chat_lease
  binding,  \* _active_binding, with _active_backend
  kept,     \* the keys of _active_backends and _active_bindings
  chats,    \* chats the store has
  saved,    \* what is in them
  turn,     \* the holder of _chat_lock
  monitor,  \* the thread that watches the connection of the turn
  request   \* the thread of an agent's request to the model

engine == <<loaded, alive, active, memo, shown>>
hold   == <<leases, direct, binding, kept>>
store  == <<chats, saved>>
wire   == <<socket, request>>
vars   == <<engine, hold, store, wire, turn, monitor>>

-----------------------------------------------------------------------------
(* Reading the state.                                                      *)

NoTurn == [kind |-> "none", phase |-> "idle", chat |-> None, model |-> None,
           server |-> None, sent |-> {}, cancel |-> FALSE, cut |-> FALSE,
           got |-> FALSE, part |-> "whole", calls |-> 0]
Free   == turn = NoTurn
Serves == active \in alive
Sent   == IF shown = Same THEN memo[active] ELSE shown

Resident   == {loaded[i] : i \in DOMAIN loaded}
Without(S) == Keep(loaded, Model \ S)
First(s)   == IF s = <<>> THEN None ELSE Head(s)
Saved(c)   == {x \in saved : x.chat = c}
Bound(m, c, kind) == [model |-> m, chat |-> c, kind |-> kind]

\* Mutant: the agent binds the conversation it does not use.
AgentAsChat(m, c) == Bound(m, c, "chat")
AgentBinding(m, c) == Bound(m, c, "agent")

\* Mutant: a live process is enough.
HealthyIgnoringChat(b) ==
  Serves /\ binding # None /\ binding.model = b.model /\ binding.kind = b.kind
\* prepare_chat may go on with the conversation the backend has.
Healthy(b) == binding = b /\ Serves

-----------------------------------------------------------------------------
(* Pieces of actions.                                                      *)

\* The scheduler leases m to a direct chat, which does not share it.
Lease(m) ==
  /\ m \notin leases
  /\ leases' = leases \cup {m}
  /\ direct' = m

\* _sync_active_instance: the fields of the backend become those of m.
Activate(m) == active' = m /\ shown' = Same

\* The models of S are unloaded; what is left first becomes active.
Unload(S) ==
  /\ loaded' = Without(S)
  /\ alive'  = alive \ S
  /\ memo'   = [m \in Model |-> IF m \in S THEN {} ELSE memo[m]]
  /\ IF active \in S THEN Activate(First(Without(S))) ELSE UNCHANGED <<active, shown>>

\* A server is started for m, and spoken to from now on.
Load(m, history, list) ==
  /\ loaded' = Append(Without({m}), m)
  /\ alive'  = alive \cup {m}
  /\ active' = m
  /\ memo'   = [memo EXCEPT ![m] = history]
  /\ shown'  = list

\* restore_history: two lists, equal for now; refused by a dead server.
Restore(c) ==
  /\ Serves
  /\ memo'  = [memo EXCEPT ![active] = Saved(c)]
  /\ shown' = Saved(c)
  /\ UNCHANGED <<loaded, alive, active>>

\* _unload_active(): the lease it knows, then every model.  It stops at the
\* first one that another lease holds, and then b stays bound.
Leaked == leases \ {direct}
Clear(b) ==
  /\ leases' = Leaked /\ direct' = None
  /\ \E S \in SUBSET (Resident \ Leaked) :
       (Leaked = {} => S = Resident) /\ Unload(S)
  /\ binding' = IF Leaked = {} THEN None ELSE b
  /\ kept' = IF Leaked = {} THEN <<>> ELSE kept

\* The turn takes the lock, its lease and its place; its connection is
\* watched.
Take(kind, c, m) ==
  /\ Free
  /\ c \in chats
  /\ Lease(m)
  /\ turn'    = [NoTurn EXCEPT !.kind = kind, !.phase = "ready",
                               !.chat = c, !.model = m]
  /\ monitor' = "watch"
  /\ UNCHANGED <<kept, store, wire>>

Enter(phase) == turn' = [turn EXCEPT !.phase = phase]
In(kind, phase) == turn.kind = kind /\ turn.phase = phase

-----------------------------------------------------------------------------
Init ==
  /\ loaded = <<>> /\ alive = {} /\ active = None
  /\ memo = [m \in Model |-> {}] /\ shown = Same
  /\ socket = "none" /\ request = "none"
  /\ leases = {} /\ direct = None /\ binding = None /\ kept = <<>>
  /\ chats = Chat /\ saved = {}
  /\ turn = NoTurn /\ monitor = "off"

(* prepare_chat.  A resident model keeps its server: its history is        *)
(* restored unless the binding is healthy, in whatever instance is active, *)
(* and a failure to restore is swallowed.                                  *)
Bind(c, m) ==
  /\ binding' = Bound(m, c, "chat")
  /\ \/ m \notin Resident /\ Load(m, Saved(c), Saved(c))
     \/ m \in Resident /\ Healthy(Bound(m, c, "chat")) /\ UNCHANGED engine
     \/ m \in Resident /\ ~Healthy(Bound(m, c, "chat")) /\ Restore(c)
     \/ m \in Resident /\ ~Serves /\ UNCHANGED engine

PrepareChat(c, m) == Take("chat", c, m) /\ Bind(c, m)

\* Knowledge cannot be searched: the lock is returned, and nothing else.
GroundingFails(c, m) ==
  /\ Free
  /\ c \in chats \cap Grounded
  /\ Lease(m)
  /\ Bind(c, m)
  /\ UNCHANGED <<kept, store, wire, turn, monitor>>

\* The server dies between its load and the restore: m is unloaded again.
RestoreFails(c, m) ==
  /\ Free
  /\ c \in chats
  /\ m \notin leases \cup Resident
  /\ Activate(First(loaded))
  /\ UNCHANGED <<loaded, alive, memo, hold, store, wire, turn, monitor>>

\* prepare_agent restores nothing: the agent reads the saved chat itself.
PrepareAgent(c, m) ==
  /\ Take("agent", c, m)
  /\ IF m \in Resident THEN UNCHANGED engine ELSE Load(m, {}, Same)
  /\ binding' = AgentBinding(m, c)

\* The event is set already, or no server answers.
BeginFails ==
  /\ turn.phase = "ready"
  /\ turn.cancel \/ ~Serves
  /\ Enter("closing")
  /\ UNCHANGED <<engine, hold, store, wire, monitor>>

(* The stream of a chat: generate_stream and _read_stream.  A failure      *)
(* drops the user's message from the instance and makes its list the       *)
(* backend's.                                                              *)
Begin ==
  /\ In("chat", "ready") /\ ~turn.cancel /\ Serves
  /\ turn' = [turn EXCEPT !.phase = "connecting", !.server = active,
                          !.sent = Sent]
  /\ UNCHANGED <<engine, hold, store, wire, monitor>>

\* The headers are in: from here on the socket can be shut down.
Connect ==
  /\ In("chat", "connecting")
  /\ turn.server \in alive
  /\ Enter("reading")
  /\ socket' = "stream"
  /\ UNCHANGED <<engine, hold, store, request, monitor>>

RollBack ==
  /\ Enter("closing")
  /\ shown' = Same
  /\ UNCHANGED <<loaded, alive, active, memo, hold, store, request, monitor>>

\* Refused, timed out or reset before the headers.
ConnectFails ==
  /\ In("chat", "connecting")
  /\ RollBack
  /\ UNCHANGED socket

\* A delta is passed on to the client.
Delta ==
  /\ In("chat", "reading") /\ ~turn.cancel
  /\ turn' = [turn EXCEPT !.got = TRUE]
  /\ UNCHANGED <<engine, hold, store, wire, monitor>>

\* Mutant: nothing looks at the event between two lines of the stream.
CancelledBySocket ==
  /\ In("chat", "reading") /\ turn.cancel /\ turn.cut
  /\ RollBack
  /\ socket' = "none"
\* The event is seen before the next line, by the callback or at the end.
Cancelled ==
  /\ In("chat", "reading") /\ turn.cancel
  /\ RollBack
  /\ socket' = "none"

\* A time-out, a bad event, an answer over its limit, a client not there.
Fails ==
  /\ In("chat", "reading")
  /\ RollBack
  /\ socket' = "none"

\* The stream is over.  Without an answer the error is none of those that
\* drop the user's message.
Finish(part) ==
  /\ socket' = "none"
  /\ turn' = [turn EXCEPT !.phase = IF turn.got THEN "saving" ELSE "closing",
                          !.part = part]
  /\ memo' = [memo EXCEPT ![turn.server] = @ \cup
                {[chat |-> turn.chat,
                  part |-> IF turn.got THEN part ELSE "question"]}]
  /\ shown' = IF turn.got THEN Same ELSE shown
  /\ UNCHANGED <<loaded, alive, active, hold, store, request, monitor>>

\* [DONE] has been read; the event is not looked at any more.
Done == In("chat", "reading") /\ Finish("whole")

\* The connection ends without [DONE], which no cancelled turn takes for the
\* end of the answer.
Eof ==
  /\ In("chat", "reading") /\ ~turn.cancel
  /\ turn.cut \/ turn.server \notin alive
  /\ Finish("cut")

\* Both appends, the agent's audit included.
Save ==
  /\ turn.phase = "saving"
  /\ saved' = saved \cup {[chat |-> turn.chat, part |-> turn.part]}
  /\ Enter("closing")
  /\ UNCHANGED <<engine, hold, chats, wire, monitor>>

\* The first append fails, or only the second: a full disk, a blank answer.
SaveFails ==
  /\ turn.phase = "saving"
  /\ \/ UNCHANGED saved
     \/ saved' = saved \cup {[chat |-> turn.chat, part |-> "question"]}
  /\ Enter("closing")
  /\ UNCHANGED <<engine, hold, chats, wire, monitor>>

\* Mutant: a turn that was cancelled keeps its lease.
CloseUnlessCancelled ==
  /\ turn.phase = "closing"
  /\ monitor # "set"
  /\ leases' = IF turn.cancel THEN leases ELSE leases \ {turn.model}
  /\ direct' = IF direct = turn.model THEN None ELSE direct
  /\ turn' = NoTurn /\ monitor' = "off"
  /\ UNCHANGED <<engine, binding, kept, store, wire>>
\* ChatRun.close and AgentRun.close, once the monitor has been joined.
Close ==
  /\ turn.phase = "closing"
  /\ monitor # "set"
  /\ leases' = leases \ {turn.model}
  /\ direct' = IF direct = turn.model THEN None ELSE direct
  /\ turn' = NoTurn /\ monitor' = "off"
  /\ UNCHANGED <<engine, binding, kept, store, wire>>

(* The agent.  Its request runs on a thread of its own, with a copy of the *)
(* saved chat, and is left behind when the agent gives up.  Between two    *)
(* requests it reads the tools the model called; a read only tells the     *)
(* model something, and one that is given up changes nothing.              *)
AgentAsks ==
  /\ In("agent", "ready") /\ ~turn.cancel /\ Serves
  /\ request = "none"
  /\ turn' = [turn EXCEPT !.phase = "asking", !.server = active,
                          !.sent = Saved(turn.chat)]
  /\ request' = "asked"
  /\ UNCHANGED <<engine, hold, store, socket, monitor>>

RequestConnects ==
  /\ request = "asked"
  /\ request' = "reading" /\ socket' = "tools"
  /\ UNCHANGED <<engine, hold, store, turn, monitor>>

\* An answer is final, too long or asks for more tools than are left; or it
\* is an error; or it calls tools.
Answered ==
  \/ Enter("saving")
  \/ Enter("closing")
  \/ \E n \in 1..(MaxCalls - turn.calls) :
       turn' = [turn EXCEPT !.phase = "tools", !.calls = @ + n]

\* The request ends, well or not, and finds the agent waiting, or gone.
RequestEnds ==
  /\ request # "none"
  /\ request' = "none"
  /\ socket' = IF request = "reading" THEN "none" ELSE socket
  /\ IF In("agent", "asking") THEN Answered ELSE UNCHANGED turn
  /\ UNCHANGED <<engine, hold, store, monitor>>

\* Every tool has been read, or refused, or has failed; or a call made no
\* sense at all.
ToolsRead ==
  /\ In("agent", "tools") /\ ~turn.cancel
  /\ Enter("ready") \/ Enter("closing")
  /\ UNCHANGED <<engine, hold, store, wire, monitor>>

\* Cancelled, nothing is saved; at its time limit, what there is.
AgentStops ==
  /\ In("agent", "asking") \/ In("agent", "tools")
  /\ turn.cancel
  /\ Enter("closing")
  /\ UNCHANGED <<engine, hold, store, wire, monitor>>
AgentTimesOut ==
  /\ \/ In("agent", "asking") \/ In("agent", "tools")
     \/ In("agent", "ready") /\ turn.calls > 0
  /\ Enter("saving")
  /\ UNCHANGED <<engine, hold, store, wire, monitor>>

(* The client leaves; the monitor notices, sets the event, and then shuts  *)
(* down whatever socket the backend has registered.                        *)
ClientLeaves ==
  /\ monitor = "watch"
  /\ monitor' = "gone"
  /\ UNCHANGED <<engine, hold, store, wire, turn>>

Notice ==
  /\ monitor = "gone"
  /\ monitor' = "set"
  /\ turn' = [turn EXCEPT !.cancel = TRUE]
  /\ UNCHANGED <<engine, hold, store, wire>>

ShutDown(next) ==
  /\ monitor' = next
  /\ turn' = [turn EXCEPT !.cut = @ \/ socket = "stream"]
  /\ UNCHANGED <<engine, hold, store, wire>>

\* Mutant: the socket first, the event later.
CancelBackendFirst == monitor \in {"gone", "set"} /\ ShutDown(monitor)
CancelBackend == monitor = "set" /\ ShutDown("done")

(* The other holders of the lock.                                          *)

\* An orchestration run waits for the lock and clears the backend first.
RunStarts ==
  /\ Free /\ Leaked = {}
  /\ Clear(None)
  /\ turn' = [NoTurn EXCEPT !.kind = "run"]
  /\ UNCHANGED <<store, wire, monitor>>

RunLoads(m) ==
  /\ turn.kind = "run" /\ m \notin Resident
  /\ Load(m, {}, Same)
  /\ UNCHANGED <<hold, store, wire, turn, monitor>>

\* Nothing of it stays resident; a run of a chat has saved its exchange.
RunEnds ==
  /\ turn.kind = "run"
  /\ Unload(Resident)
  /\ binding' = None
  /\ \/ UNCHANGED saved
     \/ \E c \in chats : saved' = saved \cup {[chat |-> c, part |-> "whole"]}
  /\ turn' = NoTurn
  /\ UNCHANGED <<leases, direct, kept, chats, wire, monitor>>

\* load_model always starts a new server.
LoadModel(m) ==
  /\ Free /\ m \notin leases
  /\ Load(m, {}, Same)
  /\ binding' = Bound(m, None, "chat")
  /\ kept' = IF \E i \in DOMAIN kept : kept[i] = m THEN kept ELSE Append(kept, m)
  /\ UNCHANGED <<leases, direct, store, wire, turn, monitor>>

\* The old server is stopped, the new one does not come up.
ReloadFails(m) ==
  /\ Free /\ m \in Resident \ leases
  /\ Unload({m})
  /\ UNCHANGED <<hold, store, wire, turn, monitor>>

\* unload_model of one model; the first one loaded by hand is bound next.
UnloadModel(m) ==
  LET rest == Keep(kept, Model \ {m}) IN
  /\ Free
  /\ leases' = leases \ {direct} /\ direct' = None
  /\ IF m \in leases'
     THEN UNCHANGED <<engine, binding, kept>>
     ELSE /\ Unload({m} \cap Resident)
          /\ kept' = rest
          /\ binding' = IF binding = None \/ binding.model # m THEN binding
                        ELSE IF rest = <<>> THEN None
                        ELSE Bound(Head(rest), None, "chat")
  /\ UNCHANGED <<store, wire, turn, monitor>>

\* unload_model of all of them, and the end of the service.
UnloadAll ==
  /\ Free
  /\ Clear(binding)
  /\ UNCHANGED <<store, wire, turn, monitor>>

\* generate_active asks the active server, whose conversation keeps the
\* exchange, or the prompt alone when no answer came.
GenerateActive ==
  LET m == binding.model
      server == IF m \in Resident THEN active ELSE m IN
  /\ Free /\ binding # None /\ active # None /\ m \notin leases
  /\ \/ m \notin Resident /\ Load(m, {}, Same)
     \/ /\ m \in Resident => Serves
        /\ loaded' = IF m \in Resident THEN loaded ELSE Append(loaded, m)
        /\ alive' = alive \cup {server} /\ active' = server
        /\ memo' = [memo EXCEPT ![server] = @ \cup {PanelItem}]
        /\ shown' \in {IF m \in Resident THEN shown ELSE Same, Same}
     \/ m \in Resident /\ Serves /\ shown' = Same
          /\ UNCHANGED <<loaded, alive, active, memo>>
  /\ UNCHANGED <<hold, store, wire, turn, monitor>>

\* delete_chat forgets the conversation of the chat with the chat.
DeleteChat(c) ==
  /\ Free /\ c \in chats
  /\ chats' = chats \ {c} /\ saved' = saved \ Saved(c)
  /\ IF binding # None /\ binding.chat = c
     THEN Clear(None)
     ELSE UNCHANGED <<engine, hold>>
  /\ UNCHANGED <<wire, turn, monitor>>

\* A llama-server dies.
ServerDies(m) ==
  /\ m \in alive
  /\ alive' = alive \ {m}
  /\ UNCHANGED <<loaded, active, memo, shown, hold, store, wire, turn, monitor>>

-----------------------------------------------------------------------------
\* What _post_agent and _post_chat do on the thread of the request.
AgentHandler == AgentAsks \/ ToolsRead \/ AgentStops
Handler == AgentHandler \/ BeginFails \/ Begin \/ Cancelled
             \/ Connect \/ ConnectFails \/ Save \/ SaveFails \/ Close

Next ==
  \/ Handler
  \/ Delta \/ Fails \/ Done \/ Eof \/ AgentTimesOut
  \/ RequestConnects \/ RequestEnds
  \/ ClientLeaves \/ Notice \/ CancelBackend
  \/ RunStarts \/ RunEnds \/ UnloadAll \/ GenerateActive
  \/ \E m \in Panel : LoadModel(m) \/ ReloadFails(m)
  \/ \E m \in Model : RunLoads(m) \/ UnloadModel(m) \/ ServerDies(m)
  \/ \E c \in Chat : DeleteChat(c)
  \/ \E c \in Chat, m \in Model :
       PrepareChat(c, m) \/ GroundingFails(c, m) \/ RestoreFails(c, m)
         \/ PrepareAgent(c, m)

Spec == Init /\ [][Next]_vars

\* A handler goes on when it can; so do the monitor and the request of an
\* agent, which has a time-out.  A stream need not end.
Fairness == /\ WF_vars(Handler)
            /\ WF_vars(Notice) /\ WF_vars(CancelBackend)
            /\ WF_vars(RequestEnds)
FairSpec == Spec /\ Fairness

-----------------------------------------------------------------------------
\* The types of the variables; the active instance is a loaded one, and only
\* loaded ones have a live server.
TypeOK ==
  /\ loaded \in Seq(Model) /\ alive \subseteq Resident
  /\ active = None <=> loaded = <<>>
  /\ active # None => active \in Resident
  /\ memo \in [Model -> SUBSET Item]
  /\ shown = Same \/ shown \in SUBSET Item
  /\ socket \in {"none", "stream", "tools"}
  /\ request \in {"none", "asked", "reading"}
  /\ leases \subseteq Model /\ direct \in Model \cup {None}
  /\ binding \in Binding \cup {None} /\ kept \in Seq(Model)
  /\ chats \subseteq Chat /\ saved \in SUBSET Item
  /\ turn \in Turn
  /\ monitor \in {"off", "watch", "gone", "set", "done"}

\* Whoever finds the lock free finds no lease of an earlier turn, which would
\* keep its model from being used again.
LeasesEndWithTheirTurn == Free => leases = {} /\ direct = None

\* Whatever a turn went through, the next one starts from a sound backend.
TurnsLeaveNothingBehind == TypeOK /\ LeasesEndWithTheirTurn

\* A turn talks to the model it was given, and what it sends of earlier
\* exchanges are those of its own chat (or of the model panel).
TurnsFitTheirBinding ==
  turn.server # None =>
    /\ turn.server = turn.model
    /\ \A x \in turn.sent : x.chat \in {turn.chat, None}

\* A chat that is still bound to a live server goes on where it was left: the
\* next message is sent with every exchange that has been saved.
BoundChatIsRemembered ==
  (Free /\ binding # None /\ Healthy(Bound(active, binding.chat, "chat"))) =>
    {x \in Saved(binding.chat) : x.part # "question"} \subseteq Sent

\* Only a server that dies can leave a truncated answer in a chat; a client
\* that leaves cannot, whatever the monitor has done so far.
OnlyACrashCutsAnAnswer ==
  [][\A x \in saved' \ saved : x.part = "cut" => turn.server \notin alive]_vars

\* A client that has left is not kept waiting for: its turn ends and lets the
\* next one in, wherever the turn was.  A turn of the agent ends in any case,
\* however often the model asks for tools.
TurnsEnd == /\ monitor = "gone" ~> Free
            /\ turn.kind = "agent" ~> Free

=============================================================================
