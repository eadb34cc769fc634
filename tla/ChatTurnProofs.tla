---------------------------- MODULE ChatTurnProofs ----------------------------
(***************************************************************************)
(* What ChatTurn promises for every number of chats, tools and models of   *)
(* the panel.  Types and OnlyACrashCutsAnAnswer hold for every value of    *)
(* the constants.  That a turn leaves no lease is proved for searches that *)
(* succeed, for GroundingFails is the step that forgets one.  What a chat  *)
(* sends and remembers is proved for a backend with one model: with more,  *)
(* history may be restored into another instance (prepare_chat), and what  *)
(* the conversation of a chat is then is open.                             *)
(*                                                                         *)
(* The invariant is that of the lock (LInv), from which follow who holds   *)
(* the lease (Leases) and whose the conversation is (Talk).                *)
(***************************************************************************)
EXTENDS ChatTurn, KeepingProofs

-----------------------------------------------------------------------------
(* Types.                                                                  *)

\* The fields of the backend, and all the others.
Engine ==
  /\ loaded \in Seq(Model) /\ alive \subseteq Resident
  /\ active = None <=> loaded = <<>>
  /\ active # None => active \in Resident
  /\ memo \in [Model -> SUBSET Item]
  /\ shown = Same \/ shown \in SUBSET Item
Rest ==
  /\ socket \in {"none", "stream", "tools"}
  /\ request \in {"none", "asked", "reading"}
  /\ leases \subseteq Model /\ direct \in Model \cup {None}
  /\ binding \in Binding \cup {None} /\ kept \in Seq(Model)
  /\ chats \subseteq Chat /\ saved \in SUBSET Item
  /\ turn \in Turn
  /\ monitor \in {"off", "watch", "gone", "set", "done"}

\* Type correctness is that of the two parts.
LEMMA TypeParts == TypeOK <=> Engine /\ Rest
BY DEF TypeOK, Engine, Rest

\* The resident models are those in the list of instances.
LEMMA ResidentIsSet == Resident = ToSet(loaded)
BY DEF Resident, ToSet

\* What is resident are models, none of them None.
LEMMA ResidentType ==
  ASSUME Engine PROVE Resident \subseteq Model /\ None \notin Resident /\ None \notin alive
<1>1. ToSet(loaded) \subseteq Model  BY ToSetOfSeq DEF Engine
<1>. QED  BY <1>1, ResidentIsSet, NoneAssumption DEF Engine

\* An instance is dropped, and the others stay in their order.
LEMMA WithoutFacts ==
  ASSUME Engine, NEW S
  PROVE  Without(S) \in Seq(Model) /\ ToSet(Without(S)) = Resident \ S
<1>1. loaded \in Seq(Model)  BY DEF Engine
<1>2. /\ Keep(loaded, Model \ S) \in Seq(Model)
      /\ ToSet(Keep(loaded, Model \ S)) = ToSet(loaded) \cap (Model \ S)
  BY <1>1, KeepInS
<1>. QED  BY <1>2, ResidentType, ResidentIsSet DEF Without

\* The first of the instances that are left, None when there is none.
LEMMA FirstFacts ==
  ASSUME NEW s \in Seq(Model)
  PROVE  /\ First(s) = None <=> s = <<>>
         /\ First(s) # None => First(s) \in ToSet(s)
<1>1. s # <<>> => Head(s) \in Model /\ Head(s) = s[1] /\ 1 \in DOMAIN s  OBVIOUS
<1>. QED  BY <1>1, NoneAssumption DEF First, ToSet

\* What is saved of a chat are exchanges.
LEMMA SavedType == ASSUME Rest, NEW c PROVE Saved(c) \in SUBSET Item
BY DEF Rest, Saved

\* A model that is loaded is served by a live server, with the history it was given.
LEMMA LoadFacts ==
  ASSUME Engine, NEW m \in Model, NEW history \in SUBSET Item,
         NEW list, list = Same \/ list \in SUBSET Item, Load(m, history, list)
  PROVE  /\ Engine' /\ Resident' = Resident \cup {m} /\ Serves'
         /\ active' = m /\ memo'[m] = history /\ shown' = list
<1>1. Without({m}) \in Seq(Model) /\ ToSet(Without({m})) = Resident \ {m}  BY WithoutFacts
<1>2. loaded' = Append(Without({m}), m)  BY DEF Load
<1>3. loaded' \in Seq(Model) /\ loaded' # <<>>  BY <1>1, <1>2
<1>4. ToSet(loaded') = (Resident \ {m}) \cup {m}
  <2>. DEFINE s == Without({m})
  <2>1. s \in Seq(Model) /\ ToSet(s) = Resident \ {m} /\ loaded' = Append(s, m)  BY <1>1, <1>2
  <2>. HIDE DEF s
  <2>2. ToSet(Append(s, m)) = ToSet(s) \cup {m}  BY <2>1, ToSetAppend
  <2>. QED  BY <2>1, <2>2
<1>5. Resident' = Resident \cup {m}  BY <1>4, ResidentIsSet DEF Resident, ToSet
<1>6. m # None  BY NoneAssumption
<1>. QED  BY <1>3, <1>5, <1>6 DEF Load, Engine, Serves

\* Unloading drops instances with their servers, and spares all others.
LEMMA UnloadFacts ==
  ASSUME Engine, NEW S \in SUBSET Resident, Unload(S)
  PROVE  /\ Engine' /\ Resident' = Resident \ S /\ alive' = alive \ S
         /\ \/ active \notin S /\ UNCHANGED <<active, shown>>
            \/ active \in S /\ shown' = Same
         /\ \A m \in Model \ S : memo'[m] = memo[m]
<1>1. Without(S) \in Seq(Model) /\ ToSet(Without(S)) = Resident \ S  BY WithoutFacts
<1>2. loaded' = Without(S)  BY DEF Unload
<1>3. Resident' = Resident \ S  BY <1>1, <1>2, ResidentIsSet DEF Resident, ToSet
<1>4. /\ First(Without(S)) = None <=> Without(S) = <<>>
      /\ First(Without(S)) # None => First(Without(S)) \in ToSet(Without(S))
  BY <1>1, FirstFacts
<1>5. First(Without(S)) # None => First(Without(S)) \in Resident \ S  BY <1>1, <1>4
<1>6. active' = None <=> loaded' = <<>>
  <2>1. CASE active \in S  BY <1>2, <1>4, <2>1 DEF Unload, Activate
  <2>2. CASE active \notin S
    <3>1. active' = active  BY <2>2 DEF Unload
    <3>2. CASE active = None
      <4>1. loaded = <<>>  BY <3>2 DEF Engine
      <4>2. Resident = {}  BY <4>1 DEF Resident
      <4>3. ToSet(Without(S)) = {}  BY <1>1, <4>2
      <4>4. Without(S) = <<>>  BY <1>1, <4>3 DEF ToSet
      <4>. QED  BY <1>2, <3>1, <3>2, <4>4
    <3>3. CASE active # None
      <4>1. active \in ToSet(Without(S))  BY <1>1, <2>2, <3>3 DEF Engine
      <4>2. Without(S) # <<>>  BY <4>1 DEF ToSet
      <4>. QED  BY <1>2, <3>1, <3>3, <4>2
    <3>. QED  BY <3>2, <3>3
  <2>. QED  BY <2>1, <2>2
<1>7. active' # None => active' \in Resident'
  BY <1>3, <1>5 DEF Unload, Activate, Engine
<1>. QED  BY <1>1, <1>2, <1>3, <1>6, <1>7 DEF Unload, Activate, Engine

\* A restored history is that of the instance that is active.
LEMMA RestoreFacts ==
  ASSUME Engine, Rest, NEW c, Restore(c)
  PROVE  /\ Engine' /\ Resident' = Resident /\ UNCHANGED <<alive, active>> /\ Serves
         /\ memo'[active] = Saved(c) /\ shown' = Saved(c)
<1>1. Saved(c) \in SUBSET Item  BY SavedType
<1>2. active \in Model  BY ResidentType DEF Restore, Serves, Engine
<1>3. Resident' = Resident  BY DEF Restore, Resident
<1>. QED  BY <1>1, <1>2, <1>3 DEF Restore, Engine, Same

\* The backend as it was.
LEMMA EngineStays ==
  ASSUME Engine, UNCHANGED engine PROVE Engine' /\ Resident' = Resident
BY DEF Engine, engine, Resident


\* The lock, the lease and the binding of a new turn.
LEMMA BindEngine ==
  ASSUME Engine, Rest, NEW c \in Chat, NEW m \in Model, Bind(c, m)
  PROVE  Engine'
<1>1. Saved(c) \in SUBSET Item  BY SavedType
<1>2. CASE Load(m, Saved(c), Saved(c))  BY <1>1, <1>2, LoadFacts
<1>3. CASE UNCHANGED engine  BY <1>3, EngineStays
<1>4. CASE Restore(c)  BY <1>4, RestoreFacts
<1>. QED  BY <1>2, <1>3, <1>4 DEF Bind

\* The panel speaks with the active instance, which it may have to load.
LEMMA GenerateEngine == ASSUME Engine, Rest, GenerateActive PROVE Engine'
<1>. DEFINE m == binding.model
            server == IF m \in Resident THEN active ELSE m
<1>1. /\ active # None /\ binding # None /\ active \in Model /\ m \in Model
      /\ server \in Model /\ active \in Resident
  BY ResidentType DEF GenerateActive, Rest, Binding, Engine
<1>2. CASE Load(m, {}, Same)  BY <1>1, <1>2, LoadFacts
<1>3. CASE /\ loaded' = IF m \in Resident THEN loaded ELSE Append(loaded, m)
           /\ alive' = alive \cup {server} /\ active' = server
           /\ memo' = [memo EXCEPT ![server] = @ \cup {PanelItem}]
           /\ shown' \in {IF m \in Resident THEN shown ELSE Same, Same}
  <2>1. loaded' \in Seq(Model) /\ loaded' # <<>>  BY <1>1, <1>3 DEF Engine, Resident
  <2>2. Resident' = Resident \cup {server}
    <3>1. CASE m \in Resident
      <4>1. Resident' = Resident  BY <1>3, <3>1 DEF Resident
      <4>. QED  BY <1>1, <3>1, <4>1
    <3>2. CASE m \notin Resident
      <4>1. ToSet(loaded') = ToSet(loaded) \cup {m}
        BY <1>1, <1>3, <3>2, ToSetAppend DEF Engine
      <4>. QED  BY <3>2, <4>1, ResidentIsSet DEF Resident, ToSet
    <3>. QED  BY <3>1, <3>2
  <2>3. PanelItem \in Item  BY DEF PanelItem, Item, Part
  <2>4. memo' \in [Model -> SUBSET Item]  BY <1>1, <1>3, <2>3 DEF Engine
  <2>5. alive' \subseteq Resident' /\ active' \in Resident' /\ active' # None
    BY <1>1, <1>3, <2>2, NoneAssumption DEF Engine
  <2>6. shown' = Same \/ shown' \in SUBSET Item  BY <1>3 DEF Engine
  <2>. QED  BY <2>1, <2>4, <2>5, <2>6 DEF Engine
<1>4. CASE m \in Resident /\ Serves /\ shown' = Same /\ UNCHANGED <<loaded, alive, active, memo>>
  BY <1>4 DEF Engine, Resident
<1>. QED  BY <1>2, <1>3, <1>4 DEF GenerateActive

\* An answer is put into the conversation of the model that gave it.
LEMMA FinishEngine == ASSUME Engine, Rest, NEW part \in Part, Finish(part) PROVE Engine'
<1>1. [chat |-> turn.chat, part |-> IF turn.got THEN part ELSE "question"] \in Item
  BY DEF Rest, Turn, Item, Part
<1>2. memo' \in [Model -> SUBSET Item]  BY <1>1 DEF Finish, Engine
<1>. QED  BY <1>2 DEF Finish, Engine, Resident, Same

\* Every step leaves a sound backend.
LEMMA EngineStep == ASSUME Engine, Rest, [Next]_vars PROVE Engine'
<1>1. CASE UNCHANGED engine  BY <1>1, EngineStays
<1>2. CASE RollBack  BY <1>2 DEF RollBack, Engine, Resident
<1>3. ASSUME NEW part \in {"whole", "cut"}, Finish(part) PROVE Engine'
  BY <1>3, FinishEngine DEF Part
<1>4. ASSUME NEW S \in SUBSET Resident, Unload(S) PROVE Engine'  BY <1>4, UnloadFacts
<1>5. ASSUME NEW b, Clear(b) PROVE Engine'  BY <1>4, <1>5 DEF Clear
<1>6. ASSUME NEW m \in Model, Load(m, {}, Same) PROVE Engine'  BY <1>6, LoadFacts
<1>7. ASSUME NEW m \in Model, ServerDies(m) PROVE Engine'
  BY <1>7 DEF ServerDies, Engine, Resident
<1>8. ASSUME NEW m \in Model, RunLoads(m) \/ UnloadModel(m) PROVE Engine'
  BY <1>1, <1>4, <1>6, <1>8 DEF RunLoads, UnloadModel
<1>9. ASSUME NEW m \in Panel, LoadModel(m) \/ ReloadFails(m) PROVE Engine'
  BY <1>4, <1>6, <1>9, PanelAssumption DEF LoadModel, ReloadFails
<1>10. ASSUME NEW c \in Chat, DeleteChat(c) PROVE Engine'
  BY <1>1, <1>5, <1>10 DEF DeleteChat
<1>11. ASSUME NEW c \in Chat, NEW m \in Model,
              PrepareChat(c, m) \/ GroundingFails(c, m) \/ RestoreFails(c, m) \/ PrepareAgent(c, m)
       PROVE  Engine'
  <2>1. CASE PrepareChat(c, m) \/ GroundingFails(c, m)
    BY <2>1, BindEngine DEF PrepareChat, GroundingFails
  <2>2. CASE PrepareAgent(c, m)  BY <1>1, <1>6, <2>2 DEF PrepareAgent
  <2>3. CASE RestoreFails(c, m)
    <3>1. /\ First(loaded) = None <=> loaded = <<>>
          /\ First(loaded) # None => First(loaded) \in ToSet(loaded)
      BY FirstFacts DEF Engine
    <3>. QED  BY <2>3, <3>1, ResidentIsSet DEF RestoreFails, Activate, Engine, Resident
  <2>. QED  BY <1>11, <2>1, <2>2, <2>3
<1>12. CASE RunStarts \/ RunEnds \/ UnloadAll
  BY <1>4, <1>5, <1>12 DEF RunStarts, RunEnds, UnloadAll
<1>13. CASE Handler \/ Delta \/ Fails \/ Done \/ Eof \/ AgentTimesOut
              \/ RequestConnects \/ RequestEnds \/ ClientLeaves \/ Notice \/ CancelBackend
              \/ UNCHANGED vars
  BY <1>1, <1>2, <1>3, <1>13
  DEF Handler, AgentHandler, AgentAsks, ToolsRead, AgentStops, BeginFails, Begin, Cancelled,
      Connect, ConnectFails, Save, SaveFails, Close, Delta, Fails, Done, Eof, AgentTimesOut,
      RequestConnects, RequestEnds, ClientLeaves, Notice, CancelBackend, ShutDown, vars
<1>. QED  BY <1>7, <1>8, <1>9, <1>10, <1>11, <1>12, <1>13, GenerateEngine DEF Next


\* The phases of a turn.
Phase == {"idle", "ready", "connecting", "reading", "asking", "tools", "saving", "closing"}

\* A binding is a record of its type.
LEMMA BoundType ==
  ASSUME NEW m \in Model, NEW c \in Chat \cup {None}, NEW kind \in {"chat", "agent"}
  PROVE  Bound(m, c, kind) \in Binding
BY DEF Bound, Binding

\* So is the turn of nobody, or of a run.
LEMMA NoTurnType == NoTurn \in Turn /\ [NoTurn EXCEPT !.kind = "run"] \in Turn
<1>1. 0 \in 0..MaxCalls /\ {} \in SUBSET Item  BY MaxCallsAssumption
<1>2. NoTurn \in Turn  BY <1>1 DEF NoTurn, Turn, Part
<1>. QED  BY <1>2 DEF Turn

\* The fields of a turn that its steps change.
LEMMA TurnFields ==
  ASSUME turn \in Turn
  PROVE  /\ \A p \in Phase : [turn EXCEPT !.phase = p] \in Turn
         /\ \A p \in Phase, m \in Model \cup {None}, S \in SUBSET Item :
              [turn EXCEPT !.phase = p, !.server = m, !.sent = S] \in Turn
         /\ \A p \in Phase, part \in Part : [turn EXCEPT !.phase = p, !.part = part] \in Turn
         /\ \A p \in Phase, n \in 0..MaxCalls : [turn EXCEPT !.phase = p, !.calls = n] \in Turn
         /\ [turn EXCEPT !.got = TRUE] \in Turn /\ [turn EXCEPT !.cancel = TRUE] \in Turn
         /\ \A x \in BOOLEAN : [turn EXCEPT !.cut = x] \in Turn
<1>1. \A p \in Phase : [turn EXCEPT !.phase = p] \in Turn  BY DEF Turn, Phase
<1>2. \A p \in Phase, m \in Model \cup {None}, S \in SUBSET Item :
              [turn EXCEPT !.phase = p, !.server = m, !.sent = S] \in Turn  BY DEF Turn, Phase
<1>3. \A p \in Phase, part \in Part : [turn EXCEPT !.phase = p, !.part = part] \in Turn
   BY DEF Turn, Phase
<1>4. \A p \in Phase, n \in 0..MaxCalls : [turn EXCEPT !.phase = p, !.calls = n] \in Turn
   BY DEF Turn, Phase
<1>5. [turn EXCEPT !.got = TRUE] \in Turn /\ [turn EXCEPT !.cancel = TRUE] \in Turn BY DEF Turn
<1>6. \A x \in BOOLEAN : [turn EXCEPT !.cut = x] \in Turn BY DEF Turn
<1>. QED  BY <1>1, <1>2, <1>3, <1>4, <1>5, <1>6

\* A new turn is a turn.
LEMMA TakeType ==
  ASSUME Rest, NEW m \in Model, NEW c \in Chat, NEW kind \in {"chat", "agent"}, Take(kind, c, m)
  PROVE  /\ turn' \in Turn /\ leases' \subseteq Model /\ direct' \in Model
         /\ monitor' = "watch" /\ UNCHANGED <<kept, store, wire>>
<1>1. [NoTurn EXCEPT !.kind = kind, !.phase = "ready", !.chat = c, !.model = m] \in Turn
  BY NoTurnType DEF Turn
<1>. QED  BY <1>1 DEF Take, Lease, Rest

\* After the backend was cleared the lease and the binding have their types.
LEMMA ClearType ==
  ASSUME Rest, NEW b \in Binding \cup {None}, Clear(b)
  PROVE  /\ leases' \subseteq Model /\ direct' = None /\ binding' \in Binding \cup {None}
         /\ kept' \in Seq(Model)
BY DEF Rest, Clear, Leaked

\* Every step keeps the types of the other variables.
LEMMA RestStep == ASSUME Engine, Rest, [Next]_vars PROVE Rest'
<1>1. CASE \/ BeginFails \/ Begin \/ Delta \/ AgentStops \/ AgentTimesOut \/ ToolsRead
           \/ \E m \in Model : RunLoads(m) \/ ServerDies(m)
           \/ \E m \in Panel : ReloadFails(m)
           \/ \E c \in Chat, m \in Model : RestoreFails(c, m)
           \/ GenerateActive \/ UNCHANGED vars
  <2>0. turn \in Turn /\ active \in Model \cup {None}
    BY ResidentType DEF Rest, Engine
  <2>1. turn' \in Turn
    <3>1. CASE Begin
      <4>1. Sent \in SUBSET Item  BY <3>1, ResidentType DEF Begin, Sent, Engine, Serves
      <4>. QED  BY <3>1, <2>0, <4>1, TurnFields DEF Begin, Phase
    <3>2. CASE BeginFails \/ Delta \/ AgentStops \/ AgentTimesOut \/ ToolsRead
      BY <3>2, <2>0, TurnFields
      DEF BeginFails, Delta, AgentStops, AgentTimesOut, ToolsRead, Enter, Phase
    <3>3. ASSUME UNCHANGED turn PROVE turn' \in Turn  BY <2>0, <3>3
    <3>. QED  BY <1>1, <3>1, <3>2, <3>3
         DEF RunLoads, ServerDies, ReloadFails, RestoreFails, GenerateActive, vars
  <2>2. UNCHANGED <<hold, store, wire, monitor>>
    BY <1>1 DEF BeginFails, Begin, Delta, AgentStops, AgentTimesOut, ToolsRead, RunLoads, ServerDies,
              ReloadFails, RestoreFails, GenerateActive, vars
  <2>. QED  BY <2>1, <2>2 DEF Rest, hold, store, wire
<1>2. CASE \/ Connect \/ ConnectFails \/ Cancelled \/ Fails \/ Done \/ Eof
           \/ RequestConnects \/ ClientLeaves \/ Notice \/ CancelBackend
  <2>0. turn \in Turn /\ (turn.cut \/ socket = "stream") \in BOOLEAN  BY DEF Rest, Turn
  <2>1. turn' \in Turn
    BY <1>2, <2>0, TurnFields
    DEF Connect, ConnectFails, Cancelled, Fails, Done, Eof, RequestConnects, ClientLeaves,
                Notice, CancelBackend, ShutDown, Enter, RollBack, Finish, Phase, Part
  <2>2. /\ socket' \in {"none", "stream", "tools"} /\ request' \in {"none", "asked", "reading"}
        /\ monitor' \in {"off", "watch", "gone", "set", "done"} /\ UNCHANGED <<hold, store>>
    BY <1>2 DEF Connect, ConnectFails, Cancelled, Fails, Done, Eof, RequestConnects, ClientLeaves,
                Notice, CancelBackend, ShutDown, RollBack, Finish, Rest, wire
  <2>. QED  BY <2>1, <2>2 DEF Rest, hold, store
<1>3. CASE Save \/ SaveFails
  <2>1. \A part \in Part : [chat |-> turn.chat, part |-> part] \in Item  BY DEF Rest, Turn, Item
  <2>2. turn' \in Turn  BY <1>3 DEF Save, SaveFails, Enter, Rest, Turn
  <2>3. saved' \in SUBSET Item  BY <1>3, <2>1 DEF Save, SaveFails, Rest, Turn, Part
  <2>. QED  BY <1>3, <2>2, <2>3 DEF Save, SaveFails, Rest, hold, wire
<1>4. CASE Close  BY <1>4, NoTurnType DEF Close, Rest, store, wire
<1>5. CASE AgentAsks
  <2>0. turn \in Turn /\ active \in Model \cup {None} /\ Saved(turn.chat) \in SUBSET Item
    BY ResidentType, SavedType DEF Rest, Engine
  <2>1. turn' \in Turn  BY <1>5, <2>0, TurnFields DEF AgentAsks, Phase
  <2>. QED  BY <1>5, <2>1 DEF AgentAsks, Rest, hold, store
<1>6. CASE RequestEnds
  <2>1. ASSUME NEW n \in 1..(MaxCalls - turn.calls)
        PROVE  [turn EXCEPT !.phase = "tools", !.calls = @ + n] \in Turn
    <3>1. turn.calls \in 0..MaxCalls  BY DEF Rest, Turn
    <3>2. turn.calls + n \in 0..MaxCalls  BY <3>1, MaxCallsAssumption
    <3>. QED  BY <3>2, TurnFields DEF Rest, Phase
  <2>2. Answered => turn' \in Turn  BY <2>1, TurnFields DEF Answered, Enter, Rest, Phase
  <2>3. turn' \in Turn  BY <1>6, <2>2 DEF RequestEnds, Rest
  <2>. QED  BY <1>6, <2>3 DEF RequestEnds, Rest, hold, store
<1>7. CASE RunStarts
  <2>1. turn' \in Turn  BY <1>7, NoTurnType DEF RunStarts
  <2>. QED  BY <1>7, <2>1, ClearType DEF RunStarts, Rest, store, wire
<1>8. CASE RunEnds
  <2>1. \A c \in Chat : [chat |-> c, part |-> "whole"] \in Item  BY DEF Item, Part
  <2>2. saved' \in SUBSET Item  BY <1>8, <2>1 DEF RunEnds, Rest
  <2>. QED  BY <1>8, <2>2, NoTurnType DEF RunEnds, Rest, wire
<1>9. CASE UnloadAll
  <2>1. binding \in Binding \cup {None}  BY DEF Rest
  <2>. QED  BY <1>9, <2>1, ClearType DEF UnloadAll, Rest, store, wire
<1>10. ASSUME NEW m \in Panel, LoadModel(m) PROVE Rest'
  <2>1. m \in Model  BY PanelAssumption
  <2>2. binding' \in Binding  BY <1>10, <2>1, BoundType DEF LoadModel
  <2>3. kept' \in Seq(Model)  BY <1>10, <2>1 DEF LoadModel, Rest
  <2>. QED  BY <1>10, <2>2, <2>3 DEF LoadModel, Rest, store, wire
<1>11. ASSUME NEW m \in Model, UnloadModel(m) PROVE Rest'
  <2>. DEFINE rest == Keep(kept, Model \ {m})
  <2>1. rest \in Seq(Model)
    <3>1. kept \in Seq(Model)  BY DEF Rest
    <3>. QED  BY <3>1, KeepInS
  <2>2. rest # <<>> => Bound(Head(rest), None, "chat") \in Binding  BY <2>1, BoundType
  <2>3. kept' \in {kept, rest} /\ binding' \in {binding, None, Bound(Head(rest), None, "chat")}
        /\ (binding' = Bound(Head(rest), None, "chat") => rest # <<>> \/ binding' \in {binding, None})
    BY <1>11 DEF UnloadModel
  <2>4. leases' \subseteq Model /\ direct' = None  BY <1>11 DEF UnloadModel, Rest
  <2>5. UNCHANGED <<store, wire, turn, monitor>>  BY <1>11 DEF UnloadModel
  <2>. HIDE DEF rest
  <2>. QED  BY <2>1, <2>2, <2>3, <2>4, <2>5 DEF Rest, store, wire
<1>12. ASSUME NEW c \in Chat, DeleteChat(c) PROVE Rest'
  <2>1. leases' \subseteq Model /\ direct' \in Model \cup {None} /\ kept' \in Seq(Model)
        /\ binding' \in Binding \cup {None}
    BY <1>12, ClearType DEF DeleteChat, Rest, hold
  <2>. QED  BY <1>12, <2>1 DEF DeleteChat, Rest, wire
<1>13. ASSUME NEW c \in Chat, NEW m \in Model,
              PrepareChat(c, m) \/ GroundingFails(c, m) \/ PrepareAgent(c, m)
       PROVE  Rest'
  <2>1. binding' \in Binding
    BY <1>13, BoundType DEF PrepareChat, GroundingFails, PrepareAgent, Bind, AgentBinding
  <2>2. CASE PrepareChat(c, m)  BY <2>1, <2>2, TakeType DEF PrepareChat, Rest, store, wire
  <2>3. CASE PrepareAgent(c, m)  BY <2>1, <2>3, TakeType DEF PrepareAgent, Rest, store, wire
  <2>4. CASE GroundingFails(c, m)  BY <2>1, <2>4 DEF GroundingFails, Lease, Rest, store, wire
  <2>. QED  BY <1>13, <2>2, <2>3, <2>4
<1>. QED
  BY <1>1, <1>2, <1>3, <1>4, <1>5, <1>6, <1>7, <1>8, <1>9, <1>10, <1>11, <1>12, <1>13
  DEF Next, Handler, AgentHandler

-----------------------------------------------------------------------------
(* Who holds the lock.                                                     *)

\* The lock is held by a chat or an agent.
Talks == turn.kind \in {"chat", "agent"}

\* The lock is free, a run has it, or a turn whose connection is watched.
Locked ==
  /\ turn.kind = "none" => Free
  /\ turn.kind = "run" => turn = [NoTurn EXCEPT !.kind = "run"]
  /\ ~Talks => monitor = "off"
  /\ Talks => turn.phase # "idle" /\ turn.chat # None /\ turn.model # None

\* The socket of a turn is shut down after its event has been set.
Told ==
  /\ monitor \in {"set", "done"} => turn.cancel
  /\ turn.cut => turn.cancel

\* An answer that lost its end did so because the server died.
Cuts == turn.part = "cut" => turn.phase \in {"saving", "closing"} /\ turn.server \notin alive

\* The binding is that of the turn, while there is one.
Binds ==
  /\ Talks => binding = Bound(turn.model, turn.chat, turn.kind)
  /\ turn.kind = "run" => binding = None

\* The invariant of the lock.
LInv == Locked /\ Told /\ Cuts /\ Binds

\* What is done while nobody holds the lock.
LEMMA FreeSteps ==
  ASSUME LInv, Free, UNCHANGED <<turn, monitor>> PROVE LInv'
BY DEF LInv, Free, NoTurn, Locked, Told, Cuts, Binds, Talks

\* A turn takes the lock, and binds the chat to its model.
LEMMA TakeLock ==
  ASSUME Rest, LInv, NEW kind \in {"chat", "agent"}, NEW c \in Chat, NEW m \in Model,
         Take(kind, c, m), binding' = Bound(m, c, kind)
  PROVE  LInv'
<1>1. /\ turn'.kind = kind /\ turn'.phase = "ready" /\ turn'.chat = c /\ turn'.model = m
      /\ turn'.part = "whole" /\ turn'.cut = FALSE /\ turn'.cancel = FALSE
  BY DEF Take, NoTurn
<1>2. monitor' = "watch"  BY DEF Take
<1>3. c # None /\ m # None  BY NoneAssumption
<1>. QED  BY <1>1, <1>2, <1>3 DEF LInv, Locked, Told, Cuts, Binds, Talks

\* A step of a turn: it keeps the lock, its chat, its model and its binding.
LEMMA TurnGoesOn ==
  ASSUME Rest, LInv, Talks, UNCHANGED <<binding, alive>>,
         turn'.kind = turn.kind, turn'.chat = turn.chat, turn'.model = turn.model,
         turn'.phase # "idle", Told', Cuts'
  PROVE  LInv'
BY DEF LInv, Locked, Binds, Talks

\* What a turn, its monitor and the request of its agent do.
TurnStep ==
  \/ Handler \/ Delta \/ Fails \/ Done \/ Eof \/ AgentTimesOut
  \/ ClientLeaves \/ Notice \/ CancelBackend \/ RequestEnds \/ RequestConnects

\* Until its end a turn is the same turn, and leaves alone what it has taken.
LEMMA TurnKeeps ==
  ASSUME Rest, TurnStep, ~Close
  PROVE  /\ turn'.kind = turn.kind /\ turn'.chat = turn.chat /\ turn'.model = turn.model
         /\ UNCHANGED <<hold, loaded, alive, active, chats>>
<1>1. turn \in Turn  BY DEF Rest
<1>2. /\ turn'.kind = turn.kind /\ turn'.chat = turn.chat /\ turn'.model = turn.model
  BY <1>1
  DEF TurnStep, Turn, Handler, AgentHandler, AgentAsks, ToolsRead, AgentStops, BeginFails, Begin,
      Cancelled, Connect, ConnectFails, Save, SaveFails, Delta, Fails, Done, Eof, AgentTimesOut,
      RequestEnds, RequestConnects, Answered, ClientLeaves, Notice, CancelBackend, ShutDown, Enter,
      RollBack, Finish
<1>3. UNCHANGED <<hold, loaded, alive, active, chats>>
  BY DEF TurnStep, Handler, AgentHandler, AgentAsks, ToolsRead, AgentStops, BeginFails, Begin,
      Cancelled, Connect, ConnectFails, Save, SaveFails, Delta, Fails, Done, Eof, AgentTimesOut,
      RequestEnds, RequestConnects, ClientLeaves, Notice, CancelBackend, ShutDown, RollBack, Finish,
      engine, store
<1>. QED  BY <1>2, <1>3

\* Every step keeps the invariant of the lock.
LEMMA LockStep == ASSUME Engine, Rest, LInv, [Next]_vars PROVE LInv'
<1>0. turn \in Turn  BY DEF Rest
<1>1. CASE \/ UnloadAll \/ GenerateActive
           \/ \E m \in Panel : LoadModel(m) \/ ReloadFails(m)
           \/ \E m \in Model : UnloadModel(m)
           \/ \E c \in Chat : DeleteChat(c)
           \/ \E c \in Chat, m \in Model : GroundingFails(c, m) \/ RestoreFails(c, m)
  <2>1. Free /\ UNCHANGED <<turn, monitor>>
    BY <1>1 DEF UnloadAll, GenerateActive, LoadModel, ReloadFails, UnloadModel, DeleteChat,
                GroundingFails, RestoreFails
  <2>. QED  BY <2>1, FreeSteps
<1>2. CASE \E c \in Chat, m \in Model : PrepareChat(c, m) \/ PrepareAgent(c, m)
  <2>1. PICK c \in Chat, m \in Model : PrepareChat(c, m) \/ PrepareAgent(c, m)  BY <1>2
  <2>. QED  BY <2>1, TakeLock DEF PrepareChat, PrepareAgent, Bind, AgentBinding
<1>3. CASE RunStarts \/ RunEnds \/ \E m \in Model : RunLoads(m)
  <2>1. ~Talks /\ monitor = "off" /\ monitor' = "off"
    BY <1>3 DEF LInv, Locked, Talks, RunStarts, RunEnds, RunLoads, Free, NoTurn
  <2>2. \/ turn' = NoTurn
        \/ turn' = [NoTurn EXCEPT !.kind = "run"] /\ binding' = None
    BY <1>3 DEF RunStarts, RunEnds, RunLoads, Clear, LInv, Locked, Binds, hold
  <2>3. NoTurn.kind = "none" /\ NoTurn.part = "whole" /\ NoTurn.cut = FALSE  BY DEF NoTurn
  <2>4. LET r == [NoTurn EXCEPT !.kind = "run"]
        IN  r.kind = "run" /\ r.part = "whole" /\ r.cut = FALSE
    BY DEF NoTurn
  <2>5. CASE turn' = NoTurn
    BY <2>1, <2>3, <2>5 DEF LInv, Locked, Told, Cuts, Binds, Talks, Free
  <2>6. CASE turn' = [NoTurn EXCEPT !.kind = "run"] /\ binding' = None
    BY <2>1, <2>4, <2>6 DEF LInv, Locked, Told, Cuts, Binds, Talks
  <2>. QED  BY <2>2, <2>5, <2>6
<1>4. CASE \/ UNCHANGED vars \/ \E m \in Model : ServerDies(m)
  BY <1>4 DEF ServerDies, vars, hold, engine, LInv, Locked, Told, Cuts, Binds, Talks, Free
<1>5. CASE TurnStep
  <2>1. CASE Close  BY <2>1 DEF Close, LInv, Locked, Told, Cuts, Binds, Talks, Free, NoTurn
  <2>2. CASE RequestConnects \/ (RequestEnds /\ UNCHANGED turn)
    BY <2>2 DEF RequestConnects, RequestEnds, engine, hold, LInv, Locked, Told, Cuts, Binds, Talks, Free
  <2>3. CASE ~Close /\ ~RequestConnects /\ ~(RequestEnds /\ UNCHANGED turn)
    <3>1. Talks /\ turn.phase # "idle"
      <4>1. turn.phase # "idle" \/ monitor # "off"
        BY <1>5, <2>3
        DEF TurnStep, Handler, AgentHandler, AgentAsks, ToolsRead, AgentStops, BeginFails, Begin, Cancelled,
            Connect, ConnectFails, Save, SaveFails, Delta, Fails, Done, Eof, AgentTimesOut,
            RequestEnds, ClientLeaves, Notice, CancelBackend, ShutDown, In
      <4>2. turn.kind \in {"none", "chat", "agent", "run"}  BY <1>0 DEF Turn
      <4>3. CASE turn.kind = "none" \/ turn.kind = "run"
        <5>1. turn.phase = "idle" /\ monitor = "off"
          BY <4>3 DEF LInv, Locked, Free, NoTurn, Talks
        <5>. QED  BY <4>1, <5>1
      <4>. QED  BY <4>2, <4>3 DEF LInv, Locked, Talks
    <3>2. /\ turn'.kind = turn.kind /\ turn'.chat = turn.chat /\ turn'.model = turn.model
          /\ UNCHANGED <<binding, alive>>
      BY <1>5, <2>3, TurnKeeps DEF hold
    <3>3. turn'.phase # "idle"
      BY <1>0, <1>5, <2>3, <3>1
      DEF TurnStep, Turn, Handler, AgentHandler, AgentAsks, ToolsRead, AgentStops, BeginFails, Begin,
          Cancelled, Connect, ConnectFails, Save, SaveFails, Delta, Fails, Done, Eof, AgentTimesOut,
          RequestEnds, Answered, ClientLeaves, Notice, CancelBackend, ShutDown, Enter, RollBack, Finish
    <3>4. Told'
      <4>1. CASE Notice  BY <1>0, <4>1 DEF Notice, Turn, Told
      <4>2. CASE CancelBackend  BY <1>0, <4>2 DEF CancelBackend, ShutDown, Turn, LInv, Told
      <4>3. CASE ~Notice /\ ~CancelBackend
        <5>1. turn'.cancel = turn.cancel /\ turn'.cut = turn.cut
              /\ (monitor' \in {"set", "done"} => monitor' = monitor)
          BY <1>0, <1>5, <2>3, <4>3
          DEF TurnStep, Turn, Handler, AgentHandler, AgentAsks, ToolsRead, AgentStops, BeginFails, Begin, Cancelled,
              Connect, ConnectFails, Save, SaveFails, Delta, Fails, Done, Eof, AgentTimesOut,
              RequestEnds, Answered, ClientLeaves, Enter, RollBack, Finish
        <5>. QED  BY <5>1 DEF LInv, Told
      <4>. QED  BY <4>1, <4>2, <4>3
    <3>5. Cuts'
      <4>1. CASE Eof
        <5>1. turn.server \notin alive  BY <4>1 DEF Eof, LInv, Told
        <5>2. turn'.server = turn.server /\ turn'.phase \in {"saving", "closing"}
          BY <1>0, <4>1 DEF Eof, Finish, Turn
        <5>. QED  BY <3>2, <5>1, <5>2 DEF Cuts
      <4>2. CASE Done  BY <1>0, <4>2 DEF Done, Finish, Turn, Cuts
      <4>3. CASE ~Eof /\ ~Done
        <5>1. turn'.part = turn.part
          BY <1>0, <1>5, <2>3, <4>3
          DEF TurnStep, Turn, Handler, AgentHandler, AgentAsks, ToolsRead, AgentStops, BeginFails, Begin, Cancelled,
              Connect, ConnectFails, Save, SaveFails, Delta, Fails, AgentTimesOut,
              RequestEnds, Answered, ClientLeaves, Notice, CancelBackend, ShutDown, Enter, RollBack
        <5>2. turn.phase \in {"saving", "closing"} =>
                turn'.phase \in {"saving", "closing"} /\ turn'.server = turn.server
          BY <1>0, <1>5, <2>3, <4>3
          DEF TurnStep, Turn, In, Handler, AgentHandler, AgentAsks, ToolsRead, AgentStops, BeginFails, Begin, Cancelled,
              Connect, ConnectFails, Save, SaveFails, Delta, Fails, AgentTimesOut,
              RequestEnds, Answered, ClientLeaves, Notice, CancelBackend, ShutDown, Enter, RollBack
        <5>. QED  BY <3>2, <5>1, <5>2 DEF LInv, Cuts
      <4>. QED  BY <4>1, <4>2, <4>3
    <3>. QED  BY <3>1, <3>2, <3>3, <3>4, <3>5, TurnGoesOn
  <2>. QED  BY <2>1, <2>2, <2>3
<1>. QED  BY <1>1, <1>2, <1>3, <1>4, <1>5 DEF Next, TurnStep


\* Types and lock.
TInv == Engine /\ Rest /\ LInv

\* Nobody has the lock at the start.
LEMMA InitTInv == Init => TInv
<1>. SUFFICES ASSUME Init PROVE TInv  OBVIOUS
<1>1. Engine
  <2>1. Resident = {}  BY DEF Init, Resident
  <2>. QED  BY <2>1 DEF Init, Engine
<1>2. Rest
  <2>1. <<>> \in Seq(Model)  OBVIOUS
  <2>. QED  BY <2>1, NoTurnType DEF Init, Rest
<1>3. LInv  BY DEF Init, LInv, Locked, Told, Cuts, Binds, Talks, Free, NoTurn
<1>. QED  BY <1>1, <1>2, <1>3 DEF TInv

\* The types and the invariant of the lock are inductive.
LEMMA TInvStep == TInv /\ [Next]_vars => TInv'
BY EngineStep, RestStep, LockStep DEF TInv

\* The variables have their types: the active instance is a loaded one, and every
\* live server belongs to a loaded instance.
THEOREM TypesTheorem == Spec => []TypeOK
<1>. QED  BY InitTInv, TInvStep, TypeParts, PTL DEF Spec, TInv

\* Only Save adds an exchange whose answer lost its end.
LEMMA WhoSaves ==
  ASSUME [Next]_vars, ~Save, NEW x \in saved' \ saved
  PROVE  x.part # "cut"
<1>1. CASE SaveFails \/ RunEnds  BY <1>1 DEF SaveFails, RunEnds
<1>2. CASE TurnStep /\ ~SaveFails
  BY <1>2 DEF TurnStep, Handler, AgentHandler, AgentAsks, ToolsRead, AgentStops, BeginFails, Begin,
      Cancelled, Connect, ConnectFails, Delta, Fails, Done, Eof, AgentTimesOut, Close,
      RequestEnds, RequestConnects, ClientLeaves, Notice, CancelBackend, ShutDown, RollBack, Finish,
      store
<1>3. CASE \/ RunStarts \/ UnloadAll \/ GenerateActive
           \/ \E m \in Panel : LoadModel(m) \/ ReloadFails(m)
           \/ \E m \in Model : RunLoads(m) \/ UnloadModel(m) \/ ServerDies(m)
           \/ \E c \in Chat : DeleteChat(c)
  BY <1>3 DEF RunStarts, UnloadAll, GenerateActive, LoadModel, ReloadFails, RunLoads, UnloadModel,
              ServerDies, DeleteChat, store
<1>4. CASE \/ UNCHANGED vars
           \/ \E c \in Chat, m \in Model :
                PrepareChat(c, m) \/ GroundingFails(c, m) \/ RestoreFails(c, m) \/ PrepareAgent(c, m)
  BY <1>4 DEF PrepareChat, GroundingFails, RestoreFails, PrepareAgent, Take, store, vars
<1>. QED  BY <1>1, <1>2, <1>3, <1>4 DEF Next, TurnStep

\* Whoever saves an answer that lost its end has seen its server die: a client
\* that leaves cannot cut an answer, for its event is set before its socket is
\* shut down.
THEOREM CutTheorem == Spec => OnlyACrashCutsAnAnswer
<1>1. TInv /\ [Next]_vars => [\A x \in saved' \ saved : x.part = "cut" => turn.server \notin alive]_vars
  <2>. SUFFICES ASSUME TInv, [Next]_vars, NEW x \in saved' \ saved, x.part = "cut"
       PROVE  turn.server \notin alive
    OBVIOUS
  <2>1. CASE Save
    <3>1. x = [chat |-> turn.chat, part |-> turn.part]  BY <2>1 DEF Save
    <3>. QED  BY <3>1 DEF TInv, LInv, Cuts
  <2>2. CASE ~Save  BY <2>2, WhoSaves
  <2>. QED  BY <2>1, <2>2
<1>. QED  BY <1>1, InitTInv, TInvStep, PTL DEF Spec, OnlyACrashCutsAnAnswer

-----------------------------------------------------------------------------
(* Leases, when no search for knowledge fails.                             *)

\* The only lease is that of the turn.
Leases ==
  IF Talks THEN leases = {turn.model} /\ direct = turn.model ELSE leases = {} /\ direct = None

\* Every step keeps the leases, when no search fails.
LEMMA LeasesStep == ASSUME Grounded = {}, TInv, Leases, [Next]_vars PROVE Leases'
<1>1. CASE TurnStep /\ ~Close
  <2>1. Talks' = Talks /\ turn'.model = turn.model /\ UNCHANGED <<leases, direct>>
    BY <1>1, TurnKeeps DEF TInv, Talks, hold
  <2>. QED  BY <2>1 DEF Leases
<1>2. CASE Close
  <2>1. Talks  BY <1>2 DEF TInv, LInv, Locked, Talks, Close, Free, NoTurn, Rest, Turn
  <2>2. ~Talks'  BY <1>2 DEF Close, Talks, NoTurn
  <2>. QED  BY <1>2, <2>1, <2>2 DEF Close, Leases
<1>3. CASE \E kind \in {"chat", "agent"}, c \in Chat, m \in Model : Take(kind, c, m)
  BY <1>3 DEF Take, Lease, Leases, Talks, Free, NoTurn
<1>4. CASE \/ RunStarts \/ UnloadAll \/ \E m \in Model : UnloadModel(m)
           \/ \E c \in Chat : DeleteChat(c)
  <2>1. Free /\ ~Talks'
    <3>1. CASE RunStarts  BY <3>1 DEF RunStarts, NoTurn, Talks
    <3>2. CASE ~RunStarts
      <4>1. Free /\ UNCHANGED turn  BY <1>4, <3>2 DEF UnloadAll, UnloadModel, DeleteChat
      <4>2. turn.kind = "none"  BY <4>1 DEF Free, NoTurn
      <4>. QED  BY <4>1, <4>2 DEF Talks
    <3>. QED  BY <1>4, <3>1, <3>2 DEF RunStarts
  <2>2. leases = {} /\ direct = None  BY <2>1 DEF Leases, Free, Talks, NoTurn
  <2>. QED  BY <1>4, <2>1, <2>2
       DEF Leases, RunStarts, UnloadAll, UnloadModel, DeleteChat, Clear, Leaked, hold
<1>5. CASE \/ RunEnds \/ GenerateActive \/ UNCHANGED vars
           \/ \E m \in Panel : LoadModel(m) \/ ReloadFails(m)
           \/ \E m \in Model : RunLoads(m) \/ ServerDies(m)
           \/ \E c \in Chat, m \in Model : RestoreFails(c, m)
  <2>1. UNCHANGED <<leases, direct>> /\ (UNCHANGED turn \/ (turn.kind = "run" /\ turn' = NoTurn))
    BY <1>5 DEF RunEnds, GenerateActive, LoadModel, ReloadFails, RunLoads, ServerDies, RestoreFails,
                hold, vars
  <2>. QED  BY <2>1 DEF Leases, Talks, NoTurn
<1>. QED  BY <1>1, <1>2, <1>3, <1>4, <1>5 DEF Next, TurnStep, GroundingFails, PrepareChat, PrepareAgent

\* Where every search for knowledge succeeds, the next turn finds no lease of
\* an earlier one.  GroundingFails is the one step that forgets its lease.
THEOREM LeavesNothing ==
  ASSUME Grounded = {} PROVE Spec => []TurnsLeaveNothingBehind
<1>1. Init => Leases  BY DEF Init, Leases, Talks, NoTurn
<1>2. TInv /\ Leases /\ [Next]_vars => Leases'  BY LeasesStep
<1>3. TInv /\ Leases => TurnsLeaveNothingBehind
  BY TypeParts DEF TInv, Leases, Talks, Free, NoTurn, TurnsLeaveNothingBehind, LeasesEndWithTheirTurn
<1>. QED  BY <1>1, <1>2, <1>3, InitTInv, TInvStep, PTL DEF Spec

-----------------------------------------------------------------------------
(* Conversations, for a backend with one model.                            *)

\* A chat is bound to a live server.
Current == Serves /\ binding # None /\ binding.kind = "chat" /\ binding.chat # None

\* What the backend would send, and what the instance holds: exchanges of the
\* chat, and all of those that were saved.
Fits(c) == \A x \in Sent \cup memo[active] : x.chat \in {c, None}
Remembers(c) == \A x \in Saved(c) : x.part # "question" => x \in Sent /\ x \in memo[active]

\* An answer that is to be saved is in the instance already.
Pending ==
  In("chat", "saving") =>
    [chat |-> turn.chat, part |-> turn.part] \in memo[active] /\ shown = Same

\* The invariant of the conversations.
Talk ==
  /\ Current => Fits(binding.chat) /\ Remembers(binding.chat) /\ Pending
  /\ turn.kind = "chat" /\ turn.phase \in {"connecting", "reading"} => turn.server # None
  /\ TurnsFitTheirBinding
  /\ \A x \in saved : x.chat # None
\* The backend can load one model only.
OneModel == \A m, n \in Model : m = n

\* A step outside a turn, which leaves the conversation of a chat that is still
\* bound as it was, or sets it up from what has been saved.
LEMMA ConversationStays ==
  ASSUME Current, Fits(binding.chat), Remembers(binding.chat), active' = active,
         memo[active] \subseteq memo'[active],
         \A x \in memo'[active] \ memo[active] : x.chat \in {binding.chat, None},
         shown' = shown \/ shown' = Same,
         \A x \in Saved(binding.chat)' \ Saved(binding.chat) :
           x.part # "question" => shown' = Same /\ x \in memo'[active]
  PROVE  LET c == binding.chat
         IN  /\ \A x \in Sent' \cup memo'[active] : x.chat \in {c, None}
             /\ \A x \in Saved(c)' : x.part # "question" => x \in Sent' /\ x \in memo'[active]
<1>. DEFINE c == binding.chat
<1>1. Sent' = (IF shown' = Same THEN memo'[active] ELSE shown')  BY DEF Sent
<1>2. CASE shown' = Same
  <2>1. Sent' = memo'[active]  BY <1>1, <1>2
  <2>. QED  BY <2>1 DEF Fits, Remembers
<1>3. CASE shown' # Same
  <2>1. shown' = shown /\ Sent' = shown /\ Sent = shown  BY <1>1, <1>3 DEF Sent
  <2>. QED  BY <1>3, <2>1 DEF Fits, Remembers
<1>. QED  BY <1>2, <1>3

\* A history that was just restored is the chat as it was saved.
LEMMA Restored ==
  ASSUME NEW c, memo'[active'] = Saved(c), shown' = Saved(c), saved' = saved
  PROVE  Fits(c)' /\ Remembers(c)'
<1>1. Sent' = Saved(c) /\ Saved(c)' = Saved(c)  BY DEF Sent, Saved
<1>. QED  BY <1>1 DEF Fits, Remembers, Saved

\* With one model, an instance that is dropped was the only one.
LEMMA UnloadOne ==
  ASSUME OneModel, Engine, NEW S \in SUBSET Resident, Unload(S), Serves'
  PROVE  Serves /\ active' = active /\ memo'[active] = memo[active] /\ shown' = shown
<1>1. alive' = alive \ S /\ Resident \subseteq Model /\ alive \subseteq Resident
  BY UnloadFacts, ResidentType DEF Engine
<1>2. active' \in alive \ S  BY <1>1 DEF Serves
<1>3. S = {}  BY <1>1, <1>2 DEF OneModel
<1>4. UNCHANGED <<active, shown>> /\ \A m \in Model \ S : memo'[m] = memo[m]
  BY <1>3, UnloadFacts
<1>. QED  BY <1>1, <1>2, <1>3, <1>4 DEF Serves

\* Steps that do not speak with the model.
LEMMA TalkKept ==
  ASSUME Talk,
         Current' => /\ Current /\ binding'.chat = binding.chat /\ active' = active
                     /\ memo'[active] = memo[active] /\ (shown' = shown \/ shown' = Same)
                     /\ saved' \subseteq saved,
         \A x \in saved' : x.chat # None,
         turn' = turn \/ (turn'.server = None /\ turn'.phase \notin {"connecting", "reading", "saving"})
  PROVE  Talk'
<1>1. Current' => Fits(binding.chat)' /\ Remembers(binding.chat)'
  <2>. SUFFICES ASSUME Current' PROVE Fits(binding.chat)' /\ Remembers(binding.chat)'  OBVIOUS
  <2>. DEFINE c == binding.chat
  <2>1. Current /\ Fits(c) /\ Remembers(c) /\ binding'.chat = c  BY DEF Talk
  <2>2. Saved(c)' \subseteq Saved(c)  BY <2>1 DEF Saved
  <2>3. /\ \A x \in Sent' \cup memo'[active] : x.chat \in {c, None}
        /\ \A x \in Saved(c)' : x.part # "question" => x \in Sent' /\ x \in memo'[active]
    BY <2>1, <2>2, ConversationStays
  <2>. QED  BY <2>1, <2>3 DEF Fits, Remembers, Saved
<1>2. Current' => Pending'  BY DEF Talk, Pending, In
<1>3. TurnsFitTheirBinding'  BY DEF Talk, TurnsFitTheirBinding
<1>. QED  BY <1>1, <1>2, <1>3 DEF Talk

\* The other holders of the lock: what they leave bound is as it was, or bound to no
\* chat, or without a live server.
LEMMA TalkFree ==
  ASSUME OneModel, TInv, Talk, 
         \/ RunStarts \/ RunEnds \/ UnloadAll \/ UNCHANGED vars
         \/ \E m \in Panel : LoadModel(m) \/ ReloadFails(m)
         \/ \E m \in Model : RunLoads(m) \/ UnloadModel(m) \/ ServerDies(m)
         \/ \E c \in Chat : DeleteChat(c)
         \/ \E c \in Chat, m \in Model : RestoreFails(c, m) \/ PrepareAgent(c, m)
  PROVE  Talk'
<1>1. Engine /\ Rest /\ LInv /\ Resident \subseteq Model /\ alive \subseteq Resident
  BY ResidentType DEF TInv, Engine
<1>2. ASSUME saved' \subseteq saved, ~Current', UNCHANGED turn PROVE Talk'
  BY <1>2, TalkKept DEF Talk
<1>3. ASSUME saved' \subseteq saved, UNCHANGED turn,
             Current' => /\ Current /\ binding'.chat = binding.chat /\ active' = active
                         /\ memo'[active] = memo[active] /\ shown' = shown
      PROVE  Talk'
  BY <1>3, TalkKept DEF Talk
<1>4. CASE UNCHANGED vars  BY <1>3, <1>4 DEF vars, engine, hold, store, Current, Serves
<1>5. CASE RunStarts \/ RunEnds \/ \E m \in Model : RunLoads(m)
  <2>1. binding' = None
    BY <1>1, <1>5 DEF RunStarts, RunEnds, RunLoads, Clear, LInv, Binds, hold
  <2>2. ~Current'  BY <2>1 DEF Current
  <2>3. \A x \in saved' : x.chat # None
    BY <1>1, <1>5, NoneAssumption DEF RunStarts, RunEnds, RunLoads, store, Talk, Rest
  <2>4. turn' = turn \/ turn' = NoTurn \/ turn' = [NoTurn EXCEPT !.kind = "run"]
    BY <1>5 DEF RunStarts, RunEnds, RunLoads
  <2>5. turn' = turn \/ (turn'.server = None /\ turn'.phase = "idle")  BY <2>4 DEF NoTurn
  <2>. QED  BY <2>2, <2>3, <2>5, TalkKept
<1>6. CASE \E m \in Panel : LoadModel(m)
  <2>1. binding'.chat = None /\ UNCHANGED <<saved, turn>>  BY <1>6 DEF LoadModel, Bound, store
  <2>. QED  BY <1>2, <2>1 DEF Current
<1>7. CASE \E c \in Chat, m \in Model : PrepareAgent(c, m)
  <2>0. PICK c \in Chat, m \in Model : PrepareAgent(c, m)  BY <1>7
  <2>1. binding'.kind = "agent" /\ UNCHANGED saved
    BY <2>0 DEF PrepareAgent, AgentBinding, Bound, Take, store
  <2>2. turn'.server = None /\ turn'.phase = "ready"  BY <2>0 DEF PrepareAgent, Take, NoTurn
  <2>. QED  BY <2>1, <2>2, TalkKept DEF Current, Talk
<1>8. ASSUME UNCHANGED <<saved, turn>>, NEW S \in SUBSET Resident, Unload(S),
             binding' \in {binding, None} \/ binding'.chat = None
      PROVE  Talk'
  <2>1. Current' => binding' = binding /\ Serves /\ active' = active /\ memo'[active] = memo[active]
                    /\ shown' = shown
    BY <1>1, <1>8, UnloadOne DEF Current
  <2>. QED  BY <1>3, <1>8, <2>1 DEF Current
<1>9. ASSUME saved' \subseteq saved, UNCHANGED <<turn, engine>>,
             binding' \in {binding, None} \/ binding'.chat = None
      PROVE  Talk'
  <2>1. Current' => binding' = binding /\ Serves /\ active' = active /\ memo' = memo /\ shown' = shown
    BY <1>9 DEF Current, engine, Serves
  <2>. QED  BY <1>3, <1>9, <2>1 DEF Current
<1>10. CASE \E m \in Panel : ReloadFails(m)
  BY <1>8, <1>10 DEF ReloadFails, hold, store
<1>11. CASE \E m \in Model : UnloadModel(m)
  <2>1. PICK m \in Model : UnloadModel(m)  BY <1>11
  <2>2. /\ binding' \in {binding, None} \/ binding'.chat = None
        /\ UNCHANGED <<saved, turn>>
    BY <2>1 DEF UnloadModel, Bound, store
  <2>3. UNCHANGED engine \/ Unload({m} \cap Resident)  BY <2>1 DEF UnloadModel
  <2>. QED  BY <1>8, <1>9, <2>2, <2>3
<1>12. CASE UnloadAll
  <2>1. binding' \in {binding, None} /\ UNCHANGED <<saved, turn>>  BY <1>12 DEF UnloadAll, Clear, store
  <2>2. \E S \in SUBSET Resident : Unload(S)  BY <1>12 DEF UnloadAll, Clear
  <2>. QED  BY <1>8, <2>1, <2>2
<1>13. ASSUME NEW c \in Chat, DeleteChat(c) PROVE Talk'
  <2>1. UNCHANGED turn /\ saved' \subseteq saved  BY <1>13 DEF DeleteChat
  <2>2. CASE binding' = None  BY <1>2, <2>1, <2>2 DEF Current
  <2>3. CASE UNCHANGED <<engine, hold>>  BY <1>9, <2>1, <2>3 DEF hold
  <2>. QED  BY <1>13, <2>2, <2>3 DEF DeleteChat, Clear
<1>14. CASE \E m \in Model : ServerDies(m)
  BY <1>3, <1>14 DEF ServerDies, Current, Serves, hold, store
<1>15. CASE \E c \in Chat, m \in Model : RestoreFails(c, m)
  <2>1. PICK c \in Chat, m \in Model : RestoreFails(c, m)  BY <1>15
  <2>2. alive = {}  BY <1>1, <2>1 DEF RestoreFails, OneModel
  <2>. QED  BY <1>2, <2>1, <2>2 DEF RestoreFails, Current, Serves, store
<1>. QED
  BY <1>4, <1>5, <1>6, <1>7, <1>10, <1>11, <1>12, <1>13, <1>14, <1>15

\* A chat that is prepared is bound to what has been saved of it, or to a
\* conversation that was its own already.
LEMMA TalkPrepared ==
  ASSUME OneModel, TInv, Talk, NEW c \in Chat, NEW m \in Model,
         PrepareChat(c, m) \/ GroundingFails(c, m)
  PROVE  Talk'
<1>0. Engine /\ Rest /\ c # None  BY NoneAssumption DEF TInv
<1>1. /\ Bind(c, m) /\ UNCHANGED saved /\ binding' = Bound(m, c, "chat") /\ binding'.chat = c
      /\ turn'.phase # "saving"
      /\ turn' = turn \/ (turn'.server = None /\ turn'.phase = "ready")
  <2>1. Bind(c, m) /\ UNCHANGED saved  BY DEF PrepareChat, GroundingFails, Take, store
  <2>2. binding' = Bound(m, c, "chat") /\ binding'.chat = c  BY <2>1 DEF Bind, Bound
  <2>3. CASE PrepareChat(c, m)  BY <2>1, <2>2, <2>3 DEF PrepareChat, Take, NoTurn
  <2>4. CASE GroundingFails(c, m)  BY <2>1, <2>2, <2>4 DEF GroundingFails, Free, NoTurn
  <2>. QED  BY <2>3, <2>4
<1>2. \A x \in saved' : x.chat # None  BY <1>1 DEF Talk
<1>4. ASSUME memo'[active'] = Saved(c), shown' = Saved(c) PROVE Talk'
  <2>1. Fits(c)' /\ Remembers(c)'  BY <1>1, <1>4, Restored
  <2>2. Pending'  BY <1>1 DEF Pending, In
  <2>3. TurnsFitTheirBinding'  BY <1>1 DEF Talk, TurnsFitTheirBinding
  <2>4. Fits(binding.chat)' /\ Remembers(binding.chat)'
    BY <1>1, <2>1 DEF Fits, Remembers, Saved
  <2>. QED  BY <1>1, <1>2, <2>2, <2>3, <2>4 DEF Talk
<1>5. CASE Load(m, Saved(c), Saved(c))
  <2>1. Saved(c) \in SUBSET Item  BY <1>0, SavedType
  <2>. QED  BY <1>0, <1>4, <1>5, <2>1, LoadFacts
<1>6. CASE Restore(c)  BY <1>0, <1>4, <1>6, RestoreFacts
<1>7. CASE Healthy(Bound(m, c, "chat")) /\ UNCHANGED engine
  <2>1. binding' = binding  BY <1>1, <1>7 DEF Healthy
  <2>2. UNCHANGED <<active, alive, memo, shown>>  BY <1>7 DEF engine
  <2>. QED  BY <1>1, <1>2, <2>1, <2>2, TalkKept DEF Current, Serves
<1>8. CASE ~Serves /\ UNCHANGED engine
  <2>1. ~Current'  BY <1>8 DEF Current, Serves, engine
  <2>. QED  BY <1>1, <1>2, <2>1, TalkKept
<1>. QED  BY <1>1, <1>5, <1>6, <1>7, <1>8 DEF Bind

\* The model panel adds to a conversation an exchange of no chat.
LEMMA TalkPanel == ASSUME OneModel, TInv, Talk, GenerateActive PROVE Talk'
<1>0. Engine /\ Rest /\ Free /\ UNCHANGED <<hold, saved, turn>>
  BY DEF TInv, GenerateActive, store
<1>1. active \in Resident /\ active \in Model /\ binding.model = active
  BY <1>0, ResidentType DEF GenerateActive, Engine, Rest, Binding, OneModel
<1>2. /\ Serves /\ Serves' /\ UNCHANGED <<active, binding>> /\ (shown' = shown \/ shown' = Same)
      /\ memo'[active] \in {memo[active], memo[active] \cup {PanelItem}}
  BY <1>0, <1>1 DEF GenerateActive, Engine, Serves, hold
<1>3. Current' => Current  BY <1>2 DEF Current
<1>4. Current' => Fits(binding.chat)' /\ Remembers(binding.chat)'
  <2>. SUFFICES ASSUME Current' PROVE Fits(binding.chat)' /\ Remembers(binding.chat)'  OBVIOUS
  <2>. DEFINE c == binding.chat
  <2>1. Current /\ Fits(c) /\ Remembers(c) /\ binding'.chat = c /\ Saved(c)' = Saved(c)
    BY <1>0, <1>2, <1>3 DEF Talk, Saved
  <2>2. PanelItem.chat = None  BY DEF PanelItem
  <2>3. /\ \A x \in Sent' \cup memo'[active] : x.chat \in {c, None}
        /\ \A x \in Saved(c)' : x.part # "question" => x \in Sent' /\ x \in memo'[active]
    BY <1>2, <2>1, <2>2, ConversationStays
  <2>. QED  BY <1>2, <2>1, <2>3 DEF Fits, Remembers, Saved
<1>5. Pending'  BY <1>0 DEF Pending, In, Free, NoTurn
<1>6. TurnsFitTheirBinding'  BY <1>0 DEF Talk, TurnsFitTheirBinding
<1>. QED  BY <1>0, <1>4, <1>5, <1>6 DEF Talk

\* The steps of a turn that neither send, nor add to a conversation.
LEMMA TalkQuiet ==
  ASSUME TInv, Talk, TurnStep, ~Begin, ~AgentAsks, ~Done, ~Eof, ~Save, ~SaveFails
  PROVE  Talk'
<1>0. Engine /\ Rest /\ LInv /\ turn \in Turn  BY DEF TInv, Rest
<1>1. CASE Close
  <2>1. turn' = NoTurn /\ UNCHANGED <<engine, binding, saved>>  BY <1>1 DEF Close, store
  <2>2. turn'.server = None /\ turn'.phase = "idle"  BY <2>1 DEF NoTurn
  <2>. QED  BY <2>1, <2>2, TalkKept DEF engine, Current, Serves, Talk
<1>2. CASE ~Close
  <2>1. turn'.kind = turn.kind /\ turn'.chat = turn.chat /\ turn'.model = turn.model
        /\ UNCHANGED <<hold, loaded, alive, active, chats>>
    BY <1>0, <1>2, TurnKeeps
  <2>2. /\ turn'.server = turn.server /\ turn'.sent = turn.sent /\ turn'.part = turn.part
        /\ In("chat", "saving")' => In("chat", "saving")
        /\ turn'.phase \in {"connecting", "reading"} =>
             turn.phase \in {"connecting", "reading"}
    BY <1>0, <1>2
    DEF TurnStep, Turn, In, Handler, AgentHandler, AgentAsks, ToolsRead, AgentStops, BeginFails,
      Cancelled, Connect, ConnectFails, Delta, Fails, AgentTimesOut,
      RequestEnds, RequestConnects, Answered, ClientLeaves, Notice, CancelBackend, ShutDown, Enter,
      RollBack
  <2>3. UNCHANGED <<memo, saved>> /\ (shown' = shown \/ shown' = Same)
    BY <1>2
    DEF TurnStep, Handler, AgentHandler, AgentAsks, ToolsRead, AgentStops, BeginFails,
      Cancelled, Connect, ConnectFails, Delta, Fails, AgentTimesOut,
      RequestEnds, RequestConnects, ClientLeaves, Notice, CancelBackend, ShutDown, RollBack, engine,
      store
  <2>4. Current' => Current  BY <2>1 DEF Current, Serves, hold
  <2>5. Current' => Fits(binding.chat)' /\ Remembers(binding.chat)' /\ Pending'
    <3>. SUFFICES ASSUME Current' PROVE Fits(binding.chat)' /\ Remembers(binding.chat)' /\ Pending'
      OBVIOUS
    <3>. DEFINE c == binding.chat
    <3>1. Current /\ Fits(c) /\ Remembers(c) /\ Pending /\ Saved(c)' = Saved(c) /\ binding'.chat = c
      BY <2>1, <2>3, <2>4 DEF Talk, Saved, hold
    <3>2. /\ \A x \in Sent' \cup memo'[active] : x.chat \in {c, None}
          /\ \A x \in Saved(c)' : x.part # "question" => x \in Sent' /\ x \in memo'[active]
      BY <2>1, <2>3, <3>1, ConversationStays
    <3>3. Pending'  BY <2>1, <2>2, <2>3, <3>1 DEF Pending
    <3>. QED  BY <2>1, <3>1, <3>2, <3>3 DEF Fits, Remembers, Saved
  <2>6. TurnsFitTheirBinding'  BY <2>1, <2>2 DEF Talk, TurnsFitTheirBinding
  <2>. QED  BY <2>1, <2>2, <2>3, <2>5, <2>6 DEF Talk
<1>. QED  BY <1>1, <1>2

\* A chat turn sends what the backend has of its chat, an agent what is saved.
LEMMA TalkSends == ASSUME OneModel, TInv, Talk, Begin \/ AgentAsks PROVE Talk'
<1>0. Engine /\ Rest /\ LInv /\ turn \in Turn  BY DEF TInv, Rest
<1>1. Talks /\ Serves /\ active \in Model /\ turn.model = active /\ active # None
  <2>1. Talks /\ Serves  BY DEF Begin, AgentAsks, In, Talks
  <2>2. active \in Model /\ active # None  BY <1>0, <2>1, ResidentType DEF Serves, Engine
  <2>3. turn.model \in Model  BY <1>0, <2>1 DEF LInv, Locked, Turn
  <2>. QED  BY <2>1, <2>2, <2>3 DEF OneModel
<1>2. UNCHANGED <<engine, hold, saved>>  BY DEF Begin, AgentAsks, store
<1>3. /\ turn'.server = active /\ turn'.model = active /\ turn'.chat = turn.chat
      /\ turn'.kind = turn.kind /\ turn'.phase \in {"connecting", "asking"}
      /\ turn'.sent = (IF turn.kind = "chat" THEN Sent ELSE Saved(turn.chat))
  BY <1>0, <1>1 DEF Begin, AgentAsks, In, Turn
<1>4. \A x \in turn'.sent : x.chat \in {turn.chat, None}
  <2>1. CASE turn.kind = "chat"
    <3>1. binding = Bound(turn.model, turn.chat, "chat") /\ turn.chat # None
      BY <1>0, <1>1, <2>1 DEF LInv, Binds, Locked
    <3>2. binding # None
      BY <1>0, <1>1, <3>1, BoundType, NoneAssumption DEF Turn
    <3>3. Current /\ binding.chat = turn.chat  BY <1>1, <3>1, <3>2 DEF Bound, Current
    <3>. QED  BY <1>3, <2>1, <3>3 DEF Talk, Fits
  <2>2. CASE turn.kind # "chat"  BY <1>3, <2>2 DEF Saved
  <2>. QED  BY <2>1, <2>2
<1>5. TurnsFitTheirBinding'  BY <1>3, <1>4 DEF TurnsFitTheirBinding
<1>6. Current' = Current /\ Fits(binding.chat)' = Fits(binding.chat)
      /\ Remembers(binding.chat)' = Remembers(binding.chat)
  BY <1>2 DEF Current, Serves, Fits, Remembers, Sent, Saved, engine, hold
<1>7. Pending'  BY <1>3 DEF Pending, In
<1>. QED  BY <1>1, <1>2, <1>3, <1>5, <1>6, <1>7 DEF Talk

\* The stream ends: the exchange is in the conversation of its chat.
LEMMA TalkFinished == ASSUME OneModel, TInv, Talk, Done \/ Eof PROVE Talk'
<1>0. Engine /\ Rest /\ LInv /\ turn \in Turn  BY DEF TInv, Rest
<1>1. PICK part \in Part : In("chat", "reading") /\ Finish(part)  BY DEF Done, Eof, Part
<1>2. turn.server \in Model  BY <1>0, <1>1 DEF Talk, In, Turn
<1>3. /\ UNCHANGED <<alive, active, hold, saved>> /\ (shown' = shown \/ shown' = Same)
      /\ turn'.phase = "saving" => shown' = Same
      /\ turn'.server = turn.server /\ turn'.sent = turn.sent /\ turn'.model = turn.model
      /\ turn'.chat = turn.chat /\ turn'.part = part /\ turn'.phase \in {"saving", "closing"}
      /\ turn'.phase = "saving" => turn.got
  BY <1>0, <1>1 DEF Finish, store, Turn
<1>. DEFINE x0 == [chat |-> turn.chat, part |-> IF turn.got THEN part ELSE "question"]
<1>4. memo' = [memo EXCEPT ![turn.server] = @ \cup {x0}]  BY <1>1 DEF Finish
<1>5. Current' => Fits(binding.chat)' /\ Remembers(binding.chat)' /\ Pending'
  <2>. SUFFICES ASSUME Current' PROVE Fits(binding.chat)' /\ Remembers(binding.chat)' /\ Pending'
    OBVIOUS
  <2>. DEFINE c == binding.chat
  <2>1. /\ Current /\ Fits(c) /\ Remembers(c) /\ Saved(c)' = Saved(c) /\ binding'.chat = c
        /\ active' = active
    BY <1>3 DEF Talk, Saved, hold, Current, Serves
  <2>2. active \in Model  BY <1>0, <2>1, ResidentType DEF Current, Serves, Engine
  <2>3. memo'[active] = memo[active] \cup {x0}
    BY <1>0, <1>2, <1>4, <2>2 DEF OneModel, Engine
  <2>4. x0.chat = c  BY <1>0, <1>1 DEF LInv, Binds, Talks, In, Bound
  <2>. HIDE DEF x0
  <2>5. /\ \A x \in Sent' \cup memo'[active] : x.chat \in {c, None}
        /\ \A x \in Saved(c)' : x.part # "question" => x \in Sent' /\ x \in memo'[active]
    BY <1>3, <2>1, <2>3, <2>4, ConversationStays
  <2>6. Pending'
    <3>1. turn'.phase = "saving" => x0 = [chat |-> turn'.chat, part |-> turn'.part]
      BY <1>3 DEF x0
    <3>. QED  BY <1>3, <2>1, <2>3, <3>1 DEF Pending, In
  <2>. QED  BY <2>1, <2>5, <2>6 DEF Fits, Remembers, Saved
<1>6. TurnsFitTheirBinding'  BY <1>3 DEF Talk, TurnsFitTheirBinding
<1>. QED  BY <1>3, <1>5, <1>6 DEF Talk

\* What is saved of a chat turn is in its conversation already.
LEMMA TalkSaved == ASSUME TInv, Talk, Save \/ SaveFails PROVE Talk'
<1>0. Engine /\ Rest /\ LInv /\ turn \in Turn  BY DEF TInv, Rest
<1>1. /\ UNCHANGED <<engine, hold>> /\ turn.phase = "saving"
      /\ \A x \in saved' \ saved :
           /\ x.chat = turn.chat
           /\ x.part # "question" => x = [chat |-> turn.chat, part |-> turn.part]
  BY DEF Save, SaveFails
<1>2. /\ turn'.server = turn.server /\ turn'.sent = turn.sent /\ turn'.model = turn.model
      /\ turn'.chat = turn.chat /\ turn'.phase = "closing"
  BY <1>0 DEF Save, SaveFails, Enter, Turn
<1>3. Talks /\ turn.chat # None /\ binding = Bound(turn.model, turn.chat, turn.kind)
  <2>1. Talks  BY <1>0, <1>1 DEF LInv, Locked, Free, NoTurn, Talks, Turn
  <2>. QED  BY <1>0, <2>1 DEF LInv, Locked, Binds
<1>4. Current' => Fits(binding.chat)' /\ Remembers(binding.chat)'
  <2>. SUFFICES ASSUME Current' PROVE Fits(binding.chat)' /\ Remembers(binding.chat)'  OBVIOUS
  <2>. DEFINE c == binding.chat
  <2>1. /\ Current /\ Fits(c) /\ Remembers(c) /\ Pending /\ binding'.chat = c /\ active' = active
        /\ memo' = memo /\ shown' = shown
    BY <1>1 DEF Talk, engine, hold, Current, Serves
  <2>2. In("chat", "saving")  BY <1>1, <1>3, <2>1 DEF In, Current, Bound
  <2>3. \A x \in Saved(c)' \ Saved(c) : x.part # "question" => shown' = Same /\ x \in memo'[active]
    BY <1>1, <2>1, <2>2 DEF Saved, Pending
  <2>4. /\ \A x \in Sent' \cup memo'[active] : x.chat \in {c, None}
        /\ \A x \in Saved(c)' : x.part # "question" => x \in Sent' /\ x \in memo'[active]
    BY <2>1, <2>3, ConversationStays
  <2>. QED  BY <2>1, <2>4 DEF Fits, Remembers, Saved
<1>5. Pending'  BY <1>2 DEF Pending, In
<1>6. TurnsFitTheirBinding'  BY <1>2 DEF Talk, TurnsFitTheirBinding
<1>7. \A x \in saved' : x.chat # None  BY <1>1, <1>3 DEF Talk
<1>. QED  BY <1>2, <1>4, <1>5, <1>6, <1>7 DEF Talk

\* Every step keeps the conversations.
LEMMA TalkStep == OneModel /\ TInv /\ Talk /\ [Next]_vars => Talk'
<1>. SUFFICES ASSUME OneModel, TInv, Talk, [Next]_vars PROVE Talk'  OBVIOUS
<1>1. CASE TurnStep  BY <1>1, TalkQuiet, TalkSends, TalkFinished, TalkSaved
<1>2. CASE \E c \in Chat, m \in Model : PrepareChat(c, m) \/ GroundingFails(c, m)
  BY <1>2, TalkPrepared
<1>3. CASE GenerateActive  BY <1>3, TalkPanel
<1>4. CASE \/ RunStarts \/ RunEnds \/ UnloadAll \/ UNCHANGED vars
           \/ \E m \in Panel : LoadModel(m) \/ ReloadFails(m)
           \/ \E m \in Model : RunLoads(m) \/ UnloadModel(m) \/ ServerDies(m)
           \/ \E c \in Chat : DeleteChat(c)
           \/ \E c \in Chat, m \in Model : RestoreFails(c, m) \/ PrepareAgent(c, m)
  BY <1>4, TalkFree
<1>. QED  BY <1>1, <1>2, <1>3, <1>4 DEF Next, TurnStep

\* There is no conversation at the start.
LEMMA InitTalk == Init => Talk
BY DEF Init, Talk, Current, TurnsFitTheirBinding, NoTurn

\* With one model, however many chats, agents and panels share it: a turn
\* talks to its model, and sends exchanges of its own chat only.
THEOREM FitTheorem == ASSUME OneModel PROVE Spec => []TurnsFitTheirBinding
<1>1. TInv /\ Talk /\ [Next]_vars => Talk'  BY TalkStep
<1>2. Talk => TurnsFitTheirBinding  BY DEF Talk
<1>. QED  BY <1>1, <1>2, InitTalk, InitTInv, TInvStep, PTL DEF Spec

\* With one model: a chat that is bound to a live server goes on where it was
\* left, whoever used the model in between.
THEOREM MemoryTheorem == ASSUME OneModel PROVE Spec => []BoundChatIsRemembered
<1>1. TInv /\ Talk /\ [Next]_vars => Talk'  BY TalkStep
<1>2. TInv /\ Talk => BoundChatIsRemembered
  <2>. SUFFICES ASSUME Talk, Free, binding # None, Healthy(Bound(active, binding.chat, "chat")),
                       NEW x \in Saved(binding.chat), x.part # "question"
       PROVE  x \in Sent
    BY DEF BoundChatIsRemembered
  <2>1. binding.kind = "chat" /\ Serves  BY DEF Healthy, Bound
  <2>2. binding.chat # None  BY DEF Saved, Talk
  <2>. QED  BY <2>1, <2>2 DEF Current, Talk, Remembers
<1>. QED  BY <1>1, <1>2, InitTalk, InitTInv, TInvStep, PTL DEF Spec

===============================================================================
