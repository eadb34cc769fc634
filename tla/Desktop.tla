------------------------------ MODULE Desktop ------------------------------
(***************************************************************************)
(* The desktop window (ui.py): its chats, the worker thread that loads and *)
(* generates, the one that loads or unloads on request, the threads of     *)
(* push-to-talk and timed recordings, the queues Tk's timers poll, and the *)
(* closing of the window.  Handlers of Tk are steps of one thread; the     *)
(* steps of the workers come between any two of them.                      *)
(*                                                                         *)
(* A llama-server is the set of exchanges it remembers.  An exchange is a  *)
(* question and its answer, named by the chat it was asked in and the act  *)
(* of the user that asked it.                                              *)
(***************************************************************************)
EXTENDS Naturals, FiniteSets, Sequences, Nothing

CONSTANTS
  Model,       \* models, as numbers
  BackendOf,   \* the runtime of each
  Numeric,     \* models whose placement holds numbers
  MaxActs,     \* bound: what the user may do, all in all
  TurnCost, TalkCost  \* bound: how much of it a click, and voice input, takes

ASSUME CostAssumption == MaxActs \in Nat /\ TurnCost \in Nat \ {0} /\ TalkCost \in Nat \ {0}

Deed     == 0..MaxActs
ChatId   == Deed
Exchange == ChatId \X Deed
Entry    == [role : {"user", "system", "assistant"}, of : Exchange]
Memory   == [ready : BOOLEAN, knows : SUBSET Exchange]
Choice   == [model : Model, key : Model \X {"text", "number"}, by : {"user", "send"}]
Errand   == [kind : {"load", "unload"}, model : Model, pc : {"begin", "load", "done"}]
Answering == [chat : ChatId, of : Exchange, model : Model, agent : BOOLEAN, prior : SUBSET Exchange,
              pc  : {"begin", "load", "ask", "check", "put", "done"},
              end : {None, "complete", "error", "cancelled"}]
Recorder == [file : Deed, pc : {"starting", "recording", "ended", "failed", "cancelled", "taken"},
             cancel : {"no", "asked", "yes"}]
Listening == [kind : {"ptt", "timed", "file"}, file : Deed, model : BOOLEAN,
              pc : {"start", "record", "work", "unlink", "worker", "model", "path"}]

ASSUME WindowNone ==
  /\ None \notin {"complete", "error", "cancelled"} /\ None \notin Deed
  /\ None \notin Seq(Entry) /\ None \notin Memory /\ None \notin Choice
  /\ None \notin Errand /\ None \notin Answering /\ None \notin Recorder

VARIABLES
  phase,    \* "open", "closing", "cleaned" or "closed"
  acts,     \* what the user has done so far; also names chats and files
  chats,    \* chat -> the messages stored of it, or None
  cur,      \* chat_session
  loaded,   \* loaded_backend and loaded_key, or None
  servers,  \* model -> its llama-server, or None
  work,     \* the generation and its worker, or None
  stop,     \* _generation_event
  polls,    \* _poll_generation_results is scheduled
  action,   \* a load or an unload the user has asked for, or None
  voiceBusy, \* _voice_busy
  ptt,      \* _ptt_worker and its recorder, or None
  pttModel, \* _ptt_model is there
  pttPath,  \* _ptt_path, or None
  jobs,     \* threads that record or transcribe
  heard,    \* results of theirs that Tk has not seen
  mute,     \* a thread has ended without a result
  wavs,     \* microphone files on the disk
  lost      \* a server may be left that nothing knows of
window == <<phase, acts>>
store == <<chats, cur>>
runtime == <<loaded, servers>>
turn == <<work, stop, polls>>
voice == <<voiceBusy, ptt, pttModel, pttPath, jobs, heard, mute, wavs>>
desktop == <<window, store, runtime, turn, action, voice, lost>>

Alive == phase # "closed"

\* Something the user does.
Acts(n) == Alive /\ acts + n <= MaxActs /\ acts' = acts + n /\ UNCHANGED phase
Act == Acts(TurnCost)

-----------------------------------------------------------------------------
(* Servers.                                                                *)

Ready(knows) == [ready |-> TRUE, knows |-> knows]
Starting == [ready |-> FALSE, knows |-> {}]

\* send builds the key of what is loaded from texts, load_selected_model from
\* the values themselves.
SendKey(m) == <<m, "text">>
LoadKey(m) == <<m, IF m \in Numeric THEN "number" ELSE "text">>
Loaded(m, key, by) == [model |-> m, key |-> key, by |-> by]

\* backend.unload(): the servers that are ready; one that starts is not known.
Unloaded(m) ==
  [n \in Model |-> IF BackendOf[n] = BackendOf[m] /\ servers[n] # None /\ servers[n].ready
                   THEN None ELSE servers[n]]

\* _unload_current.
ServersWithoutCurrent == IF loaded = None THEN servers ELSE Unloaded(loaded.model)
UnloadCurrent == loaded' = None /\ servers' = ServersWithoutCurrent

-----------------------------------------------------------------------------
(* The model the user loads and unloads.                                   *)

Wanted(kind, m) == [kind |-> kind, model |-> m, pc |-> "begin"]

\* load_selected_model and reload_model.
Load(m) ==
  /\ Act /\ work = None /\ action = None
  /\ action' = Wanted("load", m)
  /\ lost' = (lost \/ phase = "cleaned")
  /\ UNCHANGED <<store, runtime, turn, voice>>

\* The worker unloads another runtime; on the same one, LlamaCppBackend.load
\* stops the server of the same model and of no other.
LoadBegins ==
  /\ Alive /\ action # None /\ action.kind = "load" /\ action.pc = "begin"
  /\ LET m == action.model
         others == IF loaded # None /\ BackendOf[loaded.model] # BackendOf[m]
                   THEN Unloaded(loaded.model) ELSE servers
     IN servers' = [others EXCEPT ![m] = Starting]
  /\ loaded' = None
  /\ action' = [action EXCEPT !.pc = "load"]
  /\ UNCHANGED <<window, store, turn, voice, lost>>

LoadEnds ==
  /\ Alive /\ action # None /\ action.kind = "load" /\ action.pc = "load"
  /\ LET m == action.model
     IN \/ /\ loaded' = Loaded(m, LoadKey(m), "user") /\ servers' = [servers EXCEPT ![m] = Ready({})]
           /\ UNCHANGED lost
        \/ /\ loaded' = None /\ servers' = [servers EXCEPT ![m] = None]
           /\ lost' = (lost \/ \E n \in Model \ {m} : servers[n] # None)
  /\ action' = [action EXCEPT !.pc = "done"]
  /\ UNCHANGED <<window, store, turn, voice>>

\* unload_model.
Unload ==
  /\ Act /\ work = None /\ action = None /\ loaded # None
  /\ action' = Wanted("unload", loaded.model)
  /\ UNCHANGED <<store, runtime, turn, voice, lost>>

UnloadEnds ==
  /\ Alive /\ action # None /\ action.kind = "unload" /\ action.pc = "begin"
  /\ \/ loaded' = None /\ servers' = Unloaded(action.model)
     \/ UNCHANGED runtime
  /\ action' = [action EXCEPT !.pc = "done"]
  /\ UNCHANGED <<window, store, turn, voice, lost>>

\* _finish_runtime_action, called back by Tk.
FinishAction ==
  /\ Alive /\ action # None /\ action.pc = "done"
  /\ action' = None
  /\ UNCHANGED <<window, store, runtime, turn, voice, lost>>

-----------------------------------------------------------------------------
(* Chats.  Their buttons are disabled while an answer is generated, not    *)
(* while a model is loaded.                                                *)

Present == {c \in ChatId : chats[c] # None}

\* Mutant: the model stays loaded, with what it knows.
KeepCurrent == UNCHANGED <<loaded, servers>>
ForgetCurrent == UnloadCurrent

NewChat ==
  /\ Act /\ work = None
  /\ cur' = acts' /\ chats' = [chats EXCEPT ![acts'] = <<>>]
  /\ ForgetCurrent
  /\ UNCHANGED <<turn, action, voice, lost>>

SelectChat ==
  /\ Act /\ work = None
  /\ \E c \in Present \ {cur} : cur' = c
  /\ ForgetCurrent
  /\ UNCHANGED <<chats, turn, action, voice, lost>>

\* The next one is the newest of the others, or a new one.
DeleteChat ==
  /\ Act /\ work = None
  /\ IF Present = {cur}
     THEN cur' = acts' /\ chats' = [chats EXCEPT ![cur] = None, ![acts'] = <<>>]
     ELSE \E c \in Present \ {cur} : cur' = c /\ chats' = [chats EXCEPT ![cur] = None]
  /\ ForgetCurrent
  /\ UNCHANGED <<turn, action, voice, lost>>

-----------------------------------------------------------------------------
(* Sending a message.                                                      *)

Quiet == work = None /\ action = None

Message(role, n) == [role |-> role, of |-> n]
\* The exchanges a conversation holds, for the model.
Exchanges(msgs) == {msgs[i].of : i \in {j \in DOMAIN msgs : msgs[j].role # "system"}}

\* send: the settings of the chat are saved, the worker starts.
Send(m, agent) ==
  /\ Act /\ Quiet
  /\ work' = [chat |-> cur, of |-> <<cur, acts'>>, model |-> m, agent |-> agent, prior |-> Exchanges(chats[cur]),
              pc |-> "begin", end |-> None]
  /\ stop' = FALSE
  /\ lost' = (lost \/ phase = "cleaned")
  /\ UNCHANGED <<store, runtime, polls, action, voice>>

WorkOver(end) == work' = [work EXCEPT !.pc = "done", !.end = end]
Failed == WorkOver(IF stop THEN "cancelled" ELSE "error")

WorkBegins ==
  /\ Alive /\ work # None /\ work.pc = "begin"
  /\ IF loaded # None /\ loaded.key = SendKey(work.model)
     THEN work' = [work EXCEPT !.pc = "ask"] /\ UNCHANGED runtime
     ELSE /\ loaded' = None
          /\ servers' = [ServersWithoutCurrent EXCEPT ![work.model] = Starting]
          /\ work' = [work EXCEPT !.pc = "load"]
  /\ UNCHANGED <<window, store, stop, polls, action, voice, lost>>

\* restore_history with the messages of the chat.
Restored == Ready(work.prior)

WorkLoads ==
  /\ Alive /\ work # None /\ work.pc = "load"
  /\ LET m == work.model
     IN \/ /\ loaded' = Loaded(m, SendKey(m), "send") /\ servers' = [servers EXCEPT ![m] = Restored]
           /\ work' = [work EXCEPT !.pc = "ask"]
        \/ loaded' = loaded /\ servers' = [servers EXCEPT ![m] = None] /\ Failed
  /\ UNCHANGED <<window, store, stop, polls, action, voice, lost>>

Server == servers[work.model]

\* generate_stream: the question and the answer are kept by the server, or
\* neither is.  An agent keeps its own list; stopped, it ends with a text.
WorkAsks ==
  /\ Alive /\ work # None /\ work.pc = "ask"
  /\ \/ Failed /\ UNCHANGED servers
     \/ /\ ~work.agent /\ ~stop /\ Server # None /\ Server.ready
        /\ servers' = [servers EXCEPT ![work.model].knows = @ \union {work.of}]
        /\ work' = [work EXCEPT !.pc = "check"]
     \/ /\ work.agent /\ (stop \/ Server # None)
        /\ work' = [work EXCEPT !.pc = IF stop THEN "put" ELSE "check"]
        /\ UNCHANGED servers
  /\ UNCHANGED <<window, store, loaded, stop, polls, action, voice, lost>>

\* "Generation stopped" is raised when the event is seen; set any later, it is
\* not noticed.
WorkChecks ==
  /\ Alive /\ work # None /\ work.pc = "check"
  /\ IF stop THEN WorkOver("cancelled") ELSE work' = [work EXCEPT !.pc = "put"]
  /\ UNCHANGED <<window, store, runtime, stop, polls, action, voice, lost>>

WorkPuts ==
  /\ Alive /\ work # None /\ work.pc = "put"
  /\ WorkOver("complete")
  /\ UNCHANGED <<window, store, runtime, stop, polls, action, voice, lost>>

\* stop_generation.
Stop ==
  /\ Act /\ work # None /\ ~stop
  /\ stop' = TRUE
  /\ UNCHANGED <<store, runtime, work, polls, action, voice, lost>>

Saved(n, agent) ==
  <<Message("user", n)>> \o (IF agent THEN <<Message("system", n)>> ELSE <<>>) \o <<Message("assistant", n)>>

\* _poll_generation_results, the end of a generation: a complete one is saved,
\* message by message.  An exception of a save leaves the callback, which is
\* then not scheduled again.
PollComplete ==
  /\ Alive /\ polls /\ work # None /\ work.end = "complete"
  /\ \E k \in 0..Len(Saved(work.of, work.agent)) :
       LET all == Saved(work.of, work.agent)
       IN /\ chats' = [chats EXCEPT ![work.chat] = @ \o SubSeq(all, 1, k)]
          /\ IF k = Len(all)
             THEN /\ IF work.agent /\ Server # None
                     THEN servers' = [servers EXCEPT ![work.model].knows = Exchanges(chats'[work.chat])]
                     ELSE UNCHANGED servers
                  /\ work' = None /\ polls' = TRUE
             ELSE UNCHANGED <<servers, work>> /\ polls' = FALSE
  /\ UNCHANGED <<window, cur, loaded, stop, action, voice, lost>>

PollFailed ==
  /\ Alive /\ polls /\ work # None /\ work.end \in {"error", "cancelled"}
  /\ IF work.end = "error" THEN UnloadCurrent ELSE UNCHANGED runtime
  /\ work' = None
  /\ UNCHANGED <<window, store, stop, polls, action, voice, lost>>

-----------------------------------------------------------------------------
(* Voice input.                                                            *)

NoRecording == ptt' = None /\ pttModel' = FALSE /\ pttPath' = None
Task(kind, file, model, pc) == [kind |-> kind, file |-> file, model |-> model, pc |-> pc]

\* _push_to_talk_down.
PushToTalk ==
  /\ Acts(TalkCost) /\ ~voiceBusy /\ ptt = None
  /\ ptt' = [file |-> acts', pc |-> "starting", cancel |-> "no"]
  /\ pttModel' = TRUE /\ pttPath' = acts' /\ voiceBusy' = TRUE
  /\ UNCHANGED <<store, runtime, turn, action, jobs, heard, mute, wavs, lost>>

RecorderStarts ==
  /\ Alive /\ ptt # None /\ ptt.pc = "starting"
  /\ \/ ptt' = [ptt EXCEPT !.pc = "recording"] /\ wavs' = wavs \union {ptt.file}
     \/ ptt' = [ptt EXCEPT !.pc = "failed"] /\ UNCHANGED wavs
  /\ UNCHANGED <<window, store, runtime, turn, action, voiceBusy, pttModel, pttPath, jobs, heard, mute, lost>>

\* The control is released, the time is up, or the recorder fails or is
\* cancelled; only a cancelled one removes its file.
RecorderEnds ==
  /\ Alive /\ ptt # None /\ ptt.pc = "recording"
  /\ IF ptt.cancel = "yes"
     THEN ptt' = [ptt EXCEPT !.pc = "cancelled"] /\ wavs' = wavs \ {ptt.file}
     ELSE (\E pc \in {"ended", "failed"} : ptt' = [ptt EXCEPT !.pc = pc]) /\ UNCHANGED wavs
  /\ UNCHANGED <<window, store, runtime, turn, action, voiceBusy, pttModel, pttPath, jobs, heard, mute, lost>>

\* The thread close starts for it.
RecorderIsCancelled ==
  /\ Alive /\ ptt # None /\ ptt.cancel = "asked"
  /\ ptt' = [ptt EXCEPT !.cancel = "yes"]
  /\ UNCHANGED <<window, store, runtime, turn, action, voiceBusy, pttModel, pttPath, jobs, heard, mute, wavs, lost>>

\* _poll_push_to_talk: a thread transcribes what was recorded.
PollRecorded ==
  /\ Alive /\ ptt # None /\ ptt.pc = "ended"
  /\ IF ptt.cancel = "yes"
     THEN NoRecording /\ heard' = heard + 1 /\ UNCHANGED jobs
     ELSE /\ jobs' = jobs \union {Task("ptt", ptt.file, pttModel, "work")}
          /\ ptt' = [ptt EXCEPT !.pc = "taken"]
          /\ UNCHANGED <<pttModel, pttPath, heard>>
  /\ UNCHANGED <<window, store, runtime, turn, action, voiceBusy, mute, wavs, lost>>

PollUnrecorded ==
  /\ Alive /\ ptt # None /\ ptt.pc \in {"failed", "cancelled"}
  /\ NoRecording /\ heard' = heard + 1
  /\ UNCHANGED <<window, store, runtime, turn, action, voiceBusy, jobs, mute, wavs, lost>>

\* _start_transcription, of a recording of some seconds or of a file.
Transcribe(kind) ==
  /\ Acts(TalkCost) /\ ~voiceBusy
  /\ jobs' = jobs \union {Task(kind, acts', TRUE, IF kind = "timed" THEN "start" ELSE "work")}
  /\ voiceBusy' = TRUE
  /\ UNCHANGED <<store, runtime, turn, action, ptt, pttModel, pttPath, heard, mute, wavs, lost>>

At(j, pc) == (jobs \ {j}) \union {[j EXCEPT !.pc = pc]}

JobRecords(j) ==
  /\ Alive
  /\ \/ j.pc = "start" /\ jobs' = At(j, "record") /\ wavs' = wavs \union {j.file} /\ UNCHANGED heard
     \/ j.pc = "record" /\ jobs' = At(j, "work") /\ UNCHANGED <<heard, wavs>>
     \/ j.pc \in {"start", "record"} /\ jobs' = At(j, "unlink") /\ heard' = heard + 1 /\ UNCHANGED wavs
  /\ UNCHANGED <<window, store, runtime, turn, action, voiceBusy, ptt, pttModel, pttPath, mute, lost>>

\* Without a model the tool is never started: the exception is none of those
\* that are reported.
JobWorks(j) ==
  /\ Alive /\ j.pc = "work"
  /\ IF j.model THEN heard' = heard + 1 /\ UNCHANGED mute ELSE mute' = TRUE /\ UNCHANGED heard
  /\ jobs' = At(j, "unlink")
  /\ UNCHANGED <<window, store, runtime, turn, action, voiceBusy, ptt, pttModel, pttPath, wavs, lost>>

JobUnlinks(j) ==
  /\ Alive /\ j.pc = "unlink"
  /\ wavs' = IF j.kind = "file" THEN wavs ELSE wavs \ {j.file}
  /\ jobs' = IF j.kind = "ptt" THEN At(j, "worker") ELSE jobs \ {j}
  /\ UNCHANGED <<window, store, runtime, turn, action, voiceBusy, ptt, pttModel, pttPath, heard, mute, lost>>

\* _cleanup_push_to_talk, on the thread of the transcription: its statements
\* are three steps, between which the user may record again.
JobCleans(j) ==
  /\ Alive
  /\ \/ j.pc = "worker" /\ ptt' = None /\ jobs' = At(j, "model") /\ UNCHANGED <<pttModel, pttPath>>
     \/ j.pc = "model" /\ pttModel' = FALSE /\ jobs' = At(j, "path") /\ UNCHANGED <<ptt, pttPath>>
     \/ j.pc = "path" /\ pttPath' = None /\ jobs' = jobs \ {j} /\ UNCHANGED <<ptt, pttModel>>
  /\ UNCHANGED <<window, store, runtime, turn, action, voiceBusy, heard, mute, wavs, lost>>

JobSteps == \E j \in jobs : JobRecords(j) \/ JobWorks(j) \/ JobUnlinks(j) \/ JobCleans(j)

\* Mutant: the controls stay as they are.
StayBusy == voiceBusy' = voiceBusy
BeReady == voiceBusy' = FALSE

\* _poll_voice_results.
PollVoice ==
  /\ Alive /\ heard > 0
  /\ heard' = 0 /\ BeReady
  /\ UNCHANGED <<window, store, runtime, turn, action, ptt, pttModel, pttPath, jobs, mute, wavs, lost>>

-----------------------------------------------------------------------------
(* Closing the window.                                                     *)

Recording == ptt # None /\ ptt.pc \in {"starting", "recording"}

\* close: what runs is asked to stop.
Close ==
  /\ phase = "open" /\ phase' = "closing"
  /\ stop' = (stop \/ work # None)
  /\ ptt' = IF Recording THEN [ptt EXCEPT !.cancel = "asked"] ELSE ptt
  /\ wavs' = wavs \ {pttPath}
  /\ UNCHANGED <<acts, store, runtime, work, polls, action, voiceBusy, pttModel, pttPath, jobs, heard, mute, lost>>

Settled == action = None

\* cleanup: a load the user has asked for ends first.
Cleanup ==
  /\ phase = "closing" /\ phase' = "cleaned"
  /\ Settled
  /\ UnloadCurrent
  /\ lost' = (lost \/ (work # None /\ work.pc \in {"begin", "load"}))
  /\ UNCHANGED <<acts, store, turn, action, voice>>

\* _finish_close: the window goes, and the process with its threads.
Destroy ==
  /\ phase = "cleaned" /\ phase' = "closed"
  /\ work' = None /\ action' = None /\ jobs' = {} /\ ptt' = None /\ polls' = FALSE
  /\ UNCHANGED <<acts, store, runtime, stop, voiceBusy, pttModel, pttPath, heard, mute, wavs, lost>>

-----------------------------------------------------------------------------
WindowInit ==
  /\ phase = "open" /\ acts = 0
  /\ chats = [c \in ChatId |-> IF c = 0 THEN <<>> ELSE None] /\ cur = 0
  /\ loaded = None /\ servers = [m \in Model |-> None]
  /\ work = None /\ stop = FALSE /\ polls = TRUE /\ action = None
  /\ voiceBusy = FALSE /\ ptt = None /\ pttModel = FALSE /\ pttPath = None
  /\ jobs = {} /\ heard = 0 /\ mute = FALSE /\ wavs = {} /\ lost = FALSE

UserActs ==
  \/ \E m \in Model : Load(m) \/ \E agent \in BOOLEAN : Send(m, agent)
  \/ Unload \/ NewChat \/ SelectChat \/ DeleteChat \/ Stop
  \/ PushToTalk \/ \E kind \in {"timed", "file"} : Transcribe(kind)
  \/ Close

ActionSteps == LoadBegins \/ LoadEnds \/ UnloadEnds
WorkSteps == WorkBegins \/ WorkLoads \/ WorkAsks \/ WorkChecks \/ WorkPuts
RecorderSteps == RecorderStarts \/ RecorderEnds \/ RecorderIsCancelled
VoicePolls == PollRecorded \/ PollUnrecorded
Polls == PollComplete \/ PollFailed

WindowNext ==
  \/ UserActs \/ ActionSteps \/ FinishAction \/ WorkSteps \/ Polls
  \/ RecorderSteps \/ VoicePolls \/ JobSteps \/ PollVoice \/ Cleanup \/ Destroy

\* Threads go on, and Tk's timers fire; the user need do nothing.
WindowFairness ==
  /\ WF_desktop(ActionSteps) /\ WF_desktop(FinishAction)
  /\ WF_desktop(WorkSteps) /\ WF_desktop(Polls)
  /\ WF_desktop(RecorderSteps) /\ WF_desktop(VoicePolls) /\ WF_desktop(JobSteps) /\ WF_desktop(PollVoice)
  /\ WF_desktop(Cleanup) /\ WF_desktop(Destroy)

WindowSpec == WindowInit /\ [][WindowNext]_desktop /\ WindowFairness

-----------------------------------------------------------------------------
(* Properties.                                                             *)

HoldsWholes(msgs) ==
  /\ \A i \in DOMAIN msgs : msgs[i].role = "user"
       => \E j \in DOMAIN msgs : j > i /\ msgs[j] = Message("assistant", msgs[i].of)
  /\ Cardinality({i \in DOMAIN msgs : msgs[i].role = "user"}) = Cardinality(Exchanges(msgs))

\* The window's record of what is loaded, generates, records and polls keeps
\* to its shape; a conversation holds whole exchanges, each once, unless a
\* save has failed and ended the polls.
WindowTypeOK ==
  /\ phase \in {"open", "closing", "cleaned", "closed"} /\ acts \in Deed
  /\ chats \in [ChatId -> Seq(Entry) \cup {None}] /\ cur \in Present
  /\ loaded \in Choice \cup {None} /\ servers \in [Model -> Memory \cup {None}]
  /\ work \in Answering \cup {None} /\ action \in Errand \cup {None}
  /\ work # None => work.chat = cur /\ action = None
  /\ stop \in BOOLEAN /\ polls \in BOOLEAN /\ lost \in BOOLEAN
  /\ voiceBusy \in BOOLEAN /\ mute \in BOOLEAN /\ heard \in 0..MaxActs /\ wavs \subseteq Deed
  /\ ptt \in Recorder \cup {None} /\ pttModel \in BOOLEAN /\ pttPath \in Deed \cup {None}
  /\ jobs \subseteq Listening /\ Cardinality(jobs) <= MaxActs
  /\ polls => \A c \in Present : HoldsWholes(chats[c])

Knows(m) == IF servers[m] = None THEN {} ELSE servers[m].knows

\* A model that answers knows nothing of another chat; and one that a message
\* has loaded knows all that its chat has saved, whatever the user loaded,
\* unloaded, switched, deleted or stopped in between.
ModelKnowsItsChat ==
  /\ work # None /\ work.pc \in {"ask", "check"} => \A x \in Knows(work.model) : x[1] = work.chat
  /\ work = None /\ polls /\ loaded # None /\ loaded.by = "send"
       => Exchanges(chats[cur]) \subseteq Knows(loaded.model)

\* When the window is closed no server is left running, although a load the
\* user asked for may be under way when the closing begins.  (Not so: a server
\* of a model loaded before a load that failed; and one that a message or the
\* user starts while the window closes.)
ClosedLeavesNoServer == phase = "closed" /\ ~lost => \A m \in Model : servers[m] = None

\* The servers are what the window shows them to be.
ServersFollowTheWindow == WindowTypeOK /\ ModelKnowsItsChat /\ ClosedLeavesNoServer

\* A generation ends in the window, whatever fails, unless a save has ended
\* the polls; so does voice input, unless its thread has ended mute; and a
\* window that closes is gone in the end.
WindowRecovers ==
  /\ work # None ~> work = None \/ ~polls
  /\ voiceBusy ~> ~voiceBusy \/ mute \/ phase = "closed"
  /\ phase = "closing" ~> phase = "closed"

=============================================================================
