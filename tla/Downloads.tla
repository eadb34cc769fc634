------------------------------ MODULE Downloads ------------------------------
(***************************************************************************)
(* Model downloads: the transfer of aidream/huggingface.py, the job of     *)
(* aidream/http_api.py that runs it in the service, the window of          *)
(* aidream/ui.py that runs it in the desktop program, and the stream that  *)
(* reports a job to the browser.                                           *)
(*                                                                         *)
(* One file of one repository is downloaded into one folder: its name, the *)
(* name of the partial file and the name of the sidecar are the same for   *)
(* every transfer.  Names point to inodes, since the file is published by  *)
(* a hard link and written through an open handle.  The content of an      *)
(* inode is a sequence of chunks, each told by the entity it was read from *)
(* and by its place in it.                                                 *)
(***************************************************************************)
EXTENDS Naturals, Sequences, FiniteSets, Nothing

CONSTANTS
  Entity,    \* what the Hub may serve under the name, told by its ETag
  Size,      \* the chunks of each
  Job,       \* ids of the jobs of the service
  Window,    \* the job of the desktop window
  MaxJobs,   \* MAX_DOWNLOAD_JOBS
  Together   \* both programs may be downloading the file at once

ASSUME SizeAssumption   == Size \in [Entity -> Nat \ {0}]
ASSUME JobAssumption    == Window \notin Job /\ MaxJobs \in Nat \ {0}
ASSUME SwitchAssumption == Together \in BOOLEAN
ASSUME DownloadNone     == None \notin Entity \cup Job \cup {Window} \cup 1..4

Program == {"web", "desk"}
Inode   == 1..4
Chunk   == [of : Entity \cup {None}, at : Nat]
Hole    == [of |-> None, at |-> 0]
Sidecar == [tag : Entity \cup {None}, received : Nat]
Open    == {"queued", "downloading", "cancelling"}
Ended   == {"complete", "failed", "cancelled"}
Phase   == {"idle", "queued", "start", "ask", "count", "open", "read",
            "write", "end", "link", "unlink", "done"} \cup Ended
Worker  == [phase  : Phase,
            then   : Phase,                  \* where unlinking leads to
            job    : Job \cup {Window, None},
            cancel : BOOLEAN,                \* the event of the job
            offset : Nat,                    \* what is resumed
            tag    : Entity \cup {None},     \* of the sidecar, then the ETag
            body   : Entity \cup {None},     \* what the response delivers
            next   : Nat,                    \* the chunk it delivers next
            sized  : BOOLEAN,                \* its length is known
            got    : Nat,                    \* received
            out    : Inode \cup {None}]      \* the open partial file

VARIABLES
  entity,  \* what the Hub serves now
  disk,    \* the content of the inodes
  part,    \* the partial file
  meta,    \* the sidecar
  final,   \* the published file
  w,       \* what each program's worker does
  status,  \* of the jobs; "none" when there is no such job
  reader,  \* the stream of a job: the job and the state it sent last
  orphans  \* jobs whose worker has died of an error nobody catches

files == <<disk, part, meta, final>>
vars  == <<entity, files, w, status, reader, orphans>>

-----------------------------------------------------------------------------
Idle == [phase |-> "idle", then |-> "idle", job |-> None, cancel |-> FALSE,
         offset |-> 0, tag |-> None, body |-> None, next |-> 0,
         sized |-> TRUE, got |-> 0, out |-> None]
Busy(p)  == w[p].phase # "idle"
NoStream == [job |-> None, sent |-> "nothing"]
Existing == {j \in Job : status[j] # "none"}
Named    == {part, final} \cup {w[p].out : p \in Program}
Whole(e) == [i \in 1..Size[e] |-> [of |-> e, at |-> i]]

\* What nothing names any more is gone.
Sweep(d) == disk' = [i \in Inode |-> IF i \in Named' THEN d[i] ELSE <<>>]
Step(p, changed) == w' = [w EXCEPT ![p] = changed]
Move(p, phase)   == Step(p, [w[p] EXCEPT !.phase = phase])

\* _discard_partial: the partial file first, the sidecar after it.
Discard(p, before, then) ==
  /\ part' = None
  /\ Step(p, [before EXCEPT !.phase = "unlink", !.then = then, !.out = None])
  /\ UNCHANGED <<meta, final>> /\ Sweep(disk)

\* Mutant: what a cancelled transfer has left is kept for the next one.
LeaveKeeping(p, outcome) ==
  /\ Step(p, [w[p] EXCEPT !.phase = outcome, !.out = None])
  /\ UNCHANGED <<part, meta, final>> /\ Sweep(disk)
\* The transfer ends: a cancelled one takes its files with it, whatever it
\* ended in.
Leave(p, outcome) ==
  IF w[p].cancel
  THEN Discard(p, w[p], outcome)
  ELSE /\ Step(p, [w[p] EXCEPT !.phase = outcome, !.out = None])
       /\ UNCHANGED <<part, meta, final>> /\ Sweep(disk)

\* A 206 is appended to what is there when it starts where that ends and
\* both are known to belong to one entity.
Resumes(p, from, tag) ==
  from = w[p].offset /\ tag = w[p].tag /\ tag # None

\* _load_partial: what is there is resumed if the sidecar counts as much.
Usable == part # None /\ meta # None /\ meta.received = Len(disk[part])

Running(p) == UNCHANGED <<entity, status, reader, orphans>>

-----------------------------------------------------------------------------
(* The jobs.                                                               *)

Begun == ~Busy("web")

Admits(p) == Together \/ \A q \in Program : q # p => ~Busy(q)

\* create_download: one worker at a time; at the limit, every job that has
\* ended is forgotten.
Purged == IF Cardinality(Existing) >= MaxJobs
          THEN [j \in DOMAIN status |->
                  IF j \in Job /\ status[j] \in Ended
                  THEN "none" ELSE status[j]]
          ELSE status
CreateDownload(j) ==
  /\ Begun /\ Admits("web")
  /\ status[j] = "none" /\ reader.job # j  \* a fresh id
  /\ Cardinality({i \in Job : Purged[i] # "none"}) < MaxJobs
  /\ status' = [Purged EXCEPT ![j] = "queued"]
  /\ w' = [w EXCEPT !["web"] = [Idle EXCEPT !.phase = "queued", !.job = j]]
  /\ orphans' = {i \in orphans : status'[i] \in Open}
  /\ UNCHANGED <<entity, files, reader>>
RunDownload ==
  /\ w["web"].phase = "queued"
  /\ status' = [status EXCEPT ![w["web"].job] = "downloading"]
  /\ Move("web", "start")
  /\ UNCHANGED <<entity, files, reader, orphans>>

\* The window has one download at a time: its buttons are disabled.
WindowDownload ==
  /\ status[Window] \notin Open /\ ~Busy("desk") /\ Admits("desk")
  /\ status' = [status EXCEPT ![Window] = "downloading"]
  /\ Step("desk", [Idle EXCEPT !.phase = "start", !.job = Window])
  /\ UNCHANGED <<entity, files, reader, orphans>>

\* cancel_download of either program.
CancelDownload(j) ==
  /\ status[j] \in {"queued", "downloading"}
  /\ status' = [status EXCEPT ![j] = "cancelling"]
  /\ w' = [p \in Program |-> [w[p] EXCEPT !.cancel = @ \/ w[p].job = j]]
  /\ UNCHANGED <<entity, files, reader, orphans>>

\* What a job is told of.  The service registers the folder before it says
\* so, and a job whose folder cannot be registered has failed with its file
\* in place; the window registers it as well, and does not mind.
Told(p) == IF w[p].phase # "done" THEN {w[p].phase}
           ELSE IF p = "web" THEN {"complete", "failed"} ELSE {"complete"}
\* The worker is back.
Report(p) ==
  /\ w[p].phase \in {"done", "failed", "cancelled"}
  /\ \E s \in Told(p) : status' = [status EXCEPT ![w[p].job] = s]
  /\ Step(p, Idle)
  /\ UNCHANGED <<entity, files, reader, orphans>>

-----------------------------------------------------------------------------
(* The transfer.                                                           *)

Start(p) ==
  /\ w[p].phase = "start"
  /\ IF final # None
     THEN Move(p, "failed") /\ UNCHANGED files  \* before the try: no cleanup
     ELSE IF w[p].cancel THEN Leave(p, "cancelled")
     ELSE IF ~Usable THEN Discard(p, w[p], "ask")
     ELSE /\ Step(p, [w[p] EXCEPT !.phase = "ask", !.tag = meta.tag,
                                  !.offset = meta.received])
          /\ UNCHANGED files
  /\ Running(p)

Unlink(p) ==
  /\ w[p].phase = "unlink"
  /\ meta' = None
  /\ Step(p, [w[p] EXCEPT !.phase = w[p].then, !.then = "idle"])
  /\ UNCHANGED <<disk, part, final>> /\ Running(p)

\* The response carries the entity of now; it may lack its ETag, and its
\* length when its framing shows where it ends.
Accept(p, from) ==
  \E tag \in {entity, None}, sized \in BOOLEAN :
    /\ Step(p, [w[p] EXCEPT !.phase = "count", !.tag = tag, !.body = entity,
                            !.next = from + 1, !.sized = sized,
                            !.got = w[p].offset])
    /\ UNCHANGED files
Ask(p) ==
  /\ w[p].phase = "ask"
  /\ \/ Leave(p, "failed")           \* refused, unreachable, a timeout
     \/ /\ w[p].offset = 0
        /\ Accept(p, 0) \/ Leave(p, "failed")  \* 200, or a 206 unasked for
     \/ /\ w[p].offset > 0
        /\ \/ \* 206 from some place on
              \E from \in 0..Size[entity] - 1, tag \in {entity, None} :
                /\ Resumes(p, from, tag)
                /\ Accept(p, from) /\ w'[p].tag = tag
           \/ \* 416, 200, or a 206 that is not safe
              Discard(p, [w[p] EXCEPT !.offset = 0, !.tag = None], "ask")
  /\ Running(p)

\* The sidecar, before the first chunk and after every chunk.  There may be
\* no room: for what is to come, or for the sidecar itself.
Count(p) ==
  /\ w[p].phase = "count"
  /\ \/ Leave(p, "failed")
     \/ /\ meta' = [tag |-> w[p].tag, received |-> w[p].got]
        /\ Move(p, IF w[p].out = None THEN "open" ELSE "read")
        /\ UNCHANGED <<disk, part, final>>
  /\ Running(p)

Unused == CHOOSE i \in Inode : i \notin Named
OpenPart(p) ==
  /\ w[p].phase = "open"
  /\ LET i == IF part = None THEN Unused ELSE part
         kept == IF w[p].offset > 0 THEN disk[i] ELSE <<>>
     IN /\ part' = i
        /\ Step(p, [w[p] EXCEPT !.phase = "read", !.out = i])
        /\ UNCHANGED <<meta, final>>
        /\ Sweep([disk EXCEPT ![i] = kept])
  /\ Running(p)

Read(p) ==
  /\ w[p].phase = "read"
  /\ IF w[p].cancel THEN Leave(p, "cancelled")
     ELSE \/ Leave(p, "failed")
          \/ /\ w[p].next <= Size[w[p].body]
             /\ Move(p, "write") /\ UNCHANGED files
          \/ /\ w[p].next > Size[w[p].body] \/ w[p].sized  \* or cut short
             /\ Step(p, [w[p] EXCEPT !.phase = "end", !.out = None])
             /\ UNCHANGED <<part, meta, final>> /\ Sweep(disk)
  /\ Running(p)

\* A handle opened to append writes at the end, the other where it stands.
Place(p) == IF w[p].offset > 0 THEN Len(disk[w[p].out]) + 1 ELSE w[p].got + 1
Written(s, at, chunk) ==
  [i \in 1..(IF at > Len(s) THEN at ELSE Len(s)) |->
     IF i = at THEN chunk ELSE IF i <= Len(s) THEN s[i] ELSE Hole]
Write(p) ==
  /\ w[p].phase = "write"
  /\ IF w[p].cancel THEN Leave(p, "cancelled")
     ELSE \/ Leave(p, "failed")
          \/ /\ disk' = [disk EXCEPT ![w[p].out] =
                  Written(@, Place(p), [of |-> w[p].body, at |-> w[p].next])]
             /\ Step(p, [w[p] EXCEPT !.phase = "count",
                                     !.next = @ + 1, !.got = @ + 1])
             /\ UNCHANGED <<part, meta, final>>
  /\ Running(p)

\* Mutant: a short answer is published.
EnoughAnyway(p) == TRUE
Enough(p) == w[p].sized => w[p].got = Size[w[p].body]
End(p) ==
  /\ w[p].phase = "end"
  /\ IF ~Enough(p) THEN Leave(p, "failed")
     ELSE IF w[p].cancel THEN Leave(p, "cancelled")
     ELSE Move(p, "link") /\ UNCHANGED files
  /\ Running(p)

\* Publication: the link fails when the name is taken, or the part is gone.
Link(p) ==
  /\ w[p].phase = "link"
  /\ \/ Leave(p, "failed")
     \/ /\ final = None /\ part # None
        /\ final' = part /\ part' = None  \* and _discard_partial
        /\ Step(p, [w[p] EXCEPT !.phase = "unlink", !.then = "done"])
        /\ UNCHANGED <<disk, meta>>
  /\ Running(p)

\* An http.client.HTTPException is none of the errors a caller catches: the
\* worker ends and the job stays as it is.
Break(p) ==
  /\ w[p].phase \in {"ask", "read"}
  /\ Step(p, Idle)
  /\ IF w[p].cancel THEN part' = None /\ meta' = None
     ELSE UNCHANGED <<part, meta>>
  /\ UNCHANGED final /\ Sweep(disk)
  /\ orphans' = orphans \cup {w[p].job}
  /\ UNCHANGED <<entity, status, reader>>

-----------------------------------------------------------------------------
(* The stream of a job, and what happens around the downloads.             *)

OpenStream(j) ==
  /\ reader = NoStream /\ status[j] # "none"
  /\ reader' = [job |-> j, sent |-> "nothing"]
  /\ UNCHANGED <<entity, files, w, status, orphans>>
\* Mutant: only an ending that is not new ends the stream.
SendsForever(s) == reader' = [reader EXCEPT !.sent = s]
\* A new state is sent; a last one, or none, ends the stream.
Sends(s) == reader' = IF s \in Ended \cup {"none"} THEN NoStream
                      ELSE [reader EXCEPT !.sent = s]
\* One round of _serve_download_events.
Stream ==
  /\ reader # NoStream
  /\ status[reader.job] # reader.sent
  /\ Sends(status[reader.job])
  /\ UNCHANGED <<entity, files, w, status, orphans>>
\* The client leaves.
LeaveStream ==
  /\ reader # NoStream /\ reader' = NoStream
  /\ UNCHANGED <<entity, files, w, status, orphans>>

\* The program dies, with its jobs and its streams.
Die(p) ==
  /\ Step(p, Idle)
  /\ status' = [j \in DOMAIN status |->
                  IF (p = "desk") = (j = Window) THEN "none" ELSE status[j]]
  /\ reader' = IF p = "web" THEN NoStream ELSE reader
  /\ orphans' = {j \in orphans : status'[j] \in Open}
  /\ UNCHANGED <<entity, part, meta, final>> /\ Sweep(disk)
\* The user removes the published file.
RemoveFinal ==
  /\ final # None /\ final' = None
  /\ UNCHANGED <<entity, part, meta, w, status, reader, orphans>>
  /\ Sweep(disk)
\* The file is replaced on the Hub.
Replace ==
  /\ entity' \in Entity \ {entity}
  /\ UNCHANGED <<files, w, status, reader, orphans>>

-----------------------------------------------------------------------------
Init ==
  /\ entity \in Entity
  /\ disk = [i \in Inode |-> <<>>]
  /\ part = None /\ meta = None /\ final = None
  /\ w = [p \in Program |-> Idle]
  /\ status = [j \in Job \cup {Window} |-> "none"]
  /\ reader = NoStream
  /\ orphans = {}

Transfer(p) == \/ Start(p) \/ Unlink(p) \/ Ask(p) \/ Count(p) \/ OpenPart(p)
               \/ Read(p) \/ Write(p) \/ End(p) \/ Link(p) \/ Break(p)
Next ==
  \/ \E j \in Job : CreateDownload(j) \/ OpenStream(j)
  \/ RunDownload \/ WindowDownload
  \/ \E j \in Job \cup {Window} : CancelDownload(j)
  \/ \E p \in Program : Transfer(p) \/ Report(p) \/ Die(p)
  \/ Stream \/ LeaveStream \/ RemoveFinal \/ Replace

\* The threads run and the requests have a timeout; users, crashes and the
\* Hub do as they like.
Fairness ==
  /\ WF_vars(RunDownload) /\ WF_vars(Stream)
  /\ \A p \in Program : WF_vars(Transfer(p)) /\ WF_vars(Report(p))
Spec == Init /\ [][Next]_vars /\ Fairness

-----------------------------------------------------------------------------
(* What is checked.                                                        *)

TypeOK ==
  /\ entity \in Entity
  /\ DOMAIN disk = Inode
  /\ \A i \in Inode : \A k \in DOMAIN disk[i] : disk[i][k] \in Chunk
  /\ {part, final} \subseteq Inode \cup {None}
  /\ meta = None \/ meta \in Sidecar
  /\ w \in [Program -> Worker]
  /\ status \in [Job \cup {Window} -> {"none"} \cup Open \cup Ended]
  /\ orphans \subseteq {j \in Job \cup {Window} : status[j] \in Open}
  /\ reader.job \in Job \cup {None} /\ reader.sent \in {"nothing"} \cup Open

\* What has the name of the model is the whole of one entity, whatever was
\* interrupted, resumed or replaced on the Hub on the way (os.link).
PublishedIsWhole == final # None => \E e \in Entity : disk[final] = Whole(e)

\* What the next transfer would resume is the beginning of the entity its
\* sidecar names, wherever the last one was interrupted (_load_partial).
ResumableIsABeginning ==
  (Usable /\ meta.tag # None /\ \A p \in Program : ~Busy(p)) =>
    /\ meta.received <= Size[meta.tag]
    /\ disk[part] = SubSeq(Whole(meta.tag), 1, meta.received)

\* A job that has not ended has a worker that will end it and has no other
\* job (_download_worker_active), unless it is one of the orphans.
OpenJobsHaveTheirWorker ==
  \A j \in DOMAIN status : (status[j] \in Open /\ j \notin orphans) =>
    \E p \in Program : Busy(p) /\ w[p].job = j

\* Files and jobs agree with what the transfers do, between any two steps.
FilesAndJobsAreSound ==
  TypeOK /\ PublishedIsWhole /\ ResumableIsABeginning /\ OpenJobsHaveTheirWorker

\* A job is reported cancelled when nothing of its transfer is left: the
\* window says that no partial model was saved (download's finally).
CancelledLeavesNothing ==
  [][\A j \in DOMAIN status :
       (status[j] # "cancelled" /\ status'[j] = "cancelled") =>
         part = None /\ meta = None]_vars

\* The browser learns how each download ends, or that it is forgotten, as
\* long as it listens (_serve_download_events); of an orphan it may not.
EveryProgressStreamEnds ==
  (reader # NoStream) ~> (reader = NoStream \/ reader.job \in orphans)
=============================================================================
