--------------------------- MODULE MailboxSession ---------------------------
(***************************************************************************)
(* The mailbox prototype (prototype/azahar): a guest program and a host    *)
(* frontend that share one page of guest memory.  The guest stores the     *)
(* fields of a request one word at a time, its state word last, and spins  *)
(* until the state reads RESPONSE (gekkopak_guest.S).  The frontend runs   *)
(* the emulated CPU for one video frame, which ends between any two        *)
(* instructions of the guest, then looks at the mailbox once               *)
(* (gekkopak_retro_frontend.c).                                            *)
(*                                                                         *)
(* Words of payload and of local memory are abstract; the checksum of some *)
(* bytes is those bytes.  The timing figures and the capability words are  *)
(* left out, and so is the answer to a command the guest never sends. The  *)
(* mailbox page is one the emulator maps.                                  *)
(***************************************************************************)
EXTENDS Naturals, Sequences

CONSTANTS Words,        \* the words the guest uploads, a sequence of four
          AllocSize,    \* words the guest allocates
          LocalMemory,  \* GK_LOCAL_MEMORY_BYTES, in words
          MaxFrames     \* frames the frontend runs before it gives up (90)

ASSUME MailboxAssumption ==
  /\ AllocSize \in Nat \ {0} /\ LocalMemory \in Nat /\ MaxFrames \in Nat
  /\ Words = <<Words[1], Words[2], Words[3], Words[4]>> /\ Len(Words) <= AllocSize

VARIABLES mb,      \* the mailbox page: a word for every field
          regs,    \* the guest's registers: seq (r8), alloc (r7), job (r6)
          step,    \* the request of Script the guest is at
          at,      \* stores of that request done so far
          summary, \* what the guest left in the summary area
          alloc,   \* g_alloc
          job,     \* g_job
          host,    \* g_last_seq, g_next_alloc_handle, g_next_job_handle, g_guest_done
          frame,   \* frames run
          stalls,  \* frames the guest did not end waiting for an answer
          served   \* requests the frontend has answered

guest == <<regs, step, at, summary>>
frontend == <<alloc, job, host>>
vars == <<mb, guest, frontend, frame, stalls, served>>

Request == 1     \* GK_STATE_REQUEST, STATE_REQ
Response == 2    \* GK_STATE_RESPONSE, STATE_RESP
Ok == 0
BadHandle == 2
NoMemory == 3
NotReady == 4

(* The four payload words, O_PAYLOAD + 0 to + 12. *)
Payload == <<"payload0", "payload4", "payload8", "payload12">>

(* struct gk_mailbox, its magic word as a flag, and the payload area. *)
Fields == {"magic", "seq", "command", "state", "result", "arg0", "arg1",
           "out0", "out1", "out2", "payload_len"}
            \cup {Payload[i] : i \in DOMAIN Payload}

NoAlloc == [handle |-> 0, size |-> 0, uploaded |-> 0, data |-> << >>]
NoJob == [handle |-> 0, checksum |-> << >>, polls_remaining |-> 0, ready |-> FALSE]

Init == /\ mb = [f \in Fields |-> 0]
        /\ regs = [seq |-> 0, alloc |-> 0, job |-> 0]
        /\ step = 1 /\ at = 0
        /\ summary = [status |-> "none", checksum |-> << >>]
        /\ alloc = NoAlloc /\ job = NoJob
        /\ host = [last_seq |-> 0, next_alloc |-> 1, next_job |-> 1, done |-> FALSE]
        /\ frame = 0 /\ stalls = 0 /\ served = 0

(* The main loop: frames run until the guest is done or 90 have passed. *)
Running == frame < MaxFrames /\ ~host.done

-----------------------------------------------------------------------------
(* The guest. *)

Script == <<"HELLO", "GET_CAPS", "ALLOC", "UPLOAD", "SUBMIT", "POLL",
            "COLLECT", "FREE", "COMPLETE">>

Command == Script[step]

(* arg0 and arg1 of the request the guest is at. *)
Arg0 == CASE Command = "ALLOC" -> AllocSize
          [] Command \in {"UPLOAD", "SUBMIT", "FREE"} -> regs.alloc
          [] Command \in {"POLL", "COLLECT"} -> regs.job
          [] OTHER -> 0
Arg1 == IF Command = "SUBMIT" THEN 1 ELSE 0

(* The stores that lead up to a request: the header before the first one,
   and before UPLOAD the payload and its length, which issue_keep_plen
   leaves as it is. *)
Preparation ==
  CASE Command = "HELLO" -> << <<"magic", 1>>, <<"payload_len", 0>> >>
    [] Command = "UPLOAD" -> [i \in 1 .. Len(Words) |-> <<Payload[i], Words[i]>>]
                               \o << <<"payload_len", Len(Words)>> >>
    [] OTHER -> << <<"payload_len", 0>> >>

(* A deviation: the request is announced before its arguments are stored. *)
AnnouncedEarly == << <<"command", Command>>, <<"result", Ok>>,
                     <<"seq", regs.seq + 1>>, <<"state", Request>>,
                     <<"arg0", Arg0>>, <<"arg1", Arg1>> >>

(* issue: the state word is stored after everything it announces. *)
Announcement == << <<"command", Command>>, <<"arg0", Arg0>>, <<"arg1", Arg1>>,
                   <<"result", Ok>>, <<"seq", regs.seq + 1>>, <<"state", Request>> >>

Issue == Preparation \o Announcement

Waiting == at = Len(Issue)

(* The next store of the request the guest is at. *)
Store == /\ Running /\ summary.status # "FAIL" /\ ~Waiting
         /\ mb' = [mb EXCEPT ![Issue[at + 1][1]] = Issue[at + 1][2]]
         /\ at' = at + 1
         /\ UNCHANGED <<regs, step, summary, frontend, frame, stalls, served>>

(* A deviation: the guest takes the state word it finds for an answer as
   soon as it is not zero. *)
AnsweredAtOnce == mb["state"] # 0

(* wait_response *)
Answered == mb["state"] = Response

(* The request was answered without an error: the guest takes down what it
   needs and goes on.  FREE is followed by the PASS mark, and a POLL that
   found the job unfinished by another POLL. *)
Proceed ==
  /\ Running /\ summary.status # "FAIL" /\ Waiting /\ Answered
  /\ mb["result"] = Ok
  /\ step < Len(Script)
  /\ regs' = [seq   |-> regs.seq + 1,
              alloc |-> IF Command = "ALLOC" THEN mb["out0"] ELSE regs.alloc,
              job   |-> IF Command = "SUBMIT" THEN mb["out0"] ELSE regs.job]
  /\ summary' = [status   |-> IF Command = "FREE" THEN "PASS" ELSE summary.status,
                 checksum |-> IF Command = "COLLECT" THEN mb["out2"] ELSE summary.checksum]
  /\ step' = IF Command = "POLL" /\ mb["out0"] = 0 THEN step ELSE step + 1
  /\ at' = 0
  /\ mb' = IF Command = "UPLOAD" THEN [mb EXCEPT !["payload_len"] = 0] ELSE mb
  /\ UNCHANGED <<frontend, frame, stalls, served>>

(* failed *)
Fail == /\ Running /\ summary.status # "FAIL" /\ Waiting /\ Answered
        /\ mb["result"] # Ok
        /\ summary' = [summary EXCEPT !.status = "FAIL"]
        /\ UNCHANGED <<mb, regs, step, at, frontend, frame, stalls, served>>

Guest == Store \/ Proceed \/ Fail

-----------------------------------------------------------------------------
(* The frontend. *)

(* A deviation: the state word is not looked at. *)
PendingBySeq == mb["magic"] = 1 /\ mb["seq"] # host.last_seq

(* The request service_gekkopak takes: it is marked and was not seen yet. *)
Pending == /\ mb["magic"] = 1
           /\ mb["state"] = Request
           /\ mb["seq"] # host.last_seq

(* The end of service_gekkopak: the answer, with every output not given set
   to zero, and the RESPONSE mark. *)
Reply(result, out0, out2) ==
  /\ mb' = [mb EXCEPT !["result"] = result, !["out0"] = out0, !["out1"] = 0,
                      !["out2"] = out2, !["state"] = Response]
  /\ served' = served + 1

Refuse(result) == Reply(result, 0, 0) /\ UNCHANGED <<alloc, job>>

Seen == [host EXCEPT !.last_seq = mb["seq"]]

Hello == /\ mb["command"] \in {"HELLO", "GET_CAPS"}
         /\ Reply(Ok, 1, 0)
         /\ host' = Seen
         /\ UNCHANGED <<alloc, job>>

MayAllocate == mb["arg0"] # 0 /\ mb["arg0"] <= LocalMemory /\ alloc = NoAlloc

(* ALLOC: one allocation at a time; calloc may fail. *)
Alloc == /\ mb["command"] = "ALLOC"
         /\ \/ /\ MayAllocate
               /\ alloc' = [handle |-> host.next_alloc, size |-> mb["arg0"], uploaded |-> 0,
                            data |-> [i \in 1 .. mb["arg0"] |-> "zero"]]
               /\ host' = [Seen EXCEPT !.next_alloc = @ + 1]
               /\ Reply(Ok, host.next_alloc, 0)
               /\ UNCHANGED job
            \/ Refuse(NoMemory) /\ host' = Seen

Owns == alloc # NoAlloc /\ mb["arg0"] = alloc.handle

(* UPLOAD copies the payload to the offset in arg1 and raises the mark. *)
Upload ==
  /\ mb["command"] = "UPLOAD"
  /\ host' = Seen
  /\ LET from == mb["arg1"]
         to == from + mb["payload_len"]
     IN IF Owns /\ to <= alloc.size
        THEN /\ alloc' = [alloc EXCEPT
                  !.data = [i \in 1 .. alloc.size |->
                              IF i > from /\ i <= to THEN mb[Payload[i - from]] ELSE @[i]],
                  !.uploaded = IF to > @ THEN to ELSE @]
             /\ Reply(Ok, mb["payload_len"], 0)
             /\ UNCHANGED job
        ELSE Refuse(BadHandle)

Checksum == SubSeq(alloc.data, 1, alloc.uploaded)

(* SUBMIT: one job in the frontend's life, for g_job is never cleared. *)
Submit ==
  /\ mb["command"] = "SUBMIT"
  /\ IF Owns /\ job.handle = 0
     THEN /\ job' = [handle |-> host.next_job, checksum |-> Checksum,
                     polls_remaining |-> 2, ready |-> FALSE]
          /\ host' = [Seen EXCEPT !.next_job = @ + 1]
          /\ Reply(Ok, host.next_job, 0)
          /\ UNCHANGED alloc
     ELSE Refuse(BadHandle) /\ host' = Seen

IsJob == job.handle # 0 /\ mb["arg0"] = job.handle

(* What a POLL leaves of the job. *)
Polled ==
  IF job.ready THEN job
  ELSE [job EXCEPT !.polls_remaining = IF @ > 0 THEN @ - 1 ELSE 0,
                   !.ready = job.polls_remaining <= 1]

Poll == /\ mb["command"] = "POLL"
        /\ host' = Seen
        /\ IF IsJob
           THEN /\ job' = Polled
                /\ Reply(Ok, IF Polled.ready THEN 1 ELSE 0, 0)
                /\ UNCHANGED alloc
           ELSE Refuse(BadHandle)

Collect == /\ mb["command"] = "COLLECT"
           /\ host' = Seen
           /\ IF IsJob /\ job.ready THEN Reply(Ok, 0, job.checksum) /\ UNCHANGED <<alloc, job>>
              ELSE Refuse(IF IsJob THEN NotReady ELSE BadHandle)

(* A deviation: the allocation is not cleared when it is freed. *)
FreeKeeps == /\ mb["command"] = "FREE"
             /\ host' = Seen
             /\ IF Owns THEN Reply(Ok, 0, 0) /\ UNCHANGED <<alloc, job>>
                ELSE Refuse(BadHandle)

Free == /\ mb["command"] = "FREE"
        /\ host' = Seen
        /\ IF Owns THEN alloc' = NoAlloc /\ Reply(Ok, 0, 0) /\ UNCHANGED job
           ELSE Refuse(BadHandle)

Complete == /\ mb["command"] = "COMPLETE"
            /\ host' = [Seen EXCEPT !.done = TRUE]
            /\ Reply(Ok, 1, 0)
            /\ UNCHANGED <<alloc, job>>

Service == Hello \/ Alloc \/ Upload \/ Submit \/ Poll \/ Collect \/ Free \/ Complete

(* The end of a frame: the guest stops where it is, and the frontend serves
   the request it finds, if any. *)
Frame == /\ Running
         /\ frame' = frame + 1
         /\ stalls' = IF Waiting /\ ~Answered THEN stalls ELSE stalls + 1
         /\ UNCHANGED guest
         /\ \/ Pending /\ Service
            \/ ~Pending /\ UNCHANGED <<mb, frontend, served>>

Next == Guest \/ Frame

Spec == Init /\ [][Next]_vars

-----------------------------------------------------------------------------
(* Properties. *)

(* What the frontend serves is the command, the arguments and the payload
   the guest meant, in one piece. *)
ServesWhole ==
  served' # served =>
    /\ mb["command"] = Command /\ mb["arg0"] = Arg0 /\ mb["arg1"] = Arg1
    /\ Command = "UPLOAD" =>
         /\ mb["payload_len"] = Len(Words)
         /\ \A i \in 1 .. Len(Words) : mb[Payload[i]] = Words[i]

(* A frame that ends in the middle of the guest's stores never makes the
   frontend act on half a request (service_gekkopak's conditions against
   the order of stores in issue). *)
ServedWhole == [][ServesWhole]_vars

TakesOwnAnswer ==
  Waiting /\ (step' # step \/ at' # at \/ summary' # summary)
    => served = regs.seq + 1 /\ host.last_seq = regs.seq + 1

(* The guest leaves wait_response only on the answer to the request it just
   issued, never on the RESPONSE mark an earlier one left in the mailbox. *)
AnswerIsOwn == [][TakesOwnAnswer]_vars

(* A session the frontend reports as complete left nothing allocated, passed,
   and the checksum in its summary is over the very words the guest stored
   (COMPLETE in service_gekkopak, PASS_MAGIC in the guest). *)
CompleteIsTrue ==
  host.done => alloc = NoAlloc /\ summary.status = "PASS" /\ summary.checksum = Words

(* The main loop's limit suffices: the session needs one frame for each of
   its ten requests, so a frontend that gives up was stalled in all the
   others, or the guest had failed. *)
FramesSuffice ==
  frame = MaxFrames /\ ~host.done /\ summary.status # "FAIL" => stalls > MaxFrames - 10
=============================================================================
