-------------------------------- MODULE Chat --------------------------------
(***************************************************************************)
(* The chat service (src/src/chat/app) between its two callers, the chat   *)
(* box of the browser (ChatBox.js, chatapi.js) and the monkey's chat       *)
(* thread, and the model gateway (external).                               *)
(*                                                                         *)
(* The service is one event loop.  A stream is an async generator that     *)
(* makes synchronous calls: it holds the loop from one yield to the next,  *)
(* however long the gateway takes, and all others wait.  Teams and clients *)
(* are made at the first request that needs them and kept until the        *)
(* process ends.  Every answer is a 200; errors are lines of its body.     *)
(***************************************************************************)
EXTENDS Naturals

CONSTANTS
  Box,          (* the caller "admin": the box sends no customer_id         *)
  Customers,    (* customers the monkey's thread asks for                   *)
  RegionOf,     (* each caller's region; "admin" for the box                *)
  Tokens,       (* chunks of a complete answer                              *)
  MaxRequests,  (* bound: requests                                          *)
  MaxFaults     (* bound: refusals and broken calls of the gateway, crashes *)

Callers == {Box} \cup Customers
Regions == {RegionOf[c] : c \in Callers}
Ids     == 1 .. MaxRequests

ASSUME ChatAssumption ==
  Box \notin Customers /\ Tokens \in Nat /\ MaxRequests \in Nat \ {0} /\ MaxFaults \in Nat

VARIABLES
  teams,    (* regions the process has made a team for, it believes         *)
  clients,  (* callers the process holds a client for                       *)
  gteams,   (* teams the gateway has                                        *)
  loop,     (* the request that holds the event loop, 0 none                *)
  req,      (* each request, at the service and at its caller               *)
  box,      (* the chat box on the page: the request it awaits, if loading  *)
  faults,   (* faults so far                                                *)
  refused   (* history: regions whose team this process was refused         *)

vars == <<teams, clients, gteams, loop, req, box, faults, refused>>

Ended == {"done", "gone", "cut"}

(* at: where the service is with it; sent, failed: the lines it yielded;   *)
(* heard: the caller has not hung up; read: lines the box has parsed;      *)
(* since: the faults so far when it was asked.                             *)
Unused == [who |-> Box, at |-> "free", sent |-> 0, failed |-> FALSE, heard |-> TRUE,
           read |-> 0, since |-> 0]

Region(i)    == RegionOf[req[i].who]
Lines(i)     == req[i].sent + (IF req[i].failed THEN 1 ELSE 0)
                            + (IF req[i].at = "done" THEN 1 ELSE 0)
Fault        == faults < MaxFaults /\ faults' = faults + 1
Goto(i, at)  == req' = [req EXCEPT ![i].at = at]
service      == <<teams, clients, gteams, loop, refused>>

Init ==
  /\ teams = {} /\ clients = {} /\ gteams = {} /\ refused = {}
  /\ loop = 0
  /\ req = [i \in Ids |-> Unused]
  /\ box = [loading |-> FALSE, of |-> 0]
  /\ faults = 0

-----------------------------------------------------------------------------
(* The callers.                                                            *)

Ask(i, c) ==
  /\ req[i].at = "free" /\ \A j \in 1 .. i - 1 : req[j].at # "free"
  /\ req' = [req EXCEPT ![i] = [Unused EXCEPT !.who = c, !.at = "asked", !.since = faults]]

(* The monkey's thread has one request at a time, and goes on after it.    *)
generate_chat_request(i, c) ==
  /\ c \in Customers
  /\ \A j \in Ids : req[j].who \in Customers =>
       req[j].at \in Ended \cup {"free"} \/ ~req[j].heard
  /\ Ask(i, c)
  /\ UNCHANGED <<service, box, faults>>

(* Its timeout of thirty seconds without a byte. *)
TimeOut(i) ==
  /\ req[i].who \in Customers /\ req[i].heard /\ req[i].at \notin Ended \cup {"free"}
  /\ req' = [req EXCEPT ![i].heard = FALSE]
  /\ UNCHANGED <<service, box, faults>>

handleSubmit(i) ==
  /\ ~box.loading
  /\ Ask(i, Box)
  /\ box' = [loading |-> TRUE, of |-> i]
  /\ UNCHANGED <<service, faults>>

(* Stop, and Clear while an answer is awaited, abort the stream. *)
handleStop ==
  /\ box.loading
  /\ req' = [req EXCEPT ![box.of].heard = FALSE]
  /\ box' = [box EXCEPT !.loading = FALSE]
  /\ UNCHANGED <<service, faults>>

(* The user leaves /chat and comes back: the route mounts a new box, free. *)
(* Nobody aborts the old one's request: it is read on, for the old box.    *)
Reopen ==
  /\ box.loading
  /\ box' = [loading |-> FALSE, of |-> 0]
  /\ UNCHANGED <<service, req, faults>>

(* handleSubmit hands streamChat the history, the model and the callbacks; *)
(* streamChat(messages, callbacks) takes the second for its callbacks, the *)
(* name of a model, and every call of one of them throws.                  *)
Handed == <<"messages", "model", "callbacks">>
Call(b) == IF Handed[2] = "callbacks" THEN b ELSE box

(* What onDone and onError of request i would do to the box on the page.   *)
Freed(i) == IF box.of = i THEN [box EXCEPT !.loading = FALSE] ELSE box

(* streamChat parses the next line.  What onToken and onError throw is     *)
(* taken for a malformed line and ignored; what onDone throws leaves the   *)
(* loop and, thrown again by onError, the whole function.                  *)
Read(i) ==
  /\ req[i].who = Box /\ req[i].heard /\ req[i].read < Lines(i)
  /\ req' = [req EXCEPT ![i].read = @ + 1]
  /\ box' = IF req[i].read < req[i].sent THEN Call(box) ELSE Call(Freed(i))
  /\ UNCHANGED <<service, faults>>

(* The connection broke before the last line. *)
ReadFails(i) ==
  /\ req[i].who = Box /\ req[i].heard /\ req[i].at = "cut" /\ req[i].read = Lines(i)
  /\ req' = [req EXCEPT ![i].read = @ + 1]
  /\ box' = Call(Freed(i))
  /\ UNCHANGED <<service, faults>>

-----------------------------------------------------------------------------
(* The service.                                                            *)

(* get_client: which call it has to make first. *)
AfterTeam(i) == IF req[i].who \in clients THEN "create" ELSE "key"

chat(i) ==
  /\ req[i].at = "asked" /\ loop = 0
  /\ loop' = i
  /\ Goto(i, IF Region(i) \in teams THEN AfterTeam(i) ELSE "team")
  /\ UNCHANGED <<teams, clients, gteams, box, faults, refused>>

(* make_team does not look at the status: a team that exists already is    *)
(* refused and well, and one that was refused for any other reason counts  *)
(* as made all the same.                                                   *)
make_team(i) ==
  /\ req[i].at = "team"
  /\ teams' = teams \cup {Region(i)}
  /\ gteams' = gteams \cup {Region(i)}
  /\ Goto(i, AfterTeam(i))
  /\ UNCHANGED <<clients, loop, box, faults, refused>>

MakeTeamRefused(i) ==
  /\ req[i].at = "team" /\ Region(i) \notin gteams /\ Fault
  /\ teams' = teams \cup {Region(i)}
  /\ refused' = refused \cup {Region(i)}
  /\ Goto(i, AfterTeam(i))
  /\ UNCHANGED <<clients, gteams, loop, box>>

MutMakeTeamBreaks(i) ==
  /\ req[i].at = "team" /\ Fault
  /\ teams' = teams \cup {Region(i)}
  /\ \E g \in {gteams, gteams \cup {Region(i)}} : gteams' = g
  /\ Goto(i, "error")
  /\ UNCHANGED <<clients, loop, box, refused>>

(* The connection breaks, before or after the gateway has made the team.   *)
MakeTeamBreaks(i) ==
  /\ req[i].at = "team" /\ Fault
  /\ \E g \in {gteams, gteams \cup {Region(i)}} : gteams' = g
  /\ Goto(i, "error")
  /\ UNCHANGED <<teams, clients, loop, box, refused>>

(* make_client: the gateway makes no key for a team it does not have.      *)
make_client(i) ==
  /\ req[i].at = "key"
  /\ IF Region(i) \in gteams
     THEN clients' = clients \cup {req[i].who} /\ Goto(i, "create")
     ELSE clients' = clients /\ Goto(i, "error")
  /\ UNCHANGED <<teams, gteams, loop, box, faults, refused>>

(* The key or the completion is refused, or its connection breaks. *)
CallFails(i) ==
  /\ req[i].at \in {"key", "create", "stream"} /\ loop = i /\ Fault
  /\ Goto(i, "error")
  /\ UNCHANGED <<service, box>>

Create(i) ==
  /\ req[i].at = "create"
  /\ Goto(i, "stream")
  /\ UNCHANGED <<service, box, faults>>

(* The generator is resumed, holds the loop until the gateway's next chunk *)
(* and gives it up when it yields.                                         *)
Resume(i) ==
  /\ req[i].at = "stream" /\ loop = 0
  /\ loop' = i
  /\ UNCHANGED <<teams, clients, gteams, req, box, faults, refused>>

Chunk(i) ==
  /\ req[i].at = "stream" /\ loop = i /\ req[i].sent < Tokens
  /\ req' = [req EXCEPT ![i].sent = @ + 1]
  /\ loop' = 0
  /\ UNCHANGED <<teams, clients, gteams, box, faults, refused>>

Error(i) ==
  /\ req[i].at = "error"
  /\ req' = [req EXCEPT ![i].at = "failed", ![i].failed = TRUE]
  /\ loop' = 0
  /\ UNCHANGED <<teams, clients, gteams, box, faults, refused>>

MutDoneKeepsLoop(i) ==
  /\ \/ req[i].at = "stream" /\ loop = i /\ req[i].sent = Tokens /\ loop' = loop
     \/ req[i].at = "failed" /\ loop = 0 /\ loop' = loop
  /\ Goto(i, "done")
  /\ UNCHANGED <<teams, clients, gteams, box, faults, refused>>

(* The last line, after the last chunk or after the error. *)
Done(i) ==
  /\ \/ req[i].at = "stream" /\ loop = i /\ req[i].sent = Tokens
     \/ req[i].at = "failed" /\ loop = 0
  /\ Goto(i, "done")
  /\ loop' = 0
  /\ UNCHANGED <<teams, clients, gteams, box, faults, refused>>

(* The server notices between two turns that the caller is gone.           *)
Cancel(i) ==
  /\ ~req[i].heard /\ req[i].at \in {"asked", "stream", "failed"} /\ loop = 0
  /\ Goto(i, "gone")
  /\ UNCHANGED <<service, box, faults>>

(* The process is lost with all it had in memory; another one starts.      *)
Crash ==
  /\ Fault
  /\ teams' = {} /\ clients' = {} /\ refused' = {} /\ loop' = 0
  /\ req' = [i \in Ids |-> IF req[i].at \in Ended \cup {"free"} THEN req[i]
                           ELSE [req[i] EXCEPT !.at = "cut"]]
  /\ UNCHANGED <<gteams, box>>

-----------------------------------------------------------------------------
Serve(i) ==
  \/ chat(i) \/ make_team(i) \/ make_client(i) \/ Create(i) \/ Resume(i) \/ Chunk(i)
  \/ Error(i) \/ Done(i)

Fails(i) == MakeTeamRefused(i) \/ MakeTeamBreaks(i) \/ CallFails(i)

Next ==
  \/ \E i \in Ids : \/ Serve(i) \/ Fails(i) \/ Cancel(i) \/ TimeOut(i)
                    \/ handleSubmit(i) \/ Read(i) \/ ReadFails(i)
                    \/ \E c \in Customers : generate_chat_request(i, c)
  \/ handleStop \/ Reopen \/ Crash

(* The event loop resumes what is ready and the gateway answers; nobody    *)
(* needs to ask, to stop or to read.                                       *)
Fairness == \A i \in Ids : WF_vars(Serve(i))

Spec == Init /\ [][Next]_vars /\ Fairness

-----------------------------------------------------------------------------
(* A request fails only if something failed while it was there, or if the  *)
(* team of its region was refused to this process before: make_team does   *)
(* not raise, the region counts as made, and every new customer of it gets *)
(* an error until the process restarts.  No other request's fault, no cut  *)
(* stream and no broken call is remembered against a later one.            *)
ErrorHasACause ==
  \A i \in Ids : req[i].at = "error" => faults > req[i].since \/ Region(i) \in refused

(* Every request comes to an end, while other streams take the loop in     *)
(* turns, are cut off or fail.                                             *)
EveryRequestEnds == \A i \in Ids : req[i].at = "asked" ~> req[i].at \in Ended

(* The box has been read the last line of its answer, or the end of a      *)
(* connection that broke.                                                  *)
ReadOut(i) ==
  \/ req[i].at = "done" /\ req[i].read = Lines(i)
  \/ req[i].at = "cut" /\ req[i].read > Lines(i)

(* onDone after the last line and onError after an error or a broken       *)
(* connection set loading to false (ChatBox.js:69-84, the callbacks of     *)
(* chatapi.js:13-17): a box on the page is not busy with an answer that    *)
(* has been read to its end.                                               *)
ReadOutFreesBox == box.loading => ~ReadOut(box.of)
=============================================================================
