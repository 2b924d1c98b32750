----------------------------- MODULE ChatProofs -----------------------------
(***************************************************************************)
(* Proofs about Chat, for any callers and regions, any length of an answer *)
(* and any number of requests and faults.                                  *)
(***************************************************************************)
EXTENDS Chat, TLAPS

Stages ==
  {"free", "asked", "team", "key", "create", "stream", "error", "failed"} \cup Ended

(* Where the service may be with a request, and what is known of it.       *)
Request == [who : Callers, at : Stages, sent : Nat, failed : BOOLEAN, heard : BOOLEAN,
            read : Nat, since : Nat]

TypeOK ==
  /\ req \in [Ids -> Request]
  /\ box \in [loading : BOOLEAN, of : 0 .. MaxRequests]
  /\ faults \in Nat

(* A region counts as made if the gateway has its team or refused it, and  *)
(* no request is at the key before its region does.                        *)
TeamsAccounted ==
  /\ teams \subseteq gteams \cup refused
  /\ \A i \in Ids : req[i].at = "key" => Region(i) \in gteams \cup refused

(* No request was asked after later faults than there were. *)
AskedBefore == \A i \in Ids : req[i].since <= faults

(* A loading box awaits a request of its own that it has not left.         *)
BoxAwaits ==
  box.loading => /\ box.of \in Ids
                 /\ req[box.of].who = Box /\ req[box.of].heard /\ req[box.of].at # "free"

IInv == TypeOK /\ TeamsAccounted /\ AskedBefore /\ BoxAwaits /\ ErrorHasACause

-----------------------------------------------------------------------------
(* The invariant holds at the start.                                       *)
LEMMA InitInv == Init => IInv
  BY ChatAssumption, SMTT(30)
  DEF Init, IInv, TypeOK, Request, Stages, Ended, TeamsAccounted, AskedBefore, BoxAwaits,
      ErrorHasACause, Unused, Callers, Ids

(* What the steps of Next do, for request i where they concern one.        *)
Step(i) ==
  \/ \E c \in Customers : generate_chat_request(i, c)
  \/ TimeOut(i)
  \/ handleSubmit(i)
  \/ Read(i)
  \/ ReadFails(i)
  \/ chat(i)
  \/ make_team(i)
  \/ MakeTeamRefused(i)
  \/ MakeTeamBreaks(i)
  \/ make_client(i)
  \/ CallFails(i)
  \/ Create(i)
  \/ Resume(i)
  \/ Chunk(i)
  \/ Error(i)
  \/ Done(i)
  \/ Cancel(i)
  \/ handleStop
  \/ Reopen
  \/ Crash
  \/ UNCHANGED vars

(* Every step is one of the disjuncts of Step, seen from some request.     *)
LEMMA NextSteps ==
  ASSUME [Next]_vars
  PROVE  \E i \in Ids : Step(i)
<1>1. Ids # {}
  BY ChatAssumption DEF Ids
<1> QED BY <1>1 DEF Next, Serve, Fails, Step

(* Every step keeps the types.                                            *)
LEMMA TypeStep ==
  ASSUME TypeOK, BoxAwaits, NEW i \in Ids, Step(i)
  PROVE  TypeOK'
<1> USE ChatAssumption DEF TypeOK, Request, Stages, Ended, Callers, Goto, service
<1>1. CASE \E c \in Customers : generate_chat_request(i, c)
  <2> PICK c \in Customers : generate_chat_request(i, c)
    BY <1>1
  <2>1. [Unused EXCEPT !.who = c, !.at = "asked", !.since = faults] \in Request
    BY DEF Unused, Request
  <2>2. req' \in [Ids -> Request]
    BY <2>1 DEF generate_chat_request, Ask
  <2> QED BY <2>2 DEF generate_chat_request, Request
<1>2. CASE TimeOut(i)
  BY <1>2, ZenonT(60) DEF TimeOut
<1>3. CASE handleSubmit(i)
  <2>1. box' \in [loading : BOOLEAN, of : 0 .. MaxRequests] /\ faults' \in Nat
    BY <1>3 DEF handleSubmit, Ids
  <2>2. [Unused EXCEPT !.who = Box, !.at = "asked", !.since = faults] \in Request
    BY DEF Unused, Request
  <2>3. req' \in [Ids -> Request]
    BY <1>3, <2>2 DEF handleSubmit, Ask
  <2> QED BY <2>1, <2>3 DEF Request
<1>4. CASE Read(i)
  BY <1>4 DEF Read, Call, Handed
<1>5. CASE ReadFails(i)
  BY <1>5 DEF ReadFails, Call, Handed
<1>6. CASE chat(i)
  BY <1>6 DEF chat, AfterTeam
<1>7. CASE make_team(i)
  BY <1>7 DEF make_team, AfterTeam
<1>8. CASE MakeTeamRefused(i)
  BY <1>8 DEF MakeTeamRefused, AfterTeam, Fault
<1>9. CASE MakeTeamBreaks(i)
  BY <1>9 DEF MakeTeamBreaks, Fault
<1>10. CASE make_client(i)
  BY <1>10 DEF make_client
<1>11. CASE CallFails(i)
  BY <1>11 DEF CallFails, Fault
<1>12. CASE Create(i)
  BY <1>12 DEF Create
<1>13. CASE Resume(i)
  BY <1>13 DEF Resume
<1>14. CASE Chunk(i)
  BY <1>14 DEF Chunk
<1>15. CASE Error(i)
  <2>1. [req[i] EXCEPT !.at = "failed", !.failed = TRUE] \in Request
    BY DEF Request
  <2>2. req' = [req EXCEPT ![i] = [req[i] EXCEPT !.at = "failed", !.failed = TRUE]]
    BY <1>15 DEF Error
  <2> QED BY <1>15, <2>1, <2>2 DEF Error, Request
<1>16. CASE Done(i)
  BY <1>16 DEF Done
<1>17. CASE Cancel(i)
  BY <1>17 DEF Cancel
<1>18. CASE handleStop
  <2>1. [req[box.of] EXCEPT !.heard = FALSE] \in Request
    BY <1>18, ZenonT(60) DEF handleStop, BoxAwaits, Request
  <2>2. req' = [req EXCEPT ![box.of] = [req[box.of] EXCEPT !.heard = FALSE]]
    BY <1>18 DEF handleStop
  <2>3. req' \in [Ids -> Request]
    BY <2>1, <2>2 DEF Request
  <2>4. box' \in [loading : BOOLEAN, of : 0 .. MaxRequests] /\ faults' \in Nat
    BY <1>18 DEF handleStop
  <2> QED BY <2>3, <2>4 DEF Request
<1>19. CASE Reopen
  BY <1>19, SMTT(30) DEF Reopen
<1>20. CASE Crash
  BY <1>20 DEF Crash, Fault
<1>21. CASE UNCHANGED vars
  BY <1>21 DEF vars
<1> QED
  BY <1>1, <1>2, <1>3, <1>4, <1>5, <1>6, <1>7, <1>8, <1>9, <1>10, <1>11, <1>12,
     <1>13, <1>14, <1>15, <1>16, <1>17, <1>18, <1>19, <1>20, <1>21 DEF Step

(* A team that counts as made is at the gateway or was refused.            *)
LEMMA TeamsStep ==
  ASSUME TypeOK, TeamsAccounted, NEW i \in Ids, Step(i)
  PROVE  TeamsAccounted'
<1> USE ChatAssumption DEF TypeOK, Request, TeamsAccounted, Region, Goto, service
<1>1. CASE \E c \in Customers : generate_chat_request(i, c)
  BY <1>1, SMTT(30) DEF generate_chat_request, Ask, Unused
<1>2. CASE TimeOut(i)
  BY <1>2, SMTT(30) DEF TimeOut
<1>3. CASE handleSubmit(i)
  BY <1>3, SMTT(30) DEF handleSubmit, Ask, Unused, Ids
<1>4. CASE Read(i)
  BY <1>4, SMTT(30) DEF Read, Call, Handed
<1>5. CASE ReadFails(i)
  BY <1>5, SMTT(30) DEF ReadFails, Call, Handed
<1>6. CASE chat(i)
  BY <1>6, SMTT(30) DEF chat, AfterTeam
<1>7. CASE make_team(i)
  BY <1>7, SMTT(30) DEF make_team, AfterTeam
<1>8. CASE MakeTeamRefused(i)
  BY <1>8, SMTT(30) DEF MakeTeamRefused, AfterTeam, Fault
<1>9. CASE MakeTeamBreaks(i)
  BY <1>9, SMTT(30) DEF MakeTeamBreaks, Fault
<1>10. CASE make_client(i)
  BY <1>10, SMTT(30) DEF make_client
<1>11. CASE CallFails(i)
  BY <1>11, SMTT(30) DEF CallFails, Fault
<1>12. CASE Create(i)
  BY <1>12, SMTT(30) DEF Create
<1>13. CASE Resume(i)
  BY <1>13, SMTT(30) DEF Resume
<1>14. CASE Chunk(i)
  BY <1>14, SMTT(30) DEF Chunk
<1>15. CASE Error(i)
  BY <1>15, SMTT(30) DEF Error
<1>16. CASE Done(i)
  BY <1>16, SMTT(30) DEF Done
<1>17. CASE Cancel(i)
  BY <1>17, SMTT(30) DEF Cancel
<1>18. CASE handleStop
  BY <1>18, SMTT(30) DEF handleStop
<1>19. CASE Reopen
  BY <1>19, SMTT(30) DEF Reopen
<1>20. CASE Crash
  BY <1>20, SMTT(30) DEF Crash, Fault, Ended
<1>21. CASE UNCHANGED vars
  BY <1>21, SMTT(30) DEF vars
<1> QED
  BY <1>1, <1>2, <1>3, <1>4, <1>5, <1>6, <1>7, <1>8, <1>9, <1>10, <1>11, <1>12,
     <1>13, <1>14, <1>15, <1>16, <1>17, <1>18, <1>19, <1>20, <1>21 DEF Step

(* Faults only grow.                                                      *)
LEMMA AskedStep ==
  ASSUME TypeOK, AskedBefore, NEW i \in Ids, Step(i)
  PROVE  AskedBefore'
<1> USE ChatAssumption DEF TypeOK, Request, AskedBefore, Goto, service
<1>1. CASE \E c \in Customers : generate_chat_request(i, c)
  BY <1>1, SMTT(30) DEF generate_chat_request, Ask, Unused
<1>2. CASE TimeOut(i)
  BY <1>2, SMTT(30) DEF TimeOut
<1>3. CASE handleSubmit(i)
  BY <1>3, SMTT(30) DEF handleSubmit, Ask, Unused, Ids
<1>4. CASE Read(i)
  BY <1>4, SMTT(30) DEF Read, Call, Handed
<1>5. CASE ReadFails(i)
  BY <1>5, SMTT(30) DEF ReadFails, Call, Handed
<1>6. CASE chat(i)
  BY <1>6, SMTT(30) DEF chat, AfterTeam
<1>7. CASE make_team(i)
  BY <1>7, SMTT(30) DEF make_team, AfterTeam
<1>8. CASE MakeTeamRefused(i)
  BY <1>8, SMTT(30) DEF MakeTeamRefused, AfterTeam, Fault
<1>9. CASE MakeTeamBreaks(i)
  BY <1>9, SMTT(30) DEF MakeTeamBreaks, Fault
<1>10. CASE make_client(i)
  BY <1>10, SMTT(30) DEF make_client
<1>11. CASE CallFails(i)
  BY <1>11, SMTT(30) DEF CallFails, Fault
<1>12. CASE Create(i)
  BY <1>12, SMTT(30) DEF Create
<1>13. CASE Resume(i)
  BY <1>13, SMTT(30) DEF Resume
<1>14. CASE Chunk(i)
  BY <1>14, SMTT(30) DEF Chunk
<1>15. CASE Error(i)
  BY <1>15, SMTT(30) DEF Error
<1>16. CASE Done(i)
  BY <1>16, SMTT(30) DEF Done
<1>17. CASE Cancel(i)
  BY <1>17, SMTT(30) DEF Cancel
<1>18. CASE handleStop
  BY <1>18, SMTT(30) DEF handleStop
<1>19. CASE Reopen
  BY <1>19, SMTT(30) DEF Reopen
<1>20. CASE Crash
  BY <1>20, SMTT(30) DEF Crash, Fault
<1>21. CASE UNCHANGED vars
  BY <1>21, SMTT(30) DEF vars
<1> QED
  BY <1>1, <1>2, <1>3, <1>4, <1>5, <1>6, <1>7, <1>8, <1>9, <1>10, <1>11, <1>12,
     <1>13, <1>14, <1>15, <1>16, <1>17, <1>18, <1>19, <1>20, <1>21 DEF Step

(* The box stops loading when its user hangs up or leaves the page.        *)
LEMMA BoxStep ==
  ASSUME TypeOK, BoxAwaits, NEW i \in Ids, Step(i)
  PROVE  BoxAwaits'
<1> USE ChatAssumption DEF TypeOK, Request, BoxAwaits, Goto, service
<1>1. CASE \E c \in Customers : generate_chat_request(i, c)
  BY <1>1, SMTT(30) DEF generate_chat_request, Ask, Unused
<1>2. CASE TimeOut(i)
  BY <1>2, SMTT(30) DEF TimeOut, Ended
<1>3. CASE handleSubmit(i)
  BY <1>3, SMTT(30) DEF handleSubmit, Ask, Unused, Ids
<1>4. CASE Read(i)
  BY <1>4, SMTT(30) DEF Read, Call, Handed
<1>5. CASE ReadFails(i)
  BY <1>5, SMTT(30) DEF ReadFails, Call, Handed
<1>6. CASE chat(i)
  BY <1>6, SMTT(30) DEF chat, AfterTeam
<1>7. CASE make_team(i)
  BY <1>7, SMTT(30) DEF make_team, AfterTeam
<1>8. CASE MakeTeamRefused(i)
  BY <1>8, SMTT(30) DEF MakeTeamRefused, AfterTeam, Fault
<1>9. CASE MakeTeamBreaks(i)
  BY <1>9, SMTT(30) DEF MakeTeamBreaks, Fault
<1>10. CASE make_client(i)
  BY <1>10, SMTT(30) DEF make_client
<1>11. CASE CallFails(i)
  BY <1>11, SMTT(30) DEF CallFails, Fault
<1>12. CASE Create(i)
  BY <1>12, SMTT(30) DEF Create
<1>13. CASE Resume(i)
  BY <1>13, SMTT(30) DEF Resume
<1>14. CASE Chunk(i)
  BY <1>14, SMTT(30) DEF Chunk
<1>15. CASE Error(i)
  BY <1>15, SMTT(30) DEF Error
<1>16. CASE Done(i)
  BY <1>16, SMTT(30) DEF Done
<1>17. CASE Cancel(i)
  BY <1>17, SMTT(30) DEF Cancel
<1>18. CASE handleStop
  BY <1>18, SMTT(30) DEF handleStop
<1>19. CASE Reopen
  BY <1>19, SMTT(30) DEF Reopen
<1>20. CASE Crash
  BY <1>20, SMTT(30) DEF Crash, Fault, Ended
<1>21. CASE UNCHANGED vars
  BY <1>21, SMTT(30) DEF vars
<1> QED
  BY <1>1, <1>2, <1>3, <1>4, <1>5, <1>6, <1>7, <1>8, <1>9, <1>10, <1>11, <1>12,
     <1>13, <1>14, <1>15, <1>16, <1>17, <1>18, <1>19, <1>20, <1>21 DEF Step

(* What leads to an error raises the fault count or finds a team missing   *)
(* that was refused.                                                       *)
LEMMA CauseStep ==
  ASSUME IInv, NEW i \in Ids, Step(i)
  PROVE  ErrorHasACause'
<1> USE ChatAssumption
    DEF IInv, TypeOK, Request, TeamsAccounted, AskedBefore, ErrorHasACause, Region, Goto,
        service
<1>1. CASE \E c \in Customers : generate_chat_request(i, c)
  BY <1>1, SMTT(30) DEF generate_chat_request, Ask, Unused
<1>2. CASE TimeOut(i)
  BY <1>2, SMTT(30) DEF TimeOut
<1>3. CASE handleSubmit(i)
  BY <1>3, SMTT(30) DEF handleSubmit, Ask, Unused, Ids
<1>4. CASE Read(i)
  BY <1>4, SMTT(30) DEF Read, Call, Handed
<1>5. CASE ReadFails(i)
  BY <1>5, SMTT(30) DEF ReadFails, Call, Handed
<1>6. CASE chat(i)
  BY <1>6, SMTT(30) DEF chat, AfterTeam
<1>7. CASE make_team(i)
  BY <1>7, SMTT(30) DEF make_team, AfterTeam
<1>8. CASE MakeTeamRefused(i)
  BY <1>8, SMTT(30) DEF MakeTeamRefused, AfterTeam, Fault
<1>9. CASE MakeTeamBreaks(i)
  BY <1>9, SMTT(30) DEF MakeTeamBreaks, Fault
<1>10. CASE make_client(i)
  BY <1>10, SMTT(30) DEF make_client
<1>11. CASE CallFails(i)
  BY <1>11, SMTT(30) DEF CallFails, Fault
<1>12. CASE Create(i)
  BY <1>12, SMTT(30) DEF Create
<1>13. CASE Resume(i)
  BY <1>13, SMTT(30) DEF Resume
<1>14. CASE Chunk(i)
  BY <1>14, SMTT(30) DEF Chunk
<1>15. CASE Error(i)
  BY <1>15, SMTT(30) DEF Error
<1>16. CASE Done(i)
  BY <1>16, SMTT(30) DEF Done
<1>17. CASE Cancel(i)
  BY <1>17, SMTT(30) DEF Cancel
<1>18. CASE handleStop
  BY <1>18, SMTT(30) DEF handleStop
<1>19. CASE Reopen
  BY <1>19, SMTT(30) DEF Reopen
<1>20. CASE Crash
  BY <1>20, SMTT(30) DEF Crash, Fault, Ended
<1>21. CASE UNCHANGED vars
  BY <1>21, SMTT(30) DEF vars
<1> QED
  BY <1>1, <1>2, <1>3, <1>4, <1>5, <1>6, <1>7, <1>8, <1>9, <1>10, <1>11, <1>12,
     <1>13, <1>14, <1>15, <1>16, <1>17, <1>18, <1>19, <1>20, <1>21 DEF Step

-----------------------------------------------------------------------------
(* The invariant is inductive.                                             *)
LEMMA InvStep == IInv /\ [Next]_vars => IInv'
  BY NextSteps, TypeStep, TeamsStep, AskedStep, BoxStep, CauseStep DEF IInv

(* It holds in every state.                                                *)
LEMMA Invariance == Spec => []IInv
  BY InitInv, InvStep, PTL DEF Spec

(* The types, and with them that a loading box awaits a request.           *)
THEOREM TypeCorrect == Spec => []TypeOK
<1>1. IInv => TypeOK
  BY DEF IInv
<1> QED BY <1>1, Invariance, PTL

(* A request fails only for a fault of its own time, or because its        *)
(* region's team was refused before and counts as made (make_team).        *)
THEOREM FailuresHaveACause == Spec => []ErrorHasACause
<1>1. IInv => ErrorHasACause
  BY DEF IInv
<1> QED BY <1>1, Invariance, PTL
=============================================================================
