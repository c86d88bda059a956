---------------------------- MODULE TrustZoneProofs ---------------------------
(***************************************************************************)
(* For every set of apps and requests: what the boxes of the trusted OS    *)
(* can hold, and so what a request of the normal world can return.         *)
(***************************************************************************)
EXTENDS NormalWorld, TLAPS

\* The only mail is that of the request being sent, and whoever runs has still
\* to see to it.
MailIsCurrent ==
  /\ \A a \in Keys(mailbox) : a = ns.app /\ mailbox[a] = ns.req /\ ns.pc = "sending"
  /\ world = "normal" => Keys(mailbox) = {}
  /\ world = "dispatch" => Keys(mailbox) = queue
  /\ world = "applet" /\ ta.pc = "retrieve" => mailbox[ta.app] # Empty
  /\ world = "applet" /\ ta.pc # "retrieve" => Keys(mailbox) = {}

\* The applet that runs is the one the request is for.
AppletIsCurrent ==
  world = "applet" =>
    /\ queue = {} /\ ns.pc = "sending"
    /\ ta.app = ns.app /\ ta.app \in Registered
    /\ ta.pc = "dispatch" => ta.mail \in {Empty, ns.req}
    /\ ta.pc \in {"write", "exit"} => ta.mail = ns.req

\* While no reply has failed outright, the only result is that of the request
\* under way, and there is none before the applet writes it.
ResultIsCurrent ==
  intact =>
    /\ \A a \in Keys(resultBox) :
         a = ns.app /\ resultBox[a] = ns.req /\ ns.pc \in {"sending", "mailed"}
    /\ Keys(mailbox) # {} => Keys(resultBox) = {}
    /\ world = "applet" /\ ta.pc # "exit" => Keys(resultBox) = {}
    /\ ns.pc = "retrieving" /\ ns.reply \in Requests => ns.reply = ns.req

\* The mailbox was never full, and RetrieveResult answers with a result or an error.
ReplyIsNoError ==
  /\ ns.reply # "MailboxFull"
  /\ ns.pc \in {"sending", "mailed"} => ns.reply = Empty
  /\ ns.pc = "retrieving" => ns.reply # Empty
  /\ ns.pc # "idle" => ns.out = Empty

\* The inductive invariant of the trusted OS with any normal world.
IInv ==
  /\ TypeOK /\ MailIsCurrent /\ AppletIsCurrent /\ ResultIsCurrent /\ ReplyIsNoError
  /\ ResetOnlyIfLoadingFails /\ ResultsAnswerTheirRequest /\ AppletsLeaveNoOldResult

-------------------------------------------------------------------------------
(* Type correctness *)

\* Everything is empty after a boot.
LEMMA InitType == Init => TypeOK
<1>1. SomeApp \in AppIDs
  BY TrustZoneAssumption DEF SomeApp
<1> QED
  BY <1>1 DEF Init, TypeOK, NoMail, IdleTA, IdleNS, Payloads

\* Every step keeps the types.
LEMMA NextType == TypeOK /\ [Next]_vars => TypeOK'
<1> SUFFICES ASSUME TypeOK, [Next]_vars PROVE TypeOK'
  OBVIOUS
<1> USE TrustZoneAssumption DEF TypeOK, Payloads, Errors, EnterDispatch, Keys, Deliveries
<1>1. ASSUME NEW a \in AppIDs, NEW r \in Requests, NsSendMail(a, r) PROVE TypeOK'
  BY <1>1 DEF NsSendMail
<1>2. CASE NsSendMailReply
  <2>1. PICK d \in Deliveries, err \in {ns.reply, Empty, "RPCError"} :
          /\ intact' = (intact /\ d # "broken")
          /\ ns' = [ns EXCEPT !.pc = IF err = Empty THEN "mailed" ELSE "idle", !.out = err]
    BY <1>2, Zenon DEF NsSendMailReply
  <2>2. err \in Payloads \cup Errors
    BY <2>1
  <2>3. PICK pc \in {"mailed", "idle"} : ns' = [ns EXCEPT !.pc = pc, !.out = err]
    BY <2>1, Zenon
  <2>4. ns' \in [pc : {"idle", "sending", "mailed", "retrieving"}, app : AppIDs,
                 req : Payloads, reply : Payloads \cup Errors, out : Payloads \cup Errors]
    BY <2>2, <2>3, Zenon
  <2>5. /\ UNCHANGED <<mailbox, resultBox, ta>> /\ intact' \in BOOLEAN
        /\ world' = "dispatch" /\ queue' \subseteq AppIDs
    BY <1>2, <2>1 DEF NsSendMailReply
  <2> QED
    BY <2>4, <2>5
<1>3. CASE NsRetrieveResult
  BY <1>3, ZenonT(30) DEF NsRetrieveResult, Deleted
<1>4. CASE NsRetrieveResultReply
  BY <1>4, ZenonT(30) DEF NsRetrieveResultReply
<1>5. ASSUME NEW a \in AppIDs, DispatchApp(a) \/ DispatchPanics(a) PROVE TypeOK'
  BY <1>5 DEF DispatchApp, DispatchPanics
<1>6. CASE TaRetrieveMail
  <2>1. /\ mailbox' = [mailbox EXCEPT ![ta.app] = Empty]
        /\ UNCHANGED <<resultBox, queue, ns>> /\ intact' \in BOOLEAN
        /\ world' \in {world, "reset"}
    BY <1>6 DEF TaRetrieveMail, Deleted
  <2>2. ta' = ta \/ \E x \in Payloads : ta' = [ta EXCEPT !.pc = "dispatch", !.mail = x]
    BY <1>6, Zenon DEF TaRetrieveMail
  <2>3. ta' \in [pc : {"retrieve", "dispatch", "write", "exit"}, app : AppIDs, mail : Payloads]
    BY <2>2, ZenonT(30)
  <2> QED
    BY <2>1, <2>3
<1>7. CASE TaWriteResponse
  BY <1>7 DEF TaWriteResponse, Written
<1>8. CASE NsExit \/ DispatchEnds \/ TaDispatch \/ TaFatal \/ TaExit
  BY <1>8 DEF NsExit, DispatchEnds, TaDispatch, TaFatal, TaExit
<1>9. CASE Reboot
  <2>1. SomeApp \in AppIDs
    BY DEF SomeApp
  <2> QED
    BY <1>9, <2>1 DEF Reboot, NoMail, IdleTA, IdleNS
<1>10. CASE UNCHANGED vars
  BY <1>10 DEF vars
<1> QED
  BY <1>1, <1>2, <1>3, <1>4, <1>5, <1>6, <1>7, <1>8, <1>9, <1>10 DEF Next

-------------------------------------------------------------------------------
(* The boxes *)

\* Nothing is in the boxes after a boot.
LEMMA InitIInv == Init => IInv
<1> SUFFICES ASSUME Init PROVE IInv
  OBVIOUS
<1> USE TrustZoneAssumption DEF Init, NoMail, IdleTA, IdleNS, Keys
<1>1. MailIsCurrent /\ AppletIsCurrent /\ ReplyIsNoError
  <2>1. Keys(mailbox) = {} /\ world = "normal" /\ ns.pc = "idle" /\ ns.reply = Empty
    OBVIOUS
  <2> QED
    BY <2>1 DEF MailIsCurrent, AppletIsCurrent, ReplyIsNoError, Empty
<1>2. ResultIsCurrent
  BY DEF ResultIsCurrent
<1>3. ResetOnlyIfLoadingFails /\ ResultsAnswerTheirRequest /\ AppletsLeaveNoOldResult
  BY DEF ResetOnlyIfLoadingFails, ResultsAnswerTheirRequest, AppletsLeaveNoOldResult
<1> QED
  BY InitType, <1>1, <1>2, <1>3 DEF IInv

\* Every step keeps the boxes to the request under way.
LEMMA NextIInv == IInv /\ [Next]_vars => IInv'
<1> SUFFICES ASSUME IInv, [Next]_vars PROVE IInv'
  OBVIOUS
<1>0. TypeOK /\ TypeOK'
  BY NextType DEF IInv
<1> DEFINE Goal == /\ ResetOnlyIfLoadingFails /\ ResultsAnswerTheirRequest
                   /\ AppletsLeaveNoOldResult
<1>i. /\ MailIsCurrent /\ AppletIsCurrent /\ ResultIsCurrent /\ ReplyIsNoError
      /\ ResetOnlyIfLoadingFails /\ ResultsAnswerTheirRequest /\ AppletsLeaveNoOldResult
  BY DEF IInv
<1>e. /\ Empty \notin Requests /\ Empty \notin Errors /\ Requests \cap Errors = {}
      /\ ns.req \in Payloads /\ ns.app \in AppIDs
  BY <1>0, TrustZoneAssumption DEF Empty, Errors, TypeOK
<1> USE DEF ResetOnlyIfLoadingFails, ResultsAnswerTheirRequest, AppletsLeaveNoOldResult

<1>1. ASSUME NEW a \in AppIDs, NEW r \in Requests, NsSendMail(a, r) PROVE IInv'
  <2>1. world = "normal" /\ ns.pc = "idle" /\ \A b \in AppIDs : mailbox[b] = Empty
    BY <1>1, <1>i DEF NsSendMail, MailIsCurrent, Keys
  <2>2. /\ mailbox' = [mailbox EXCEPT ![a] = r] /\ world' = "dispatch" /\ queue' = Keys(mailbox')
        /\ ns' = [pc |-> "sending", app |-> a, req |-> r, out |-> Empty, reply |-> Empty]
        /\ UNCHANGED <<resultBox, ta, intact>>
    BY <1>1, <2>1 DEF NsSendMail, EnterDispatch
  <2>3. ns'.pc = "sending" /\ ns'.app = a /\ ns'.req = r /\ ns'.out = Empty /\ ns'.reply = Empty
    BY <2>2
  <2>4. Keys(mailbox') = {a} /\ mailbox'[a] = r
    BY <1>0, <1>e, <2>1, <2>2 DEF Keys, TypeOK
  <2>5. MailIsCurrent' /\ AppletIsCurrent' /\ ReplyIsNoError'
    BY <1>e, <2>2, <2>3, <2>4 DEF MailIsCurrent, AppletIsCurrent, ReplyIsNoError, Keys, Empty
  <2>6. ResultIsCurrent'
    <3>1. intact => Keys(resultBox) = {}
      BY <1>i, <2>1 DEF ResultIsCurrent
    <3>2. intact' => Keys(resultBox)' = {}
      BY <2>2, <3>1 DEF Keys
    <3> QED
      BY <2>2, <2>3, <3>2 DEF ResultIsCurrent
  <2>7. Goal'
    BY <2>2, <2>3
  <2> QED
    BY <1>0, <2>5, <2>6, <2>7 DEF IInv
<1>2. CASE NsSendMailReply
  <2>1. world = "normal" /\ ns.pc = "sending" /\ Keys(mailbox) = {} /\ ns.reply = Empty
    BY <1>2, <1>i DEF NsSendMailReply, MailIsCurrent, ReplyIsNoError
  <2>2. /\ world' = "dispatch" /\ queue' = Keys(mailbox') /\ UNCHANGED <<mailbox, resultBox, ta>>
        /\ \/ intact' = intact /\ ns' = [ns EXCEPT !.pc = "mailed", !.out = Empty]
           \/ intact' = FALSE /\ ns' = [ns EXCEPT !.pc = "idle", !.out = "RPCError"]
    <3>1. PICK d \in Deliveries :
            /\ intact' = (intact /\ d # "broken")
            /\ LET err == IF d = "delivered" THEN ns.reply
                          ELSE IF d = "cut" THEN Empty ELSE "RPCError"
               IN  ns' = [ns EXCEPT !.pc = IF err = Empty THEN "mailed" ELSE "idle", !.out = err]
      BY <1>2, Zenon DEF NsSendMailReply
    <3>2. CASE d # "broken"
      BY <1>0, <1>2, <2>1, <3>1, <3>2, TrustZoneAssumption, Zenon
      DEF NsSendMailReply, EnterDispatch, Deliveries, TypeOK
    <3>3. CASE d = "broken"
      BY <1>2, <3>1, <3>3, Zenon DEF NsSendMailReply, EnterDispatch, Empty
    <3> QED
      BY <3>2, <3>3, Zenon
  <2>3. /\ ns'.app = ns.app /\ ns'.req = ns.req /\ ns'.reply = ns.reply
        /\ ns'.pc \in {"mailed", "idle"} /\ ns'.out \in {Empty, "RPCError"}
        /\ intact' => intact /\ ns'.pc = "mailed"
        /\ ns'.pc = "mailed" => ns'.out = Empty
    BY <1>0, <2>2, Zenon DEF TypeOK
  <2>4. Keys(mailbox') = {} /\ Keys(resultBox') = Keys(resultBox)
    BY <2>1, <2>2 DEF Keys
  <2>5. MailIsCurrent' /\ AppletIsCurrent' /\ ReplyIsNoError'
    BY <1>i, <2>1, <2>2, <2>3, <2>4 DEF MailIsCurrent, AppletIsCurrent, ReplyIsNoError, Keys, Empty
  <2>6. ResultIsCurrent'
    BY <1>i, <2>2, <2>3, <2>4 DEF ResultIsCurrent, Keys
  <2>7. Goal'
    BY <2>2, <2>3
  <2> QED
    BY <1>0, <2>5, <2>6, <2>7 DEF IInv
<1>3. CASE NsRetrieveResult
  <2>1. world = "normal" /\ ns.pc = "mailed" /\ Keys(mailbox) = {}
    BY <1>3, <1>i DEF NsRetrieveResult, MailIsCurrent
  <2>2. /\ world' = "dispatch" /\ queue' = Keys(mailbox') /\ UNCHANGED <<mailbox, ta, intact>>
        /\ resultBox' = [resultBox EXCEPT ![ns.app] = Empty]
        /\ ns'.pc = "retrieving" /\ ns'.app = ns.app /\ ns'.req = ns.req /\ ns'.out = ns.out
        /\ ns'.reply = IF resultBox[ns.app] = Empty THEN "NoResult" ELSE resultBox[ns.app]
    BY <1>0, <1>3 DEF NsRetrieveResult, EnterDispatch, Deleted, TypeOK
  <2>3. Keys(mailbox') = {} /\ Keys(resultBox') = Keys(resultBox) \ {ns.app}
    BY <1>0, <1>e, <2>1, <2>2 DEF Keys, TypeOK
  <2>4. MailIsCurrent' /\ AppletIsCurrent'
    BY <2>2, <2>3 DEF MailIsCurrent, AppletIsCurrent, Keys
  <2>5. ReplyIsNoError'
    BY <1>0, <1>e, <1>i, <2>1, <2>2 DEF ReplyIsNoError, TypeOK, Payloads, Errors, Empty
  <2>6. ResultIsCurrent'
    <3>1. intact => Keys(resultBox') = {} /\ (resultBox[ns.app] # Empty => resultBox[ns.app] = ns.req)
      BY <1>e, <1>i, <2>3 DEF ResultIsCurrent, Keys
    <3>2. "NoResult" \notin Requests
      BY <1>e DEF Errors
    <3> QED
      BY <2>2, <2>3, <3>1, <3>2 DEF ResultIsCurrent, Keys
  <2>7. Goal'
    BY <2>2
  <2> QED
    BY <1>0, <2>4, <2>5, <2>6, <2>7 DEF IInv
<1>4. CASE NsRetrieveResultReply
  <2>1. world = "normal" /\ ns.pc = "retrieving" /\ Keys(mailbox) = {}
    BY <1>4, <1>i DEF NsRetrieveResultReply, MailIsCurrent
  <2>2. /\ world' = "dispatch" /\ queue' = Keys(mailbox') /\ UNCHANGED <<mailbox, resultBox, ta>>
        /\ intact' => intact
        /\ ns'.pc = "idle" /\ ns'.app = ns.app /\ ns'.req = ns.req /\ ns'.reply = ns.reply
        /\ ns'.out \in {ns.reply, "RPCError"}
    BY <1>0, <1>4 DEF NsRetrieveResultReply, EnterDispatch, TypeOK
  <2>3. Keys(mailbox') = {} /\ Keys(resultBox') = Keys(resultBox)
    BY <2>1, <2>2 DEF Keys
  <2>4. MailIsCurrent' /\ AppletIsCurrent' /\ ReplyIsNoError'
    BY <1>i, <2>2, <2>3 DEF MailIsCurrent, AppletIsCurrent, ReplyIsNoError, Keys
  <2>5. ResultIsCurrent'
    <3>1. intact => Keys(resultBox) = {}
      BY <1>i, <2>1 DEF ResultIsCurrent
    <3> QED
      BY <2>2, <2>3, <3>1 DEF ResultIsCurrent, Keys
  <2>6. Goal'
    <3>1. "RPCError" \notin Requests
      BY <1>e DEF Errors
    <3> QED
      BY <1>i, <2>1, <2>2, <3>1 DEF ResultIsCurrent
  <2> QED
    BY <1>0, <2>4, <2>5, <2>6 DEF IInv
<1>5. ASSUME NEW a \in AppIDs, DispatchApp(a) PROVE IInv'
  <2>1. /\ world = "dispatch" /\ a \in Registered /\ world' = "applet" /\ queue' = queue \ {a}
        /\ ta'.pc = "retrieve" /\ ta'.app = a /\ UNCHANGED <<mailbox, resultBox, ns, intact>>
        /\ a \in queue
    BY <1>5 DEF DispatchApp
  <2>2. a = ns.app /\ ns.pc = "sending" /\ queue = {a} /\ mailbox[a] # Empty
    BY <1>i, <2>1 DEF MailIsCurrent, Keys
  <2>3. MailIsCurrent' /\ AppletIsCurrent' /\ ReplyIsNoError'
    BY <1>i, <2>1, <2>2 DEF MailIsCurrent, AppletIsCurrent, ReplyIsNoError, Keys
  <2>4. ResultIsCurrent'
    <3>1. intact => Keys(resultBox) = {}
      BY <1>i, <2>1, <2>2 DEF ResultIsCurrent, Keys
    <3> QED
      BY <1>i, <2>1, <3>1 DEF ResultIsCurrent, Keys
  <2>5. Goal'
    BY <1>i, <2>1
  <2> QED
    BY <1>0, <2>3, <2>4, <2>5 DEF IInv
<1>6. ASSUME NEW a \in AppIDs, DispatchPanics(a) PROVE IInv'
  <2>1. /\ world = "dispatch" /\ a \in queue /\ world' = "reset"
        /\ UNCHANGED <<mailbox, resultBox, queue, ta, ns, intact>>
    BY <1>6 DEF DispatchPanics
  <2>2. Keys(mailbox) = {ns.app} /\ mailbox[ns.app] = ns.req
    BY <1>i, <2>1 DEF MailIsCurrent
  <2>3. MailIsCurrent' /\ AppletIsCurrent' /\ ReplyIsNoError'
    BY <1>i, <2>1 DEF MailIsCurrent, AppletIsCurrent, ReplyIsNoError, Keys
  <2>4. ResultIsCurrent'
    BY <1>i, <2>1 DEF ResultIsCurrent, Keys
  <2>5. Goal'
    BY <1>i, <2>1, <2>2 DEF Keys
  <2> QED
    BY <1>0, <2>3, <2>4, <2>5 DEF IInv
<1>7. CASE TaRetrieveMail
  <2>1. /\ world = "applet" /\ ta.pc = "retrieve" /\ ta.app = ns.app /\ mailbox[ns.app] # Empty
        /\ mailbox[ns.app] = ns.req /\ queue = {} /\ ns.pc = "sending" /\ ns.app \in Registered
        /\ Keys(mailbox) = {ns.app}
    BY <1>7, <1>e, <1>i DEF TaRetrieveMail, MailIsCurrent, AppletIsCurrent, Keys
  <2>2. /\ mailbox' = [mailbox EXCEPT ![ns.app] = Empty]
        /\ UNCHANGED <<resultBox, queue, ns>>
        /\ \/ world' = "reset" /\ ~intact'
           \/ /\ world' = "applet" /\ ta'.pc = "dispatch" /\ ta'.app = ta.app
              /\ ta'.mail \in {Empty, ns.req}
        /\ intact' => intact
    <3>1. /\ mailbox' = [mailbox EXCEPT ![ns.app] = Empty]
          /\ UNCHANGED <<resultBox, queue, ns>>
      BY <1>7, <2>1, Zenon DEF TaRetrieveMail, Deleted
    <3>2. PICK d \in Deliveries :
            /\ intact' = (intact /\ d # "broken")
            /\ IF d = "broken" \/ (d = "delivered" /\ mailbox[ta.app] = Empty)
               THEN world' = "reset" /\ UNCHANGED ta
               ELSE /\ ta' = [ta EXCEPT !.pc = "dispatch",
                               !.mail = IF d = "delivered" THEN mailbox[ta.app] ELSE Empty]
                    /\ UNCHANGED world
      BY <1>7, Zenon DEF TaRetrieveMail
    <3>3. CASE d = "broken"
      BY <3>1, <3>2, <3>3, Zenon
    <3>4. CASE d # "broken"
      <4>1. PICK x \in {Empty, ns.req} : ta' = [ta EXCEPT !.pc = "dispatch", !.mail = x]
        BY <2>1, <3>2, <3>4, Zenon
      <4>2. ta'.pc = "dispatch" /\ ta'.app = ta.app /\ ta'.mail = x
        BY <1>0, <4>1 DEF TypeOK
      <4>3. world' = "applet" /\ (intact' => intact)
        BY <2>1, <3>2, <3>4, Zenon
      <4> QED
        BY <3>1, <4>1, <4>2, <4>3
    <3> QED
      BY <3>3, <3>4
  <2>3. Keys(mailbox') = {}
    BY <1>0, <2>1, <2>2 DEF Keys, TypeOK
  <2>4. MailIsCurrent' /\ AppletIsCurrent' /\ ReplyIsNoError'
    BY <1>i, <2>1, <2>2, <2>3 DEF MailIsCurrent, AppletIsCurrent, ReplyIsNoError, Keys
  <2>5. ResultIsCurrent'
    <3>1. intact => Keys(resultBox) = {}
      BY <1>i, <2>1 DEF ResultIsCurrent
    <3> QED
      BY <1>i, <2>1, <2>2, <3>1 DEF ResultIsCurrent, Keys
  <2>6. Goal'
    BY <2>1, <2>2
  <2> QED
    BY <1>0, <2>4, <2>5, <2>6 DEF IInv
<1>8. CASE TaWriteResponse
  <2>1. /\ world = "applet" /\ ta.pc = "write" /\ ta.app = ns.app /\ ta.mail = ns.req
        /\ queue = {} /\ ns.pc = "sending" /\ ns.app \in Registered /\ Keys(mailbox) = {}
        /\ intact => Keys(resultBox) = {}
    BY <1>8, <1>i DEF TaWriteResponse, MailIsCurrent, AppletIsCurrent, ResultIsCurrent
  <2>2. intact => resultBox[ns.app] = Empty
    BY <1>e, <2>1 DEF Keys
  <2>3. /\ resultBox' = [resultBox EXCEPT ![ns.app] =
                           IF resultBox[ns.app] # Empty THEN Empty ELSE ns.req]
        /\ UNCHANGED <<mailbox, queue, ns>>
        /\ \/ world' = "reset" /\ ~intact'
           \/ world' = "applet" /\ ta'.pc = "exit" /\ ta'.app = ta.app /\ ta'.mail = ta.mail
        /\ intact' => intact
    BY <1>0, <1>8, <2>1, <2>2, Zenon DEF TaWriteResponse, Written, TypeOK
  <2>4. /\ resultBox'[ns.app] \in {Empty, ns.req}
        /\ \A b \in AppIDs : b # ns.app => resultBox'[b] = resultBox[b]
    BY <1>0, <1>e, <2>3 DEF TypeOK
  <2>5. MailIsCurrent' /\ AppletIsCurrent' /\ ReplyIsNoError'
    BY <1>i, <2>1, <2>3 DEF MailIsCurrent, AppletIsCurrent, ReplyIsNoError, Keys
  <2>6. ResultIsCurrent'
    BY <1>i, <2>1, <2>3, <2>4 DEF ResultIsCurrent, Keys
  <2>7. Goal'
    BY <2>1, <2>3, <2>4
  <2> QED
    BY <1>0, <2>5, <2>6, <2>7 DEF IInv
<1>9. CASE DispatchEnds \/ TaFatal \/ TaExit
  <2>1. /\ UNCHANGED <<mailbox, resultBox, queue, ta, ns, intact>>
        /\ Keys(mailbox) = {} /\ queue = {} /\ world' \in {"normal", "dispatch", "halted"}
    BY <1>9, <1>i DEF DispatchEnds, TaFatal, TaExit, MailIsCurrent, AppletIsCurrent
  <2>2. MailIsCurrent' /\ AppletIsCurrent' /\ ReplyIsNoError'
    BY <1>i, <2>1 DEF MailIsCurrent, AppletIsCurrent, ReplyIsNoError, Keys
  <2>3. ResultIsCurrent'
    BY <1>i, <2>1 DEF ResultIsCurrent, Keys
  <2>4. Goal'
    BY <1>i, <2>1
  <2> QED
    BY <1>0, <2>2, <2>3, <2>4 DEF IInv
<1>10. CASE TaDispatch
  <2>1. /\ world = "applet" /\ ta.pc = "dispatch" /\ ta.mail \in Requests
        /\ UNCHANGED <<world, mailbox, resultBox, queue, ns, intact>>
        /\ ta'.pc = "write" /\ ta'.app = ta.app /\ ta'.mail = ta.mail
    BY <1>0, <1>10 DEF TaDispatch, TypeOK
  <2>2. ta.mail = ns.req
    BY <1>e, <1>i, <2>1 DEF AppletIsCurrent
  <2>3. MailIsCurrent' /\ AppletIsCurrent' /\ ReplyIsNoError'
    BY <1>i, <2>1, <2>2 DEF MailIsCurrent, AppletIsCurrent, ReplyIsNoError, Keys
  <2>4. ResultIsCurrent'
    BY <1>i, <2>1 DEF ResultIsCurrent, Keys
  <2>5. Goal'
    BY <1>i, <2>1
  <2> QED
    BY <1>0, <2>3, <2>4, <2>5 DEF IInv
<1>11. CASE Reboot
  <2>1. Init'
    BY <1>11 DEF Reboot, Init, NoMail, IdleTA, IdleNS
  <2> QED
    BY <2>1, InitIInv, PTL
<1>12. CASE UNCHANGED vars
  <2> USE <1>12 DEF vars
  <2>1. MailIsCurrent' /\ AppletIsCurrent' /\ ReplyIsNoError'
    BY <1>i DEF MailIsCurrent, AppletIsCurrent, ReplyIsNoError, Keys
  <2>2. ResultIsCurrent'
    BY <1>i DEF ResultIsCurrent, Keys
  <2>3. Goal'
    BY <1>i
  <2> QED
    BY <1>0, <2>1, <2>2, <2>3 DEF IInv
<1>13. CASE NsExit
  <2>1. UNCHANGED <<mailbox, resultBox, queue, ta, ns, intact>> /\ world' = "exited"
    BY <1>13 DEF NsExit
  <2>2. MailIsCurrent' /\ AppletIsCurrent' /\ ReplyIsNoError'
    BY <1>i, <2>1 DEF MailIsCurrent, AppletIsCurrent, ReplyIsNoError, Keys
  <2>3. ResultIsCurrent'
    BY <1>i, <2>1 DEF ResultIsCurrent, Keys
  <2>4. Goal'
    BY <1>i, <2>1
  <2> QED
    BY <1>0, <2>2, <2>3, <2>4 DEF IInv
<1> QED
  BY <1>1, <1>2, <1>3, <1>4, <1>5, <1>6, <1>7, <1>8, <1>9, <1>10, <1>11, <1>12, <1>13 DEF Next

\* tz.go, client.go, applet main.go: boxes and programs keep their types.
THEOREM TypeCorrect == Spec => []TypeOK
  BY InitType, NextType, PTL DEF Spec

\* The inductive invariant holds in every state the three programs reach.
THEOREM Invariance == Spec => []IInv
  BY InitIInv, NextIInv, PTL DEF Spec

\* tz.go:146-154, 240-270: SendMail never finds the mailbox full, for any apps.
THEOREM MailTaken == Spec => []MailTakenBeforeNormalWorldResumes
<1>1. IInv => MailTakenBeforeNormalWorldResumes
  BY DEF IInv, MailIsCurrent, ReplyIsNoError, MailTakenBeforeNormalWorldResumes
<1> QED
  BY <1>1, Invariance, PTL

\* tz.go:118-144: unless a reply failed outright, a result answers its request.
THEOREM ResultsAnswer == Spec => []ResultsAnswerTheirRequest
<1>1. IInv => ResultsAnswerTheirRequest
  BY DEF IInv
<1> QED
  BY <1>1, Invariance, PTL

\* tz.go:171-184, 240-256, 396-418: unless a reply failed outright, only loadTA resets the
\* board, with the request still in its box; no applet does once it runs.
THEOREM ResetsExplained == Spec => []ResetOnlyIfLoadingFails
<1>1. IInv => ResetOnlyIfLoadingFails
  BY DEF IInv
<1> QED
  BY <1>1, Invariance, PTL

\* tz.go:118-126: an applet that ran to its end leaves no result of another
\* request, whatever failed before.
THEOREM NoOldResult == Spec => []AppletsLeaveNoOldResult
<1>1. IInv => AppletsLeaveNoOldResult
  BY DEF IInv
<1> QED
  BY <1>1, Invariance, PTL

-------------------------------------------------------------------------------
(* The refinement *)

\* A board that has just started has no call under way.
LEMMA InitCall == Init => Call!Init
<1> SUFFICES ASSUME Init PROVE Call!Init
  OBVIOUS
<1>1. Up /\ ns.pc = "idle" /\ ns.req = Empty /\ ns.out = Empty
  BY DEF Init, Up, IdleNS
<1> QED
  BY <1>1 DEF Call!Init, callPhase, callReq, callAnswer, callOut

\* Only a boot brings back a board that went down.
LEMMA OnlyRebootRevives == Next /\ ~Up /\ Up' => Reboot
<1> SUFFICES ASSUME Next, ~Up, Up' PROVE Reboot
  OBVIOUS
<1>1. /\ world \in {"normal", "dispatch", "applet"} => ~intact
      /\ intact' /\ world' \notin {"exited", "reset", "halted"}
  BY DEF Up
<1>2. ASSUME NEW a \in AppIDs, NEW r \in Requests, NsSendMail(a, r) PROVE FALSE
  BY <1>1, <1>2, Zenon DEF NsSendMail
<1>3. ~NsSendMailReply /\ ~NsRetrieveResultReply
  BY <1>1, Zenon DEF NsSendMailReply, NsRetrieveResultReply
<1>4. ~NsRetrieveResult /\ ~NsExit /\ ~DispatchEnds
  BY <1>1, Zenon DEF NsRetrieveResult, NsExit, DispatchEnds
<1>5. ASSUME NEW a \in AppIDs, DispatchApp(a) \/ DispatchPanics(a) PROVE FALSE
  BY <1>1, <1>5, Zenon DEF DispatchApp, DispatchPanics
<1>6. ~TaRetrieveMail /\ ~TaWriteResponse
  BY <1>1, Zenon DEF TaRetrieveMail, TaWriteResponse
<1>7. ~TaDispatch /\ ~TaFatal /\ ~TaExit
  BY <1>1, Zenon DEF TaDispatch, TaFatal, TaExit
<1> QED
  BY <1>2, <1>3, <1>4, <1>5, <1>6, <1>7 DEF Next

\* Every step of the three programs is a step of the call, or none.
LEMMA NextCall == IInv /\ [Next]_vars => [Call!Next]_Call!vars
<1> SUFFICES ASSUME IInv, [Next]_vars PROVE [Call!Next]_Call!vars
  OBVIOUS
<1>0. TypeOK /\ MailIsCurrent /\ AppletIsCurrent /\ ResultIsCurrent /\ ReplyIsNoError
  BY DEF IInv
<1>e. /\ Empty \notin Requests /\ Empty \notin Errors /\ Requests \cap Errors = {}
      /\ ns.req \in Payloads /\ ns.app \in AppIDs /\ "RPCError" \in Errors
      /\ "NoResult" \in Errors
  BY <1>0, TrustZoneAssumption DEF Empty, Errors, TypeOK
<1>s. ASSUME UNCHANGED <<callPhase, callReq, callAnswer, callOut>> PROVE [Call!Next]_Call!vars
  BY <1>s DEF Call!vars
<1>1. CASE ~Up /\ ~Up'
  <2>1. UNCHANGED <<callPhase, callReq, callAnswer, callOut>>
    BY <1>1 DEF callPhase, callReq, callAnswer, callOut
  <2> QED
    BY <2>1, <1>s
<1>2. CASE Up /\ ~Up'
  <2>1. callPhase \in {"busy", "idle"}
    BY <1>2 DEF callPhase
  <2>2. callPhase' = "down" /\ callReq' = Empty /\ callAnswer' = Empty /\ callOut' = Empty
    BY <1>2 DEF callPhase, callReq, callAnswer, callOut
  <2> QED
    BY <2>1, <2>2 DEF Call!Next, Call!Stop
<1>3. CASE ~Up /\ Up'
  <2>1. CASE Next
    <3>1. Reboot
      BY <1>3, <2>1, OnlyRebootRevives
    <3>2. ns'.pc = "idle" /\ ns'.req = Empty /\ ns'.out = Empty
      BY <3>1 DEF Reboot, IdleNS
    <3>3. callPhase = "down"
      BY <1>3 DEF callPhase
    <3>4. callPhase' = "idle" /\ callReq' = Empty /\ callAnswer' = Empty /\ callOut' = Empty
      BY <1>3, <3>2 DEF callPhase, callReq, callAnswer, callOut
    <3> QED
      BY <3>3, <3>4 DEF Call!Next, Call!Restart, Call!Boot
  <2>2. CASE UNCHANGED vars
    BY <1>3, <2>2 DEF vars, Up
  <2> QED
    BY <2>1, <2>2
<1>4. CASE Up /\ Up'
  <2>0. /\ intact /\ intact' /\ world \in {"normal", "dispatch", "applet"}
        /\ world' \notin {"exited", "reset", "halted"}
    BY <1>0, <1>4 DEF Up, TypeOK
  <2>a. /\ callPhase = (IF ns.pc = "idle" THEN "idle" ELSE "busy")
        /\ callReq = ns.req /\ callOut = ns.out
        /\ callAnswer = (IF ns.pc = "idle" THEN Empty
                         ELSE IF ns.reply \in Requests THEN ns.reply ELSE resultBox[ns.app])
    BY <1>4 DEF callPhase, callReq, callAnswer, callOut
  <2>b. /\ callPhase' = (IF ns'.pc = "idle" THEN "idle" ELSE "busy")
        /\ callReq' = ns'.req /\ callOut' = ns'.out
        /\ callAnswer' = (IF ns'.pc = "idle" THEN Empty
                          ELSE IF ns'.reply \in Requests THEN ns'.reply ELSE resultBox'[ns'.app])
    BY <1>4 DEF callPhase, callReq, callAnswer, callOut
  <2>s. ASSUME UNCHANGED <<ns, resultBox>> PROVE [Call!Next]_Call!vars
    BY <2>a, <2>b, <2>s, <1>s
  <2>1. ASSUME NEW a \in AppIDs, NEW r \in Requests, NsSendMail(a, r) PROVE [Call!Next]_Call!vars
    <3>1. /\ ns.pc = "idle" /\ resultBox' = resultBox
          /\ ns'.pc = "sending" /\ ns'.app = a /\ ns'.req = r /\ ns'.out = Empty
          /\ ns'.reply \in {"MailboxFull", Empty}
      BY <2>1 DEF NsSendMail
    <3>2. resultBox[a] = Empty
      BY <1>0, <2>0, <3>1 DEF ResultIsCurrent, Keys
    <3>3. ns'.reply \notin Requests
      BY <1>e, <3>1 DEF Errors
    <3>4. Call!Call(r)
      BY <2>a, <2>b, <3>1, <3>2, <3>3 DEF Call!Call
    <3> QED
      BY <3>4 DEF Call!Next
  <2>2. CASE NsSendMailReply
    <3>1. ns.pc = "sending" /\ ns.reply = Empty /\ ns.out = Empty /\ resultBox' = resultBox
      BY <1>0, <2>2 DEF NsSendMailReply, ReplyIsNoError
    <3>2. ns' = [ns EXCEPT !.pc = "mailed", !.out = Empty]
      <4>1. PICK d \in Deliveries :
              /\ intact' = (intact /\ d # "broken")
              /\ LET err == IF d = "delivered" THEN ns.reply
                            ELSE IF d = "cut" THEN Empty ELSE "RPCError"
                 IN  ns' = [ns EXCEPT !.pc = IF err = Empty THEN "mailed" ELSE "idle", !.out = err]
        BY <2>2, Zenon DEF NsSendMailReply
      <4>2. d \in {"delivered", "cut"}
        BY <2>0, <4>1, TrustZoneAssumption, Zenon DEF Deliveries
      <4> QED
        BY <3>1, <4>1, <4>2, Zenon
    <3>3. /\ ns'.pc = "mailed" /\ ns'.app = ns.app /\ ns'.req = ns.req
          /\ ns'.reply = ns.reply /\ ns'.out = Empty
      BY <1>0, <3>2 DEF TypeOK
    <3> QED
      BY <2>a, <2>b, <3>1, <3>3, <1>s
  <2>3. CASE NsRetrieveResult
    <3>1. /\ ns.pc = "mailed" /\ resultBox' = [resultBox EXCEPT ![ns.app] = Empty]
          /\ ns'.pc = "retrieving" /\ ns'.app = ns.app /\ ns'.req = ns.req /\ ns'.out = ns.out
          /\ ns'.reply = IF resultBox[ns.app] = Empty THEN "NoResult" ELSE resultBox[ns.app]
      BY <1>0, <2>3 DEF NsRetrieveResult, Deleted, TypeOK
    <3>2. /\ ns.reply \notin Requests /\ "NoResult" \notin Requests
          /\ resultBox'[ns.app] = Empty /\ resultBox[ns.app] \in Requests \cup {Empty}
      BY <1>0, <1>e, <3>1 DEF TypeOK, ReplyIsNoError, Payloads
    <3> QED
      BY <2>a, <2>b, <3>1, <3>2, <1>s
  <2>4. CASE NsRetrieveResultReply
    <3>1. /\ ns.pc = "retrieving" /\ ns'.pc = "idle" /\ ns'.req = ns.req
          /\ ns'.out \in {ns.reply, "RPCError"}
      BY <1>0, <2>4 DEF NsRetrieveResultReply, TypeOK
    <3>2. ns.reply \in Errors \/ (ns.reply \in Requests /\ ns.reply # Empty)
      BY <1>0, <1>e, <3>1 DEF TypeOK, Payloads, ReplyIsNoError
    <3>3. callOut' \in Errors \cup ({callAnswer} \ {Empty})
      BY <1>e, <2>a, <2>b, <3>1, <3>2
    <3>4. Call!Return
      BY <2>a, <2>b, <3>1, <3>3 DEF Call!Return
    <3> QED
      BY <3>4 DEF Call!Next
  <2>5. CASE TaWriteResponse
    <3>1. /\ ns' = ns /\ ns.pc = "sending" /\ ta.app = ns.app /\ ta.mail = ns.req
          /\ resultBox[ns.app] = Empty /\ ns.reply \notin Requests
      BY <1>0, <1>e, <2>0, <2>5
      DEF TaWriteResponse, AppletIsCurrent, ResultIsCurrent, ReplyIsNoError, Keys
    <3>2. resultBox'[ns.app] = ns.req
      BY <1>0, <1>e, <2>5, <3>1 DEF TaWriteResponse, Written, TypeOK
    <3>3. Call!Compute
      BY <2>a, <2>b, <3>1, <3>2 DEF Call!Compute
    <3> QED
      BY <3>3 DEF Call!Next
  <2>6. CASE Reboot
    BY <2>0, <2>6 DEF Reboot
  <2>7. CASE TaRetrieveMail
    BY <2>7, <2>s DEF TaRetrieveMail
  <2>8. CASE DispatchEnds \/ TaDispatch \/ TaFatal \/ TaExit \/ NsExit
    BY <2>8, <2>s DEF DispatchEnds, TaDispatch, TaFatal, TaExit, NsExit
  <2>9. ASSUME NEW a \in AppIDs, DispatchApp(a) \/ DispatchPanics(a) PROVE [Call!Next]_Call!vars
    BY <2>9, <2>s DEF DispatchApp, DispatchPanics
  <2>10. CASE UNCHANGED vars
    BY <2>10, <2>s DEF vars
  <2> QED
    BY <2>1, <2>2, <2>3, <2>4, <2>5, <2>6, <2>7, <2>8, <2>9, <2>10 DEF Next
<1> QED
  BY <1>1, <1>2, <1>3, <1>4

\* tz.go, client.go and the doRequest functions, for any apps, requests and faults:
\* two RPCs, two boxes, a dispatcher and an applet amount to one remote call.
THEOREM RemoteCallImplemented == Spec => ImplementsRemoteCall
  BY InitCall, NextCall, Invariance, PTL DEF Spec, ImplementsRemoteCall, Call!Spec

-------------------------------------------------------------------------------
(* The images of the normal world *)

\* What the demo is doing: which function it is in, and whose result it has.
DemoHolds ==
  os = "demo" =>
    /\ call = 1 /\ ns.pc = "idle" => world = "normal"
    /\ ns.pc # "idle" => call <= 5 /\ ns.app = AppletID /\ ns.req = funcList[call]
    /\ ns.pc = "idle" /\ call > 1 => ns.app = AppletID
    /\ ns.pc = "idle" /\ call \in 2 .. 5 => ns.req = funcList[call - 1] /\ ns.out \in Requests

\* The inductive invariant of the trusted OS with either image.
WInv == IInv /\ call \in 1 .. 6 /\ DemoHolds

\* Whichever image the trusted OS carries, it does what a normal world may do.
LEMMA WorldSteps == WInv /\ [NormalNext]_worldVars => [Next]_vars
<1> SUFFICES ASSUME WInv, [NormalNext]_worldVars PROVE [Next]_vars
  OBVIOUS
<1>1. CASE Client
  BY <1>1 DEF Client, Next
<1>2. CASE DemoCalls
  <2>1. AppletID \in AppIDs /\ funcList[call] \in Requests
    BY <1>2, DemoAssumption, TrustZoneAssumption DEF DemoCalls, WInv
  <2> QED
    BY <1>2, <2>1 DEF DemoCalls, Next
<1>3. CASE Reply \/ DemoExits \/ Restart
  BY <1>3 DEF Reply, DemoExits, Restart, Next
<1>4. CASE Monitor
  BY <1>4 DEF Monitor, Next
<1>5. CASE UNCHANGED worldVars
  BY <1>5 DEF worldVars
<1> QED
  BY <1>1, <1>2, <1>3, <1>4, <1>5 DEF NormalNext

\* The demo's steps keep its place and its result together.
LEMMA NextDemoHolds == WInv /\ [NormalNext]_worldVars => call' \in 1 .. 6 /\ DemoHolds'
<1> SUFFICES ASSUME WInv, [NormalNext]_worldVars PROVE call' \in 1 .. 6 /\ DemoHolds'
  OBVIOUS
<1>0. TypeOK /\ IInv /\ call \in 1 .. 6 /\ DemoHolds
  BY DEF WInv, IInv
<1>1. CASE Client
  BY <1>0, <1>1 DEF Client, DemoHolds
<1>2. CASE DemoCalls
  <2>1. /\ os' = os /\ call' = call /\ call <= 5 /\ ns'.pc = "sending"
        /\ ns'.app = AppletID /\ ns'.req = funcList[call]
    BY <1>2 DEF DemoCalls, NsSendMail
  <2> QED
    BY <1>0, <2>1 DEF DemoHolds
<1>3. CASE Reply
  <2>1. /\ ns.pc # "idle" /\ os' = os /\ ns'.app = ns.app /\ ns'.req = ns.req
        /\ call' = IF os = "demo" /\ ns'.pc = "idle" THEN AfterCall ELSE call
    BY <1>0, <1>3, Zenon DEF Reply, NsSendMailReply, NsRetrieveResultReply, TypeOK
  <2>2. CASE os = "demo" /\ ns'.pc = "idle"
    <3>1. call <= 5 /\ ns.app = AppletID /\ ns.req = funcList[call]
      BY <1>0, <2>1, <2>2 DEF DemoHolds
    <3>2. CASE ns'.out \in Requests
      <4>1. call' = call + 1 /\ call' - 1 = call
        BY <1>0, <2>1, <2>2, <3>2 DEF AfterCall
      <4> QED
        BY <1>0, <2>1, <2>2, <3>1, <3>2, <4>1 DEF DemoHolds
    <3>3. CASE ns'.out \notin Requests
      <4>1. call' = 6
        BY <2>1, <2>2, <3>3 DEF AfterCall
      <4> QED
        BY <2>1, <2>2, <3>1, <4>1 DEF DemoHolds
    <3> QED
      BY <3>2, <3>3
  <2>3. CASE ~(os = "demo" /\ ns'.pc = "idle")
    BY <1>0, <2>1, <2>3 DEF DemoHolds
  <2> QED
    BY <2>2, <2>3, Zenon
<1>4. CASE DemoExits
  BY <1>0, <1>4 DEF DemoExits, NsExit, DemoHolds
<1>5. CASE Monitor
  <2>1. CASE NsRetrieveResult
    <3>1. /\ ns.pc # "idle" /\ ns'.pc # "idle" /\ ns'.app = ns.app /\ ns'.req = ns.req
      BY <1>0, <2>1 DEF NsRetrieveResult, TypeOK
    <3> QED
      BY <1>0, <1>5, <3>1 DEF Monitor, DemoHolds
  <2>2. CASE ~NsRetrieveResult
    <3>1. ns' = ns /\ world # "normal" /\ os' = os /\ call' = call
      BY <1>5, <2>2, Zenon
      DEF Monitor, DispatchApp, DispatchPanics, DispatchEnds, TaRetrieveMail, TaDispatch, TaFatal,
          TaWriteResponse, TaExit
    <3> QED
      BY <1>0, <3>1, Zenon DEF DemoHolds
  <2> QED
    BY <2>1, <2>2
<1>6. CASE Restart
  BY <1>6 DEF Restart, Reboot, IdleNS, DemoHolds
<1>7. CASE UNCHANGED worldVars
  BY <1>0, <1>7 DEF worldVars, vars, DemoHolds
<1> QED
  BY <1>1, <1>2, <1>3, <1>4, <1>5, <1>6, <1>7 DEF NormalNext

\* Every image starts idle on a fresh board, and its steps keep all of it.
LEMMA WorldInvariance == NormalSpec => []WInv
<1>1. NormalInit => WInv
  BY InitIInv DEF NormalInit, Init, IdleNS, WInv, DemoHolds
<1>2. WInv /\ [NormalNext]_worldVars => WInv'
  BY WorldSteps, NextIInv, NextDemoHolds DEF WInv
<1> QED
  BY <1>1, <1>2, PTL DEF NormalSpec

\* nonsecure_demo_os/main.go and the client: with either image, what is proved of
\* TrustZone for any normal world holds: all five invariants and the refinement.
THEOREM WorldsAreClients ==
  NormalSpec =>
    /\ [](TypeOK /\ MailTakenBeforeNormalWorldResumes /\ ResetOnlyIfLoadingFails)
    /\ [](ResultsAnswerTheirRequest /\ AppletsLeaveNoOldResult)
    /\ ImplementsRemoteCall
<1>1. WInv => /\ TypeOK /\ MailTakenBeforeNormalWorldResumes /\ ResetOnlyIfLoadingFails
              /\ ResultsAnswerTheirRequest /\ AppletsLeaveNoOldResult
  BY DEF WInv, IInv, MailIsCurrent, ReplyIsNoError, MailTakenBeforeNormalWorldResumes
<1>2. NormalInit => Call!Init
  BY InitCall DEF NormalInit
<1>3. WInv /\ [NormalNext]_worldVars => [Call!Next]_Call!vars
  BY WorldSteps, NextCall DEF WInv
<1> QED
  BY <1>1, <1>2, <1>3, WorldInvariance, PTL DEF NormalSpec, ImplementsRemoteCall, Call!Spec

\* nonsecure_demo_os/main.go:193-245: for any apps, requests and replies cut short, the
\* demo goes on only with the result of the function it called, and no applet panics.
THEOREM DemoGetsItsResultsHolds == NormalSpec => []DemoGetsItsResults
<1>1. WInv => DemoGetsItsResults
  <2> SUFFICES ASSUME WInv, os = "demo", intact
               PROVE  /\ world = "reset" => call \in 1 .. 5 /\ mailbox[AppletID] = funcList[call]
                      /\ call \in 2 .. 5 /\ ns.pc = "idle" => ns.out = funcList[call - 1]
    BY DEF DemoGetsItsResults
  <2>1. DemoHolds /\ call \in 1 .. 6 /\ ResetOnlyIfLoadingFails /\ ResultsAnswerTheirRequest
        /\ MailIsCurrent
    BY DEF WInv, IInv
  <2>2. world = "reset" => Keys(mailbox) = {ns.app} /\ mailbox[ns.app] = ns.req
    BY <2>1 DEF ResetOnlyIfLoadingFails
  <2>3. world = "reset" => call \in 1 .. 5 /\ mailbox[AppletID] = funcList[call]
    <3> SUFFICES ASSUME world = "reset" PROVE call \in 1 .. 5 /\ mailbox[AppletID] = funcList[call]
      OBVIOUS
    <3>1. ns.pc = "sending"
      BY <2>1, <2>2 DEF MailIsCurrent
    <3> QED
      BY <2>1, <2>2, <3>1 DEF DemoHolds
  <2>4. call \in 2 .. 5 /\ ns.pc = "idle" => ns.out = funcList[call - 1]
    BY <2>1 DEF DemoHolds, ResultsAnswerTheirRequest
  <2> QED
    BY <2>3, <2>4
<1> QED
  BY <1>1, WorldInvariance, PTL

-------------------------------------------------------------------------------
(* How long a request, and the demo, can take *)

\* Steps that an applet has still to take, one for each RPC, one to compute and one to exit.
AppletLeft ==
  IF ta.pc = "retrieve" THEN 4 ELSE IF ta.pc = "dispatch" THEN 3 ELSE IF ta.pc = "write" THEN 2 ELSE 1

\* Steps before the normal world runs again, at most: dispatchAppsCalls runs one applet or
\* none.
MonitorLeft ==
  IF world = "normal" THEN 0
  ELSE IF world = "applet" THEN 1 + AppletLeft
  ELSE IF queue = {} THEN 1 ELSE 6

\* Steps before doRequest returns, at most, once its mail is in: it enters the trusted OS
\* three times more, and comes back from the first two.
RequestLeft ==
  (IF ns.pc = "sending" THEN 5 ELSE IF ns.pc = "mailed" THEN 3 ELSE 1) + MonitorLeft

\* One of the three worlds has the core.
Running == world \in {"normal", "dispatch", "applet"}

\* Facts of arithmetic on the counts.
LEMMA Counts ==
  /\ \A k, a, b \in Int : a < b => k + a < k + b
  /\ \A c \in Int : 13 * (5 - c) + 2 \in Int /\ 13 * (6 - c) + 1 \in Int
  /\ \A c \in Int, x \in {1, 6} : 13 * (5 - c) + 2 + (5 + x) < 13 * (6 - c) + 1 + 0
  /\ Nat \subseteq Int /\ 1 .. 6 \subseteq Int /\ 0 .. 6 \subseteq Int /\ 1 .. 11 \subseteq Int
  /\ {1, 3, 5} \subseteq Int
  OBVIOUS

\* Mail, and so an applet, there is only while a request is being sent.
LEMMA MonitorLeftType ==
  ASSUME IInv, Running
  PROVE  MonitorLeft \in 0 .. 6 /\ (ns.pc # "sending" => MonitorLeft \in 0 .. 1)
<1>1. world = "dispatch" /\ ns.pc # "sending" => queue = {}
  BY Zenon DEF IInv, MailIsCurrent
<1>2. world = "applet" => ns.pc = "sending"
  BY Zenon DEF IInv, AppletIsCurrent
<1> QED
  BY <1>1, <1>2 DEF Running, MonitorLeft, AppletLeft

\* A step of the trusted OS or of the applet.
MonitorStep ==
  \/ \E a \in AppIDs : DispatchApp(a) \/ DispatchPanics(a)
  \/ DispatchEnds \/ TaRetrieveMail \/ TaDispatch \/ TaFatal \/ TaWriteResponse \/ TaExit

\* tz.go:240-270, 396-418 and applet main.go:46-79.  It brings the normal world nearer to
\* its turn.
LEMMA MonitorShrinks ==
  ASSUME IInv, MonitorStep
  PROVE  /\ ns' = ns /\ world # "normal"
         /\ world' \in {"reset", "halted"} \/ MonitorLeft' < MonitorLeft
<1>1. TypeOK /\ (world = "applet" => queue = {})
  BY Zenon DEF IInv, AppletIsCurrent
<1>2. ASSUME NEW a \in AppIDs, DispatchApp(a) \/ DispatchPanics(a)
      PROVE  /\ ns' = ns /\ world # "normal"
             /\ world' \in {"reset", "halted"} \/ MonitorLeft' < MonitorLeft
  <2>1. world = "dispatch" /\ queue # {} /\ ns' = ns
    BY <1>2, Zenon DEF DispatchApp, DispatchPanics
  <2>2. world' = "reset" \/ (world' = "applet" /\ ta'.pc = "retrieve")
    BY <1>2 DEF DispatchApp, DispatchPanics
  <2> QED
    BY <2>1, <2>2 DEF MonitorLeft, AppletLeft
<1>3. CASE DispatchEnds
  BY <1>3 DEF DispatchEnds, MonitorLeft
<1>4. CASE TaRetrieveMail
  <2>1. /\ world = "applet" /\ ta.pc = "retrieve" /\ ns' = ns
        /\ world' = "reset" \/ (world' = world /\ ta'.pc = "dispatch")
    BY <1>1, <1>4, Zenon DEF TaRetrieveMail, TypeOK
  <2> QED
    BY <2>1 DEF MonitorLeft, AppletLeft
<1>5. CASE TaDispatch
  <2>1. world = "applet" /\ ta.pc = "dispatch" /\ ns' = ns /\ world' = world /\ ta'.pc = "write"
    BY <1>1, <1>5 DEF TaDispatch, TypeOK
  <2> QED
    BY <2>1 DEF MonitorLeft, AppletLeft
<1>6. CASE TaFatal
  BY <1>1, <1>6 DEF TaFatal, MonitorLeft, AppletLeft
<1>7. CASE TaWriteResponse
  <2>1. /\ world = "applet" /\ ta.pc = "write" /\ ns' = ns
        /\ world' = "reset" \/ (world' = world /\ ta'.pc = "exit")
    BY <1>1, <1>7 DEF TaWriteResponse, TypeOK
  <2> QED
    BY <2>1 DEF MonitorLeft, AppletLeft
<1>8. CASE TaExit
  BY <1>1, <1>8 DEF TaExit, MonitorLeft, AppletLeft
<1> QED
  BY <1>2, <1>3, <1>4, <1>5, <1>6, <1>7, <1>8, Zenon DEF MonitorStep

\* tee_token.go:113-139.  The normal world goes on with its request: there is no mail, and
\* the trusted OS comes back at once.
LEMMA RequestGoesOn ==
  ASSUME IInv, NsSendMailReply \/ NsRetrieveResult \/ NsRetrieveResultReply
  PROVE  /\ MonitorLeft = 0 /\ MonitorLeft' = 1 /\ world' = "dispatch"
         /\ \/ ns'.pc = "idle"
            \/ ns.pc = "sending" /\ ns'.pc = "mailed"
            \/ ns.pc = "mailed" /\ ns'.pc = "retrieving"
<1>1. TypeOK /\ (world = "normal" => Keys(mailbox) = {})
  BY Zenon DEF IInv, MailIsCurrent
<1>2. world = "normal" /\ EnterDispatch /\ mailbox' = mailbox
  BY Zenon DEF NsSendMailReply, NsRetrieveResult, NsRetrieveResultReply
<1>3. world' = "dispatch" /\ queue' = {}
  BY <1>1, <1>2, Zenon DEF EnterDispatch, Keys
<1>4. MonitorLeft = 0 /\ MonitorLeft' = 1
  BY <1>2, <1>3 DEF MonitorLeft
<1>5. CASE NsSendMailReply
  BY <1>1, <1>3, <1>4, <1>5, Zenon DEF NsSendMailReply, TypeOK
<1>6. CASE NsRetrieveResult
  BY <1>1, <1>3, <1>4, <1>6, Zenon DEF NsRetrieveResult, TypeOK
<1>7. CASE NsRetrieveResultReply
  BY <1>1, <1>3, <1>4, <1>7, Zenon DEF NsRetrieveResultReply, TypeOK
<1> QED
  BY <1>5, <1>6, <1>7, Zenon

\* Each step of a request counts.
LEMMA RequestShrinks ==
  ASSUME IInv, Running, ns.pc # "idle",
         MonitorStep \/ NsSendMailReply \/ NsRetrieveResult \/ NsRetrieveResultReply
  PROVE  \/ ns'.pc = "idle" /\ MonitorLeft' = 1
         \/ world' \in {"reset", "halted"}
         \/ ns'.pc # "idle" /\ RequestLeft' < RequestLeft
<1>1. MonitorLeft \in 0 .. 6
  BY MonitorLeftType, Zenon
<1>2. CASE MonitorStep
  <2>1. ns' = ns /\ (world' \in {"reset", "halted"} \/ MonitorLeft' < MonitorLeft)
    BY <1>2, MonitorShrinks, Zenon
  <2>2. MonitorLeft' \in Nat
    BY DEF MonitorLeft, AppletLeft
  <2>3. PICK k \in {1, 3, 5} : RequestLeft = k + MonitorLeft /\ RequestLeft' = k + MonitorLeft'
    <3>1. CASE ns.pc = "sending"
      BY <2>1, <3>1, Zenon DEF RequestLeft
    <3>2. CASE ns.pc # "sending" /\ ns.pc = "mailed"
      BY <2>1, <3>2, Zenon DEF RequestLeft
    <3>3. CASE ns.pc # "sending" /\ ns.pc # "mailed"
      BY <2>1, <3>3, Zenon DEF RequestLeft
    <3> QED
      BY <3>1, <3>2, <3>3, Zenon
  <2>4. MonitorLeft' < MonitorLeft => RequestLeft' < RequestLeft
    BY <1>1, <2>2, <2>3, Counts, Zenon
  <2> QED
    BY <2>1, <2>4, Zenon
<1>3. CASE NsSendMailReply \/ NsRetrieveResult \/ NsRetrieveResultReply
  <2>1. /\ MonitorLeft = 0 /\ MonitorLeft' = 1
        /\ \/ ns'.pc = "idle"
           \/ ns.pc = "sending" /\ ns'.pc = "mailed"
           \/ ns.pc = "mailed" /\ ns'.pc = "retrieving"
    BY <1>3, RequestGoesOn, Zenon
  <2> QED
    BY <2>1 DEF RequestLeft
<1> QED
  BY <1>2, <1>3, Zenon

\* The count itself.
LEMMA RequestLeftType ==
  ASSUME IInv, Running
  PROVE  RequestLeft \in 1 .. 11
  BY MonitorLeftType DEF RequestLeft

\* tee/README.md "once normal world sends mail, it will wait until an applet has
\* processed the data and sent a reply, or until an error is produced" (tz.go:146-270,
\* tee_token.go:113-139).  Once its mail is in, a request takes 11 steps of the core at
\* most, counted down by each of them, unless one brings the board down.
RequestAdvances ==
  [][Running /\ ns.pc # "idle" =>
       /\ RequestLeft \in 1 .. 11
       /\ \/ ns'.pc = "idle"
          \/ world' \in {"reset", "halted"}
          \/ RequestLeft' < RequestLeft]_vars

\* tee/README.md, quoted above: for any apps, requests and faults.  With a core
\* that never idles this is RequestsEnd.
THEOREM RequestsAdvance == (Spec => RequestAdvances) /\ (NormalSpec => RequestAdvances)
<1> DEFINE Act == Running /\ ns.pc # "idle" =>
                    /\ RequestLeft \in 1 .. 11
                    /\ \/ ns'.pc = "idle"
                       \/ world' \in {"reset", "halted"}
                       \/ RequestLeft' < RequestLeft
<1>1. IInv /\ [Next]_vars => [Act]_vars
  <2> SUFFICES ASSUME IInv, Next, Running, ns.pc # "idle"
               PROVE  /\ RequestLeft \in 1 .. 11
                      /\ \/ ns'.pc = "idle"
                         \/ world' \in {"reset", "halted"}
                         \/ RequestLeft' < RequestLeft
    BY Zenon
  <2>1. MonitorStep \/ NsSendMailReply \/ NsRetrieveResult \/ NsRetrieveResultReply
    <3>1. ~NsExit /\ \A a \in AppIDs, r \in Requests : ~NsSendMail(a, r)
      BY Zenon DEF NsExit, NsSendMail
    <3>2. ~Reboot
      BY DEF Reboot, Running
    <3> QED
      BY <3>1, <3>2, Zenon DEF Next, MonitorStep
  <2> QED
    BY <2>1, RequestLeftType, RequestShrinks, Zenon
<1>2. WInv => IInv
  BY Zenon DEF WInv
<1>3. Spec => RequestAdvances
  BY <1>1, Invariance, PTL DEF Spec, RequestAdvances
<1>4. NormalSpec => RequestAdvances
  BY <1>1, <1>2, WorldInvariance, WorldSteps, PTL DEF NormalSpec, RequestAdvances
<1> QED
  BY <1>3, <1>4, PTL

\* Steps before the demo exits, at most: 13 for each function it has still to call.
DemoLeft ==
  IF ns.pc = "idle" THEN 13 * (6 - call) + 1 + MonitorLeft ELSE 13 * (5 - call) + 2 + RequestLeft

\* nonsecure_demo_os/main.go:217-245.  Whatever replies are lost, the demo takes 66 steps
\* of the core at most, counted down by each of them, unless one brings the board down.
DemoAdvances ==
  [][Running /\ os = "demo" =>
       /\ DemoLeft \in 1 .. 66
       /\ world' \in {"exited", "reset", "halted"} \/ DemoLeft' < DemoLeft]_worldVars

\* nonsecure_demo_os/main.go:217-245: for any apps, requests and faults.  With a core
\* that never idles this is DemoEnds.
THEOREM DemoAlwaysAdvances == NormalSpec => DemoAdvances
<1> DEFINE Act == Running /\ os = "demo" =>
                    /\ DemoLeft \in 1 .. 66
                    /\ world' \in {"exited", "reset", "halted"} \/ DemoLeft' < DemoLeft
<1>1. WInv /\ [NormalNext]_worldVars => [Act]_worldVars
  <2> SUFFICES ASSUME WInv, NormalNext, Running, os = "demo"
               PROVE  /\ DemoLeft \in 1 .. 66
                      /\ world' \in {"exited", "reset", "halted"} \/ DemoLeft' < DemoLeft
    BY Zenon
  <2>1. IInv /\ call \in 1 .. 6 /\ DemoHolds
    BY Zenon DEF WInv
  <2>2. MonitorLeft \in 0 .. 6 /\ RequestLeft \in 1 .. 11
    BY <2>1, MonitorLeftType, RequestLeftType, Zenon
  <2>3. /\ ns.pc # "idle" => call <= 5
        /\ ns.pc = "idle" => MonitorLeft \in 0 .. 1
        /\ ns.pc = "idle" /\ call = 1 => MonitorLeft = 0
    <3>1. call = 1 /\ ns.pc = "idle" => world = "normal"
      BY <2>1, Zenon DEF DemoHolds
    <3> QED
      BY <2>1, <3>1, MonitorLeftType DEF DemoHolds, MonitorLeft
  <2>4. DemoLeft \in 1 .. 66
    BY <2>1, <2>2, <2>3 DEF DemoLeft
  <2>5. CASE DemoCalls
    <3>1. /\ world = "normal" /\ world' = "dispatch" /\ ns.pc = "idle" /\ ns'.pc = "sending"
          /\ call' = call
      BY <2>5 DEF DemoCalls, NsSendMail, EnterDispatch
    <3>2. MonitorLeft = 0 /\ MonitorLeft' \in {1, 6}
      BY <3>1 DEF MonitorLeft
    <3>3. RequestLeft' = 5 + MonitorLeft'
      BY <3>1, Zenon DEF RequestLeft
    <3>4. DemoLeft' < DemoLeft
      <4>1. /\ DemoLeft = 13 * (6 - call) + 1 + MonitorLeft
            /\ DemoLeft' = 13 * (5 - call) + 2 + RequestLeft'
        BY <3>1 DEF DemoLeft
      <4> QED
        BY <2>1, <3>2, <3>3, <4>1, Counts, Zenon
    <3> QED
      BY <2>4, <3>4, Zenon
  <2>6. CASE Reply
    <3>1. /\ NsSendMailReply \/ NsRetrieveResultReply
          /\ call' = IF ns'.pc = "idle" THEN AfterCall ELSE call
      BY <2>6, Zenon DEF Reply
    <3>2. ns.pc # "idle"
      BY <3>1, Zenon DEF NsSendMailReply, NsRetrieveResultReply
    <3>3. world' = "dispatch"
      BY <2>1, <3>1, RequestGoesOn, Zenon
    <3>4. CASE ns'.pc = "idle"
      <4>1. MonitorLeft' = 1
        BY <2>1, <3>1, RequestGoesOn, Zenon
      <4>2. call' = call + 1 \/ call' = 6
        BY <3>1, <3>4 DEF AfterCall
      <4>3. DemoLeft' < DemoLeft
        BY <2>1, <2>2, <2>3, <3>2, <3>4, <4>1, <4>2 DEF DemoLeft
      <4> QED
        BY <2>4, <4>3, Zenon
    <3>5. CASE ns'.pc # "idle"
      <4>1. RequestLeft' < RequestLeft
        BY <2>1, <3>1, <3>2, <3>3, <3>5, RequestShrinks
      <4>2. RequestLeft' \in Nat /\ call' = call
        BY <3>1, <3>5 DEF RequestLeft, MonitorLeft, AppletLeft
      <4>3. DemoLeft' < DemoLeft
        <5>1. /\ DemoLeft = 13 * (5 - call) + 2 + RequestLeft
              /\ DemoLeft' = 13 * (5 - call) + 2 + RequestLeft'
          BY <3>2, <3>5, <4>2 DEF DemoLeft
        <5> QED
          BY <2>1, <2>2, <4>1, <4>2, <5>1, Counts, Zenon
      <4> QED
        BY <2>4, <4>3, Zenon
    <3> QED
      BY <3>4, <3>5, Zenon
  <2>7. CASE DemoExits
    BY <2>4, <2>7 DEF DemoExits, NsExit
  <2>8. CASE Monitor
    <3>1. call' = call /\ (MonitorStep \/ NsRetrieveResult)
      BY <2>8, Zenon DEF Monitor, MonitorStep
    <3>2. MonitorLeft' \in Nat /\ RequestLeft' \in Nat
      BY DEF RequestLeft, MonitorLeft, AppletLeft
    <3>3. CASE ns.pc = "idle"
      <4>1. MonitorStep
        BY <3>1, <3>3, Zenon DEF NsRetrieveResult
      <4>2. ns' = ns /\ (world' \in {"reset", "halted"} \/ MonitorLeft' < MonitorLeft)
        BY <2>1, <4>1, MonitorShrinks, Zenon
      <4>3. /\ DemoLeft = 13 * (6 - call) + 1 + MonitorLeft
            /\ DemoLeft' = 13 * (6 - call) + 1 + MonitorLeft'
        BY <3>1, <3>3, <4>2 DEF DemoLeft
      <4>4. MonitorLeft' < MonitorLeft => DemoLeft' < DemoLeft
        BY <2>1, <2>2, <3>2, <4>3, Counts, Zenon
      <4> QED
        BY <2>4, <4>2, <4>4, Zenon
    <3>4. CASE ns.pc # "idle"
      <4>1. ns'.pc # "idle"
        BY <2>1, <3>1, <3>4, MonitorShrinks, Zenon DEF NsRetrieveResult, IInv, TypeOK
      <4>2. world' \in {"reset", "halted"} \/ RequestLeft' < RequestLeft
        BY <2>1, <3>1, <3>4, <4>1, RequestShrinks, Zenon
      <4>3. /\ DemoLeft = 13 * (5 - call) + 2 + RequestLeft
            /\ DemoLeft' = 13 * (5 - call) + 2 + RequestLeft'
        BY <3>1, <3>4, <4>1 DEF DemoLeft
      <4>4. RequestLeft' < RequestLeft => DemoLeft' < DemoLeft
        BY <2>1, <2>2, <3>2, <4>3, Counts, Zenon
      <4> QED
        BY <2>4, <4>2, <4>4, Zenon
    <3> QED
      BY <3>3, <3>4, Zenon
  <2>9. ~Client /\ ~Restart
    BY DEF Client, Restart, Reboot, Running
  <2> QED
    BY <2>5, <2>6, <2>7, <2>8, <2>9, Zenon DEF NormalNext
<1> QED
  BY <1>1, WorldInvariance, PTL DEF NormalSpec, DemoAdvances
===============================================================================
