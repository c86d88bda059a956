------------------------------- MODULE TrustZone ------------------------------
(***************************************************************************)
(* tee/: a token request of the normal world, through the trusted OS, to   *)
(* the cryptography applet and back.                                       *)
(*                                                                         *)
(* One core runs one world at a time.  The normal world enters the trusted *)
(* OS twice per RPC: with the request, which the trusted OS serves, and    *)
(* for the reply.  On both, before the normal world resumes, the trusted   *)
(* OS loads and runs the applet of every app that has mail.  GoTEE's       *)
(* monitor and the RPC transport are external: a reply may arrive, may be  *)
(* cut short (ErrUnexpectedEOF, which callRPC swallows) or may fail in     *)
(* another way.  A payload is the request it encodes, or the request it    *)
(* answers.                                                                *)
(***************************************************************************)
EXTENDS Integers, Sequences, FiniteSets

CONSTANTS
  AppIDs,      \* apps the normal world sends mail to
  Registered,  \* apps of Context.Apps
  Requests,    \* requests of the token client
  Refused,     \* requests token.Dispatch returns an error for
  Faults       \* faults of an RPC's reply: "cut", "broken"

Empty == "empty"
Errors == {"MailboxFull", "NoResult", "RPCError"}

ASSUME TrustZoneAssumption ==
  /\ AppIDs # {} /\ Registered \subseteq AppIDs
  /\ Requests \cap (Errors \cup {Empty}) = {}
  /\ Refused \subseteq Requests
  /\ Faults \subseteq {"cut", "broken"}

VARIABLES
  world,      \* which code runs: the normal world, the trusted OS, an applet; or
              \* none: the normal world has exited, the board resets after a
              \* panic, or the applet spins for ever
  mailbox,    \* c.mailbox
  resultBox,  \* c.resultBox
  queue,      \* keys dispatchAppsCalls has still to visit
  ta,         \* the applet: its program counter, app ID and mail
  ns,         \* the normal world's doRequest: program counter, app ID, request,
              \* server's reply to the RPC under way, and what it returned
  intact      \* ghost: since the board started no reply has failed otherwise than
              \* by being cut short

vars == <<world, mailbox, resultBox, queue, ta, ns, intact>>

Payloads == Requests \cup {Empty}

\* Type correctness of the boxes and of the two programs.
TypeOK ==
  /\ world \in {"normal", "dispatch", "applet", "exited", "reset", "halted"}
  /\ mailbox \in [AppIDs -> Payloads]
  /\ resultBox \in [AppIDs -> Payloads]
  /\ queue \subseteq AppIDs
  /\ ta \in [pc : {"retrieve", "dispatch", "write", "exit"}, app : AppIDs, mail : Payloads]
  /\ ns \in [pc : {"idle", "sending", "mailed", "retrieving"}, app : AppIDs,
             req : Payloads, reply : Payloads \cup Errors, out : Payloads \cup Errors]
  /\ intact \in BOOLEAN

SomeApp == CHOOSE a \in AppIDs : TRUE

NoMail == [a \in AppIDs |-> Empty]
IdleTA == [pc |-> "retrieve", app |-> SomeApp, mail |-> Empty]
IdleNS == [pc |-> "idle", app |-> SomeApp, req |-> Empty, reply |-> Empty, out |-> Empty]

Init ==
  /\ world = "normal"
  /\ mailbox = NoMail /\ resultBox = NoMail /\ queue = {}
  /\ ta = IdleTA /\ ns = IdleNS /\ intact = TRUE

Deliveries == {"delivered"} \cup Faults

-------------------------------------------------------------------------------
(* Context: the boxes *)

Keys(box) == {a \in AppIDs : box[a] # Empty}

\* Mutant: the entry is overwritten, not deleted.
DeletedToNil(box, a) == [box EXCEPT ![a] = "nil"]

\* RetrieveMail and ReadResponse: LoadAndDelete.
Deleted(box, a) == [box EXCEPT ![a] = Empty]

\* nonsecureWorldHandler: after the RPC is served, dispatchAppsCalls.
EnterDispatch == world' = "dispatch" /\ queue' = Keys(mailbox')

-------------------------------------------------------------------------------
(* The normal world: doRequest *)

\* SendMail is served: the mail is stored, unless there is mail already.
NsSendMail(a, r) ==
  /\ world = "normal" /\ ns.pc = "idle"
  /\ IF mailbox[a] # Empty
     THEN UNCHANGED mailbox
     ELSE mailbox' = [mailbox EXCEPT ![a] = r]
  /\ ns' = [pc |-> "sending", app |-> a, req |-> r, out |-> Empty,
            reply |-> IF mailbox[a] # Empty THEN "MailboxFull" ELSE Empty]
  /\ UNCHANGED <<resultBox, ta, intact>>
  /\ EnterDispatch

\* SendMail's reply: an error ends doRequest.  A reply cut short is no error.
NsSendMailReply ==
  /\ world = "normal" /\ ns.pc = "sending"
  /\ \E d \in Deliveries :
       /\ intact' = (intact /\ d # "broken")
       /\ LET err == IF d = "delivered" THEN ns.reply
                     ELSE IF d = "cut" THEN Empty ELSE "RPCError"
          IN  ns' = [ns EXCEPT !.pc = IF err = Empty THEN "mailed" ELSE "idle", !.out = err]
  /\ UNCHANGED <<mailbox, resultBox, ta>>
  /\ EnterDispatch

\* Mutant: ReadResponse leaves the result in the box.
NsRetrieveResultKeeping ==
  /\ world = "normal" /\ ns.pc = "mailed"
  /\ ns' = [ns EXCEPT !.pc = "retrieving",
                      !.reply = IF resultBox[ns.app] = Empty THEN "NoResult"
                                ELSE resultBox[ns.app]]
  /\ UNCHANGED <<mailbox, resultBox, ta, intact>>
  /\ EnterDispatch

\* RetrieveResult is served: ReadResponse takes the result out of the box.
NsRetrieveResult ==
  /\ world = "normal" /\ ns.pc = "mailed"
  /\ ns' = [ns EXCEPT !.pc = "retrieving",
                      !.reply = IF resultBox[ns.app] = Empty THEN "NoResult"
                                ELSE resultBox[ns.app]]
  /\ resultBox' = Deleted(resultBox, ns.app)
  /\ UNCHANGED <<mailbox, ta, intact>>
  /\ EnterDispatch

\* Mutant: a reply cut short is asked for again.
NsRetrieveResultRetry ==
  /\ world = "normal" /\ ns.pc = "retrieving"
  /\ \E d \in Deliveries :
       /\ intact' = (intact /\ d # "broken")
       /\ ns' = IF d = "cut"
                THEN [ns EXCEPT !.pc = "mailed"]
                ELSE [ns EXCEPT !.pc = "idle",
                                !.out = IF d = "delivered" THEN ns.reply ELSE "RPCError"]
  /\ UNCHANGED <<mailbox, resultBox, ta>>
  /\ EnterDispatch

\* RetrieveResult's reply.  One cut short leaves a zero Mail, whose payload
\* UnpackResponse cannot decode.
NsRetrieveResultReply ==
  /\ world = "normal" /\ ns.pc = "retrieving"
  /\ \E d \in Deliveries :
       /\ intact' = (intact /\ d # "broken")
       /\ ns' = [ns EXCEPT !.pc = "idle",
                           !.out = IF d = "delivered" THEN ns.reply ELSE "RPCError"]
  /\ UNCHANGED <<mailbox, resultBox, ta>>
  /\ EnterDispatch

\* SYS_EXIT: RunNonsecureWorld returns to main, which resets the board.
NsExit ==
  /\ world = "normal" /\ ns.pc = "idle"
  /\ world' = "exited"
  /\ UNCHANGED <<mailbox, resultBox, queue, ta, ns, intact>>

-------------------------------------------------------------------------------
(* The trusted OS: dispatchAppsCalls *)

\* loadTA finds the app's image and loads it, and run starts the applet.
DispatchApp(a) ==
  /\ world = "dispatch" /\ a \in queue
  /\ a \in Registered
  /\ queue' = queue \ {a}
  /\ world' = "applet"
  /\ ta' = [pc |-> "retrieve", app |-> a, mail |-> Empty]
  /\ UNCHANGED <<mailbox, resultBox, ns, intact>>

\* loadTA fails, for an app nobody registered or because image.Load or monitor.Load
\* (external) fails for one that is: the panic reaches main, which resets the board.
DispatchPanics(a) ==
  /\ world = "dispatch" /\ a \in queue
  /\ world' = "reset"
  /\ UNCHANGED <<mailbox, resultBox, queue, ta, ns, intact>>

DispatchEnds ==
  /\ world = "dispatch" /\ queue = {}
  /\ world' = "normal"
  /\ UNCHANGED <<mailbox, resultBox, queue, ta, ns, intact>>

-------------------------------------------------------------------------------
(* The applet *)

\* Mutant: RetrieveMail leaves the mail in the box.
TaRetrieveMailKeeping ==
  /\ world = "applet" /\ ta.pc = "retrieve"
  /\ \E d \in Deliveries :
       /\ intact' = (intact /\ d # "broken")
       /\ IF d = "broken"
          THEN world' = "reset" /\ UNCHANGED ta
          ELSE /\ ta' = [ta EXCEPT !.pc = "dispatch",
                                   !.mail = IF d = "delivered" THEN mailbox[ta.app] ELSE Empty]
               /\ UNCHANGED world
  /\ UNCHANGED <<mailbox, resultBox, queue, ns>>

\* RetrieveMail.  An error makes the applet panic, which the trusted OS turns
\* into a panic of its own; a reply cut short leaves a zero Mail.
TaRetrieveMail ==
  /\ world = "applet" /\ ta.pc = "retrieve"
  /\ mailbox' = Deleted(mailbox, ta.app)
  /\ \E d \in Deliveries :
       /\ intact' = (intact /\ d # "broken")
       /\ IF d = "broken" \/ (d = "delivered" /\ mailbox[ta.app] = Empty)
          THEN world' = "reset" /\ UNCHANGED ta
          ELSE /\ ta' = [ta EXCEPT !.pc = "dispatch",
                                   !.mail = IF d = "delivered" THEN mailbox[ta.app] ELSE Empty]
               /\ UNCHANGED world
  /\ UNCHANGED <<resultBox, queue, ns>>

\* token.Dispatch computes the response.
TaDispatch ==
  /\ world = "applet" /\ ta.pc = "dispatch"
  /\ ta.mail \in Requests \ Refused
  /\ ta' = [ta EXCEPT !.pc = "write"]
  /\ UNCHANGED <<world, mailbox, resultBox, queue, ns, intact>>

\* It fails: Fatalw ends the program by os.Exit, which in an applet either
\* exits to the trusted OS or spins (external).
TaFatal ==
  /\ world = "applet" /\ ta.pc = "dispatch"
  /\ ta.mail \notin Requests \ Refused
  /\ \/ world' = "halted"
     \/ world' = "dispatch"
  /\ UNCHANGED <<mailbox, resultBox, queue, ta, ns, intact>>

\* Mutant: a full box keeps its old result.
WrittenKeeping(box, a, r) == IF box[a] # Empty THEN box ELSE [box EXCEPT ![a] = r]

\* WriteResponse: a result that was never read is deleted, not replaced.
Written(box, a, r) == [box EXCEPT ![a] = IF box[a] # Empty THEN Empty ELSE r]

TaWriteResponse ==
  /\ world = "applet" /\ ta.pc = "write"
  /\ resultBox' = Written(resultBox, ta.app, ta.mail)
  /\ \E d \in Deliveries :
       /\ intact' = (intact /\ d # "broken")
       /\ IF d = "broken" \/ (d = "delivered" /\ resultBox[ta.app] # Empty)
          THEN world' = "reset" /\ UNCHANGED ta
          ELSE ta' = [ta EXCEPT !.pc = "exit"] /\ UNCHANGED world
  /\ UNCHANGED <<mailbox, queue, ns>>

\* applet.Exit: run returns and the Range goes on.
TaExit ==
  /\ world = "applet" /\ ta.pc = "exit"
  /\ world' = "dispatch"
  /\ UNCHANGED <<mailbox, resultBox, queue, ta, ns, intact>>

-------------------------------------------------------------------------------
(* The board starts again, by imx6.Reset or by its user (external). *)

Reboot ==
  /\ world \in {"exited", "reset", "halted"}
  /\ world' = "normal"
  /\ mailbox' = NoMail /\ resultBox' = NoMail /\ queue' = {}
  /\ ta' = IdleTA /\ ns' = IdleNS /\ intact' = TRUE

Next ==
  \/ \E a \in AppIDs, r \in Requests : NsSendMail(a, r)
  \/ NsSendMailReply
  \/ NsRetrieveResult
  \/ NsRetrieveResultReply
  \/ NsExit
  \/ \E a \in AppIDs : DispatchApp(a)
  \/ \E a \in AppIDs : DispatchPanics(a)
  \/ DispatchEnds
  \/ TaRetrieveMail
  \/ TaDispatch
  \/ TaFatal
  \/ TaWriteResponse
  \/ TaExit
  \/ Reboot

\* The core never idles: whichever world runs takes its next step.  The normal
\* world need not send mail or exit, and nobody has to reboot a halted board.
Progress ==
  \/ NsSendMailReply \/ NsRetrieveResult \/ NsRetrieveResultReply
  \/ (\E a \in AppIDs : DispatchApp(a) \/ DispatchPanics(a)) \/ DispatchEnds
  \/ TaRetrieveMail \/ TaDispatch \/ TaFatal \/ TaWriteResponse \/ TaExit

Spec == Init /\ [][Next]_vars /\ WF_vars(Progress)

-------------------------------------------------------------------------------
(* Properties *)

\* tz.go:118-144 and tee_token.go:113-139.  As long as no reply fails otherwise
\* than by being cut short, a result that doRequest returns answers the request
\* it was called with: never a result left in the box by an earlier one.
ResultsAnswerTheirRequest ==
  intact /\ ns.pc = "idle" /\ ns.out \in Requests => ns.out = ns.req

\* tz.go:118-126.  Even when SendMail failed after its mail was answered, and the
\* result stayed in the box, the next response an applet writes removes it: an
\* applet that ran to its end leaves the current result or none.
AppletsLeaveNoOldResult ==
  world = "applet" /\ ta.pc = "exit" => resultBox[ns.app] \in {Empty, ns.req}

\* tz.go:146-154, 240-270.  All mail is taken before the normal world runs
\* again, so that SendMail never finds the mailbox full.
MailTakenBeforeNormalWorldResumes ==
  /\ world = "normal" => Keys(mailbox) = {}
  /\ ns.reply # "MailboxFull"

\* tz.go:171-184, 240-256, 396-418 and applet main.go:46-79.  An applet that runs does
\* not bring the board down, whatever replies are cut short: a reset comes from loadTA,
\* before the applet took the mail, so that the request is still in its box, whole.
ResetOnlyIfLoadingFails ==
  intact /\ world = "reset" => Keys(mailbox) = {ns.app} /\ mailbox[ns.app] = ns.req

(* The call as its client sees it, while no reply has failed outright. *)

Up == intact /\ world \notin {"exited", "reset", "halted"}

callPhase == IF ~Up THEN "down" ELSE IF ns.pc = "idle" THEN "idle" ELSE "busy"
callReq == IF Up THEN ns.req ELSE Empty
callOut == IF Up THEN ns.out ELSE Empty

\* The applet's answer, from when it is written until doRequest returns it.
callAnswer ==
  IF ~Up \/ ns.pc = "idle" THEN Empty
  ELSE IF ns.reply \in Requests THEN ns.reply ELSE resultBox[ns.app]

Call == INSTANCE RemoteCall
          WITH None <- Empty, phase <- callPhase, req <- callReq,
               answer <- callAnswer, out <- callOut

\* tee/README.md "Applet execution is synchronous", with tz.go, client.go and the
\* two doRequest functions: through two RPCs, two boxes, a dispatcher and an applet,
\* with replies cut short at any of them, a request behaves as one remote call.
ImplementsRemoteCall == Call!Spec

\* tee/README.md "once normal world sends mail, it will wait until an applet has
\* processed the data and sent a reply, or until an error is produced": every
\* doRequest ends, unless the board resets or the applet spins.
RequestsEnd == (ns.pc # "idle") ~> (ns.pc = "idle" \/ world \in {"reset", "halted"})
===============================================================================
