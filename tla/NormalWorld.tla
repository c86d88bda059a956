------------------------------ MODULE NormalWorld -----------------------------
(***************************************************************************)
(* The trusted OS with either of the images it may carry for the normal    *)
(* world: tee/nonsecure_demo_os, which makes five requests in a row and    *)
(* exits, or a client that sends any request to any app, at any time.      *)
(***************************************************************************)
EXTENDS TrustZone

CONSTANT AppletID  \* info.AppletID, registered by the trusted OS's main

funcList == <<"mnemonic", "pubkey", "sign", "randomBytes", "supportedAlgorithms">>

ASSUME DemoAssumption ==
  /\ AppletID \in Registered
  /\ {funcList[i] : i \in 1 .. 5} \subseteq Requests \ Refused

VARIABLES
  os,    \* osELF: "demo" or "client"
  call   \* the demo's next function; 6 when it is about to exit

worldVars == <<vars, os, call>>

NormalInit == Init /\ os \in {"demo", "client"} /\ call = 1

\* Another client of NonsecureRPC, which may exit at any time.
Client ==
  /\ os = "client"
  /\ (\E a \in AppIDs, r \in Requests : NsSendMail(a, r)) \/ NsExit
  /\ UNCHANGED <<os, call>>

DemoCalls ==
  /\ os = "demo" /\ call <= 5
  /\ NsSendMail(AppletID, funcList[call])
  /\ UNCHANGED <<os, call>>

\* Mutant: a function that failed is called again.
AfterCallRetrying == IF ns'.out \in Requests THEN call + 1 ELSE call

\* Mutant: the loop goes on after an error.
AfterCallGoingOn == call + 1

\* The loop's break at the first error.
AfterCall == IF ns'.out \in Requests THEN call + 1 ELSE 6

\* A reply arrives, and may end doRequest.
Reply ==
  /\ NsSendMailReply \/ NsRetrieveResultReply
  /\ call' = IF os = "demo" /\ ns'.pc = "idle" THEN AfterCall ELSE call
  /\ UNCHANGED os

\* The deferred exit().
DemoExits ==
  /\ os = "demo" /\ call > 5
  /\ NsExit
  /\ UNCHANGED <<os, call>>

Monitor ==
  /\ \/ NsRetrieveResult
     \/ \E a \in AppIDs : DispatchApp(a) \/ DispatchPanics(a)
     \/ DispatchEnds \/ TaRetrieveMail \/ TaDispatch \/ TaFatal \/ TaWriteResponse \/ TaExit
  /\ UNCHANGED <<os, call>>

Restart == Reboot /\ call' = 1 /\ UNCHANGED os

NormalNext == Client \/ DemoCalls \/ Reply \/ DemoExits \/ Monitor \/ Restart

\* The core never idles, and the demo waits for nobody.
NormalSpec ==
  /\ NormalInit /\ [][NormalNext]_worldVars
  /\ WF_worldVars(DemoCalls \/ Reply \/ DemoExits \/ Monitor)

-------------------------------------------------------------------------------
(* Properties *)

\* nonsecure_demo_os/main.go:193-245 over tz.go and the applet.  As long as no reply
\* fails otherwise than by being cut short, the demo goes from one function to the
\* next only with that function's own result, and the trusted OS panics only if it
\* cannot load the applet for the function being called: no call, whatever the ones
\* before it left in the boxes, makes the applet panic.
DemoGetsItsResults ==
  os = "demo" /\ intact =>
    /\ world = "reset" => call \in 1 .. 5 /\ mailbox[AppletID] = funcList[call]
    /\ call \in 2 .. 5 /\ ns.pc = "idle" => ns.out = funcList[call - 1]

\* nonsecure_demo_os/main.go:217-245.  Whatever replies are lost, the demo comes to
\* its end and the board to its reset; nothing makes it wait, or ask, for ever.
DemoEnds ==
  (os = "demo" /\ world = "normal") ~> (world \in {"exited", "reset", "halted"})
===============================================================================
