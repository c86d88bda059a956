# WallERA in TLA+

WallERA is the firmware of a hardware wallet for the USB armory Mk II, with a
second build for Linux USB gadgets. A host sends requests for addresses and
signatures over HID; the device derives keys and signs. This directory models
its protocol and control code in TLA+, checks it with TLC on small instances,
and proves its safety properties with TLAPS.

## The system and its parts

A request travels through these parts:

1. **HID framing** (`usb/usb.go`). A message is cut into 64-byte packets: a
   first frame with a length and 57 bytes, later frames with 59. `Session`
   reassembles messages, `FormatResponse` cuts replies.
2. **HID handler**, one per build. `firmware/wallera.go` has `Rx` and `Tx` on two
   goroutines that meet on an unbuffered channel, packet by packet.
   `cmd/wallera-linux/main.go` hands whole replies over.
3. **App registry** (`apps/apps.go`, `apps/apdu.go`). It routes an APDU by class
   and instruction to the app that registered for them.
4. **Cosmos app** (`apps/cosmos/cosmos.go`). Three commands: version, address,
   and a signature in three stages (init, add, last) with a session between them.
5. **Derivation** (`crypto/crypto.go`). Path bytes to components to child keys.
6. **Token**. Keys in the same program, or, with TrustZone, a client in the normal
   world (`tee_token.go`) whose requests go by RPC to the trusted OS (`tz.go`), through a
   mailbox, to the cryptography applet, and back through a result box.
   `nonsecure_demo_os` is another such client.
7. **Trusted OS boot** (`tee/trusted_os/main.go`, `configureTrustZone` in `tz.go`).
   It loads everything, programs the hardware firewalls and starts the normal world.
8. **Linux start-up** (`cmd/wallera-linux`). `main` sets a USB gadget up through
   libusbgx if there is none, opens it and starts the handler; `-clean` removes it.

| Part | Module | Status |
|---|---|---|
| HID framing | `HidSession`, `HidHost`, `HidOwed`; abstract `HidPort`; `HidProofs` | modelled |
| Firmware HID handler | `FirmwareHid`, `FirmwareLink`, `FirmwarePort`; `FirmwareProofs`, `FirmwareLinkProofs` | modelled |
| Linux HID handler | `LinuxHid`, `LinuxLink`, `LinuxPort`; `LinuxProofs` | modelled |
| Linux start-up and gadget | `Gadget`, `LinuxMain`; `LinuxProofs` | modelled |
| Host programs (external) | `HidPrograms`, `Wallet` | from how the code is used |
| Registry and routing | `Apps`; `CosmosProofs` | modelled |
| Cosmos app | `Cosmos`, `Wallet`; `CosmosProofs` | modelled |
| Derivation | `Derivation`; `TokenProofs` | modelled |
| Tokens, token client, applet's `Dispatch` | `Token`; `TokenProofs` | modelled; a key is its path |
| Mailbox, dispatcher, RPC, applet's `main` | `TrustZone`; abstract `RemoteCall`; `TrustZoneProofs` | modelled |
| Demo OS | `NormalWorld`; `TrustZoneProofs` | modelled |
| Trusted OS boot | `TrustedBoot`; `TrustedBootProofs` | modelled |
| USB descriptors, syscalls, logging, generated code | none | not modelled, see the end |

## The modules

**HidSession** has no variables: it defines packets, the `Session` record, and
`ReadData`, `ReadFrame`, `readFrame`, `chunkFunc`, `FormatResponse` as operators. A
packet is kept as bytes on the wire, because whether it is a first or a later frame
depends only on the session that reads it. Sizes are constants. The error
of the inner `readFrame` is dropped by `ReadFrame`, as in the code. A nil session
of a handler is `Fresh`, which no session that has read a frame equals.

**HidHost** is the receiver of replies. It reassembles with the code's own rules
and keeps `want`, the replies decided on and not delivered. With it no
history is needed, so the state space is finite without a bound on steps.

**HidPort** is what either handler promises, packets and goroutines left out: whole
replies in order, at most two owed, all lost by a panic. The handlers implement it under
two mappings. In `FirmwarePort` and `LinuxPort` (`ImplementsHidPort`, model-checked) the
replies owed are `Owed` of **HidOwed**: what the host, where it stands now, will reassemble
from the packets still on their way, computed from those packets alone. In the proof modules
they are the replies of `want`.

**FirmwareHid**: `session` is `hh.session`, `outbound` the chunks `Rx` has still to
send (`Rx` runs while it is not empty), `closing` whether `Rx` drops the
session at its end, `tx` the packet `Tx` holds. `RxContinue`, `RxHandle` and
`RxPanic` are `Rx` up to its first send, by outcome; `Send` is one rendezvous on the
channel; `Poll` is the host's. The app is seen from outside: it returns any
of `Replies`, or panics on `Crashing` messages. A panic in an endpoint goroutine
is not recovered, and only `PowerCycle` follows.

**LinuxHid** is the same for the Linux build: `writeOutbound` hands a whole
reply over, `WriteChunk` writes a packet. Every packet of an open session is
answered with `CommandNotAllowed` (`RxRefuse`), as in the code.

**Gadget** is what outlives a run of the Linux program: `g1` counts the calls of
`configure_hidg` the gadget has been through. `main` and `clean` are the two runs that may
be at work on it, step by step; `Stop` may come between any two steps. A call of
libusbgx does what it says or fails without effect (external). `left` and `saw` are ghosts:
what a run found, and whether it met a failed call, the other run, or nothing.
**LinuxMain** composes it with the handler: `Serve` starts the goroutines, a
write to a gadget that `-clean` has removed ends the program.

**HidPrograms**, **FirmwareLink**, **LinuxLink** compose a handler with programs on
the host that keep to the protocol: one channel each, one message at a time, all
packets in order, then one reply. Packets of different programs interleave freely. In
`FirmwareLink`, `openIdx` and `unread` are ghosts: the index of the packet that opened the last
session, and the programs that had a packet of their message passed over.

**Apps**: `Register`, which stops at the first duplicate and keeps what it
has added, and `Handle`'s routing. `appMap` is a set of apps; `commandAppMap` a set of pairs.

**Cosmos** extends `Apps` with the app's handlers, one action per outcome.
An APDU is a record of what the handlers look at; its `size` is compared
with the code's real limits, offsets wrap at 256, and a slice beyond the
message reads padding up to the buffer's capacity and panics after it. `requests`,
`signatures` and `address` are ghosts.

**Wallet** adds a program that has payloads signed, piece by piece, while anybody else
sends any request; the app has one session and cannot tell them apart. `alone` is a
ghost: the app accepted no sign request of anybody else since the program's init.

**Derivation**: the parser's exclusive or, `KeyFromPath`'s loop with its wrapping
sum. A key is the sequence of indexes that lead to it.

**Token** extends it with the two implementations behind `crypto.Token`: the local token,
and `TEEToken`, whose operations are remote calls to `Dispatch`. `at` is the program
counter of whoever runs, caller or applet. The transport is not modelled again: the calls
are steps of `RemoteCall`, which `TrustZone` is shown to implement.

**TrustZone**: one core, one world at a time (`world`). The normal world's
`doRequest`, `dispatchAppsCalls` over the mailbox's keys, and the applet's `main` are
program counters (`ns`, `queue`, `ta`). `loadTA` fails for an app nobody registered, and may
fail for any other (`image.Load` and `monitor.Load` are external); either resets the board. Each RPC's reply may be delivered, cut
short (which `callRPC` takes for success) or fail; `intact` records that none failed outright.
**RemoteCall** is the abstract call: one at a time, its answer computed once and for it,
returned or replaced by an error; nothing is promised after an outright failure until the
next boot. `TrustZone` maps onto it (`ImplementsRemoteCall`): the answer is the result in the
box, then the one in the RPC's reply. **NormalWorld** runs `TrustZone` under the demo OS, its
five calls and its exit, or under a client that sends anything.

**TrustedBoot**: the boot in order, with `configureTrustZone` as the sequence of
its register writes, any of which may fail and reset the board.

Each `MC` module gives a module's constants their values. Definitions marked
`Mutant` are wrong versions of the definition that follows them; no specification
uses them. They record a slip that the property named in `PROJECT.json` catches.

## What is checked

| Run | States | What it shows |
|---|---|---|
| `FirmwareHid` | 7432 | For any packets at any time: the handler implements `HidPort`, no finished session is left behind, `Rx` always returns |
| `FirmwareLink` | 27786 | A program alone on the bus has every message handled byte for byte and answered; packets of a second program never get into a message that its own first packet opened, nor keep its session open; a later packet is taken for a first one only if an earlier one of its message was refused |
| `LinuxHid` (`MCLinuxMain`) | 10798 | The Linux program, killed anywhere and cleaned up at any time: a start succeeds exactly on no gadget or a whole one, a start that `-clean` disturbs adds nothing to what is left, `-clean` leaves none, and the handler, whose `Rx` runs ahead of the writer, delivers every reply whole, implements `HidPort` and never stays blocked |
| `LinuxLink` | 632 | Two programs with one-packet messages are both served |
| `Apps` | 125 | Registered apps and routes agree after any `Register` calls, failed or not |
| `Cosmos` (`MCWallet`) | 84794 | A signature covers exactly the pieces of one session; a program nobody disturbed has signed what it sent; a whole get-address request is answered for its own path |
| `TrustZone` (`MCNormalWorld`) | 2144 | `doRequest` implements `RemoteCall`; every request ends, and so does the demo OS, which gets its own results; mail is taken before the normal world resumes, and a reset finds the request of this call, and no other, in its box |
| `Derivation` (`MCToken`) | 119811 | Behind either token, a successful operation uses the key at the path its own command brought, up to hardening (see the disagreements) |
| `TrustedBoot` | 219 | The normal world never runs behind a half-programmed firewall (bus master of USB excepted, see the disagreements) |

Three more runs show a property that does not hold:

- `FirmwareHid_wrap`: `ReadFrame` drops `readFrame`'s error (`usb/usb.go:237`). When the
  packet index wraps to 0, a packet is reported as read and nothing of it is.
  No legal message has that many packets.
- `LinuxLink_long`: the Linux build refuses the second packet of every
  message (`cmd/wallera-linux/main.go:169`), so that the signature flow of
  the repository's README cannot complete on it.
- `Cosmos_tee`: `TEEToken.Sign` hashes a hash (`tee_token.go:48`, `cosmos.go:200`), so
  what is signed depends on the token behind the interface.

Run one with `tlc -config <run>.cfg <module>`, for example
`tlc -config FirmwareHid_wrap.cfg MCFirmwareHid`; `PROJECT.json` names the module of each run.

### Bounds and why they are enough

- HID: four byte values, 2 data bytes in a first frame, 4 in a later one, five
  packet indexes. Messages and replies take one to four packets, end
  on a frame boundary and beside it, and use both bytes of the length. The indexes
  can wrap, which the assumption on the sizes excludes for legal messages only, as in
  the code (1111 packets of 65536). Two channels: a session tells its own
  channel from others and no more.
- `MaxInbox` bounds the replies the host's driver keeps; a further one is dropped,
  so the bound never blocks the device.
- `Cosmos`: at most four accepted sign requests: two sessions one after
  the other, or one that replaces another half way. The proof has no such bound.
  Get-address sizes sit on both sides of each limit. The program's payloads have one
  and two pieces, so that others get in before the last.
- `Derivation`: two byte values and four words: zero, the largest, and one on each
  side of the hardened bit. The proof covers every even base. Every operation of both
  tokens; commands follow one another without bound, each leaving nothing behind.
- `Gadget` has no bound: the gadget has six states, and runs follow one another for ever.
  One `main` and one `-clean` at a time.
- `TrustedBoot`: the processor's real register counts, so each write can fail.
- `TrustZone`: two apps, one unregistered; the demo's five requests and one that is refused.

### Fairness

- `FirmwareHid`, `LinuxMain`: weak fairness of a rendezvous both goroutines are
  ready for (the Go scheduler) and of the host's polling. None on
  sending packets, power-cycling, starting or cleaning up.
- Links: also fairness of a program's packets. It is weak in `FirmwareLink`, where
  liveness is claimed for a program alone, or for a session until its own program's
  packets are in, and strong in `LinuxLink`, where two
  programs' packets compete for `Rx` and the host controller serves them in turn.
- `TrustZone`, `NormalWorld`: weak fairness of the one core. None on a client's mail or on a
  reboot; the demo OS, which waits for nobody, goes on by itself.

Deadlock is not checked in `Cosmos` (the request bound) and `FirmwareLink`: a program whose packets were refused
waits for a reply for ever, and the code has no timeout that would end the wait.

## What is proved

TLAPS checks these for every value of the constants that the named
assumptions allow. Every invariant and action property that a passing run checks is the
statement of a theorem.

**`HidProofs`**: the framing, from `SizesAssumption` (at least two values of a byte, room for a
byte in the first frame, and enough packet indexes for the longest message).
`ReadsBack`: a session that has read `k` packets of `FormatResponse` and
reads the next one holds that much more of the message, and after the last exactly the
message. `Reading(c, m, k)` and `HasRead(c, m)` name these two sessions, `Carries` what a
packet holds; the argument is that the packets' sizes add up (`Held`, `Count`), that the index
never wraps within a message, and that padding only follows its end. The rest of
the module is what both builds use: what `ReadData` does to any session and any packet
(`ReadDataFacts`), what the host makes of a reply's packets (`HostReads`), and what a program
has sent (`ProgInv`).

**`FirmwareProofs`**, for any packets, replies and messages, from `PacketsAssumption` (what the
host sends are packets), `RepliesAssumption` and `MessagesAssumption` (replies and messages are
not empty and their length fits its field):

- `TypeCorrect`, `NoCompleteSessionLeft`, `RepliesWhole`, from `HInv`.
  `RepliesArriveWhole` speaks of one packet at the host; `StreamInv` says where all the others
  are: nothing is under way, or the packets with `Rx` and `Tx` are the
  rest of one reply of which the host has read the first `j`, or the last packet of one reply
  is with `Tx` while `Rx` has all of the next (the only overlap there is). `SessionInv` says
  that a session `Rx` does not drop misses data.
- `ImplementsPort`: the handler refines `HidPort` with the replies of `want` as what is
  owed. Taking a packet may add a reply, the last packet of a
  reply delivers it, a panic loses all that is owed, all other steps stutter.
- `RxAlwaysAdvances` (an action property): while `Rx` has packets to send, every step of the
  device or the host lowers `Left`, two for each packet with `Rx` and one for the packet with
  `Tx`. So `Rx` returns after that many steps, unless the device goes down.

**`FirmwareLinkProofs`**, from the same, for programs that keep to the protocol:

- `ProgramsReadWhole`, `LoneProgramServed`, `MessagesIntact` and `MisreadsExplained` (action properties).
  `LinkInv` adds to `HInv` that a session whose first
  packet was a first packet has read what its program has sent so far (`OpenInv`), that
  the device only talks to programs with a message (`WhoInv`), and, for a program alone, that its
  exchange is in one of three phases: sending, being answered, answered (`LoneInv`).
  The first three rest on the framing theorem. For `MisreadsExplained`, `AllRead` adds that a program
  in the middle of its message that is not in `unread` has the session: if that is
  closed, its next packet cannot be a later one.
- `ProgramsSeePort`: all that is proved of the handler for any packets (types, no complete
  session at rest, the refinement of `HidPort`, `RxAdvances`) holds of it with programs on the bus.
- `LoneTurnHolds` and `LoneAlwaysAdvances`: until a program that is alone has its answer, it is
  somebody's turn (`RxIdle` for its next packet, or the host to poll, or `Rx` to hand over), and
  every step shortens what it has to send or, when that stays, lowers `Left`. `LoneInv`'s phases give both.
- `SessionsWaitForOwn`: a session that began with the first packet of a message waits for a
  program that has more to send, and no other program's packets change it (`OpenInv`).

**`LinuxProofs`**, from the same, with packets of full size only: `MainTypeCorrect`, `RepliesWhole` and `ImplementsPort` for the whole program from its
start to its end, with another `StreamInv`: whole replies are handed over, so two of them
overlap at any point of the first. `ShortMessagesServed` assumes that messages fit one packet
(`Short`); without it `LinuxLink_long` is a counterexample. `ShortInv` adds that a session is open
only while its answer waits to be handed over and that a program has packets to send, a reply on its
way or a reply to read, never two of these; `NoMessageIsLost` (from `Short` as well) is that a program whose message is out always has one of
them while the device is up. `RxAlwaysAdvances` and `ProgramsSeePort` are as for the firmware. `MainUsesGadget` shows that the program,
for any packets and replies, takes only `Gadget`'s steps; this gives
`StartsAsLeftHolds`, `CleanLeavesNoneHolds` and `FailedStartAddsNothingHolds`. `StartsAsLeft` speaks of where a start ends; `GInv`
adds `ConfiguresAsLeft`, that an undisturbed `configure_hidg` either made all there is of the
gadget or is stuck at its first call. `FailedStartAddsNothing` needs `PartsLeft`, the
same for a start that `-clean` disturbs: its next call finds what its calls made, what was there, or
nothing, and a gadget that is neither whole nor gone is one that a `-clean` under way has disabled.

**`CosmosProofs`**:

- the registry: `RegistryTypeCorrect`, `RoutesMatch`, from `AppsAssumption`, for any batches;
- the app: `TypeCorrect`, `SignaturesCovered`, `WholeGetAddrExact`, from `CosmosAssumption`
  (messages are well typed). `SignaturesCoverOneSession` speaks of finished signatures only; `IInv` adds
  `SessionIsTail`, that an open session holds the path of an init request and
  every piece since, all of them adds. `PayloadGrows` shows that an accepted request extends that
  payload by its piece, `OldSignaturesStay` that the past does not change. `WholeGetAddrExact`
  rests on `OffsetsExact`: for an HRP length that `validate` accepts, the `uint8`
  offsets do not wrap and stay within the buffer;
- the program: `SignedAsSentHolds`, `WalletTypeCorrect`, `WalletIsAHost`, from `WalletAssumption`
  (payloads are well typed). `SignedAsSent`
  speaks of a finished flow; `WInv` adds `SessionIsOwn`, that while the program is
  alone the app's session holds its path and the pieces it has sent. A request that the
  app does not accept leaves the session and the signatures as they were (`QuietHandle`).
  `WalletIsAHost` carries the app's theorems over.

**`TokenProofs`**, from `BaseAssumption` (a byte has an even number of values, at least two):

- the derivation: `TypeCorrect` and `KeyAtWirePath`. `KeyIsAtWirePath` says nothing
  about `path`, so it is not inductive: `IInv` adds `PathIsParsed`, that in the
  loop `path` holds the parser's result, and that fewer than five children are
  derived. The arithmetic core is `FlipThenHarden`: flipping the top bit and then
  adding it modulo the word size is the identity. That is also what the proof shows, `KeyIsWire`: the
  indexes are exactly the words sent, which is one of the cases `KeyIsAtWirePath` allows;
- the tokens: `AnswersUseOwnKeyHolds`, `TokensDerive`, `TokenTypeCorrect`. `TInv` adds to `IInv`
  what the caller holds at each stage (`CallerHolds`: the session is
  the parsed path or the derived key, the result is the operation's output on it) and what the
  applet does (`AppletHolds`: the request carries that path). `TokensDerive` shows that
  the caller and the applet take only the derivation's own steps, so that its invariant
  carries over. For the types, `Asked` adds that a command under way has an operation.

**`TrustZoneProofs`**, from `TrustZoneAssumption` (there is an app; requests are told from errors
and from an empty box) and `DemoAssumption` (the demo's applet is registered and refuses none of
the demo's requests):

- any normal world: `TypeCorrect`, `MailTaken`, `ResultsAnswer`, `ResetsExplained`, `NoOldResult`,
  `RemoteCallImplemented`. One `IInv` serves all: the only
  mail is that of the request being sent and is where the running world will find it
  (`MailIsCurrent`), the applet that runs is the one it is for
  (`AppletIsCurrent`), and, while no reply has failed outright, the only result is the
  current request's (`ResultIsCurrent`). The refinement has one step per action: writing
  the response is `Compute`, the end of `doRequest` is `Return`, what breaks the
  transport or ends the world is `Stop`, all else stutters;
- either image: `WorldsAreClients` shows that both only do what a normal world may do,
  so that all of this holds with them. `DemoGetsItsResultsHolds` needs `DemoHolds`: which function
  the demo is in is the one its request is for, and after it the result it has. If the board resets
  under it, it is in one of its five calls and the mail in the box is that call's;
- how long they take: `RequestsAdvance` (any normal world, either image) counts down from 11 the
  steps of the core before `doRequest` returns, `DemoAlwaysAdvances` from 66 those before the
  demo exits, unless one brings the board down. `MonitorLeft` bounds the way back to the normal
  world: by `MailIsCurrent` and `AppletIsCurrent` the dispatcher has one applet to run while the request
  is being sent, and none afterwards.

**`TrustedBootProofs`**, from `BootAssumption` (there are the slots and bus masters that
`configureTrustZone` names), for any number of them: `TypeCorrect` and
`NormalWorldConfinedHolds`. `NormalWorldConfined` speaks of the end of the
configuration; `LastWritesHold` says at any point of it that a register holds what the last write
of it so far put there. What remains is where that last write is: `TheWrites` gives the
register and value of each place of the sequence, and for every register the place is exhibited after
which it is not written again (`RegionsSettled`, `AccessSettled`, `LevelsSettled`).

Only model-checked:

- liveness (`RxReturns`, `EveryMessageAnswered`, `OpenSessionsEnd`, `RequestsEnd`, `DemoEnds`), which
  is out of the prover's reach. What is proved is what these rest on besides fairness: the counts that
  each step lowers (`RxAdvances`, `LoneAdvances`, `RequestAdvances`, `DemoAdvances`), that
  it is somebody's turn (`LoneTurn`), and that nothing gets lost (`SessionWaitsForOwn`, `NoMessageLost`).
  That the step whose turn it is can be taken, and with fairness is, only TLC shows;
- `ImplementsHidPort` with `Owed`, a fold over the packets under way: what a fold computes for every
  sequence needs induction over data. The refinement that is proved (`ImplementsPort`) maps `want`,
  and `RepliesWhole` ties `want` to the packets;
- the counterexamples of the three violated properties.

## Disagreements met while modelling

Besides the three runs above, these places came up. Where a comment and the code
differ on what is right, the properties leave the case open, and say so:

- `usb/usb.go:114` and `:244` take a first frame to have index 0;
  `ReadFrame` (`:221`) opens a session at any index.
- `apps/apdu.go:11-12` has two codes for an unknown class and an unknown
  instruction; `apps/apps.go:111` answers both with the first.
- `crypto/crypto.go:105` says that the first three components are hardened by default; with the
  parser's flip, the sum at `:120` hardens exactly those that the host had hardened.
  `KeyIsAtWirePath` and `AnswersUseOwnKey` therefore accept both indexes for a component among the
  first three that came without the hardened bit (`IsIndexAsked`), and one index for all others.
- `tz.go:334` says the USB controller is set as Secure; `:335` sets bus master 4 NonSecure.
  `NormalWorldConfined` speaks of all other bus masters and leaves this one open.
- `cleanupHidg` (`gadget_hid.go:57`) drops the result of `cleanup_usbg`, which is `-EINVAL`
  on every path: `-clean` reports success whatever happened. `CleanLeavesNone` is
  stated for a run that got through every gadget.
- A result whose `SendMail` reply failed outright stays in the result box (`tz.go:119`). It
  is returned for a later request whose applet ends without writing one.
  `ResultsAnswerTheirRequest` is therefore stated for runs without such failures.

Two places rest on how the Go compiler behaves: `return mail, callRPC(&mail)` in
`client.go` is taken to call first; buffers grow to capacities 64 and then at least 116.

## Not modelled

- HMAC, BIP32, BIP39, ECDSA, bech32: library cryptography without state.
- USB descriptors and setup requests (`usb.go`, `firmware/usb.go`): tables, and a callback
  that keeps no state.
- Non-secure system calls and the RPC stream: registers and assembly; their
  outcomes are in `TrustZone`.
- Logging, LEDs, debug accessory, certificate generator, generated stringers.

- `TEEToken.DeriveSecret`, which returns zeros and which nothing calls.
- The bytes between the parts as one behaviour: `FirmwareHid` sees the app through its replies,
  `Cosmos` sees a message through what its handlers look at, `Token` sees the transport through
  `RemoteCall`. Each boundary is stated as a property on one side and an assumption on the
  other; a single module over packets, APDUs and mail is out of TLC's reach.
- A second instance of the Linux program beside a first one that serves.
