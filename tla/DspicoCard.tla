----------------------------- MODULE DspicoCard -----------------------------
(***************************************************************************)
(* The DSpico firmware adapter (overlay/src/gekkopakNtr.cpp) over the      *)
(* device core.  A command of the console is handled within the card       *)
(* interrupt: F0, F1, F2, F3 and F5 call the core directly; F4 is checked  *)
(* before its data phase is accepted, and its block is processed when all  *)
(* of it has arrived.  Four counters tell the console what became of its   *)
(* F4 commands.                                                            *)
(***************************************************************************)
EXTENDS GekkoDevice

CONSTANT
  F4Mod        \* the number of values of a counter, 2^32 in the code

ASSUME CardAssumption == F4Mod \in Nat \ {0}

VARIABLE
  f4           \* sF4Enter, sF4Accepted, sF4Complete, sF4Parsed

cardVars == <<vars, f4>>

NoF4 == [enter |-> 0, accepted |-> 0, complete |-> 0, parsed |-> 0]

Increment(n) == (n + 1) % F4Mod

CardInit == Init /\ f4 = NoF4

(* gekkopak_ntr_reset.                                                     *)
CardReset == Reset /\ f4' = NoF4

(* What the adapter asks of an F4 command before it accepts its data.      *)
(* Deviation: the length is left to the core.                              *)
AcceptableSelector(w) == w.selector = 0

Acceptable(w) == w.selector = 0 /\ w.len # 0 /\ w.len <= BlockBytes

(* A transfer w as the core gets it: n bytes of it were received.          *)
Supplied(w, n) ==
  [selector |-> w.selector, len |-> w.len, supplied |-> n, images |-> w.images]

(* The refusal is routed through the core, with no data.                   *)
RefuseF4(w) ==
  /\ ~Acceptable(w)
  /\ WriteBlock(Supplied(w, 0))
  /\ f4' = [f4 EXCEPT !.enter = Increment(@)]

(* The command, its data phase and blockWriteComplete up to the core.      *)
TakeF4(w) ==
  /\ Acceptable(w)
  /\ WriteBlock(Supplied(w, BlockBytes))
  /\ f4' = [f4 EXCEPT !.enter = Increment(@), !.accepted = Increment(@),
                      !.complete = Increment(@)]

(* An F4 without the discriminator is counted and dropped.                 *)
ForeignF4 ==
  /\ phase = "idle"
  /\ f4' = [f4 EXCEPT !.enter = Increment(@)]
  /\ UNCHANGED vars

WriteBlockCmd1(w) == RefuseF4(w) \/ TakeF4(w)

(* The core on its way through the block, and sF4Parsed at its end.        *)
CardProcess ==
  /\ Process
  /\ f4' = IF phase' = "idle" /\ stage'["Result"] = Ok
           THEN [f4 EXCEPT !.parsed = Increment(@)] ELSE f4

CardNext ==
  \/ \E rv \in RegWrites : WriteReg(rv[1], rv[2]) /\ UNCHANGED f4
  \/ \E iv \in PayloadWrites : WritePayloadWord(iv[1], iv[2]) /\ UNCHANGED f4
  \/ \E command \in Commands : Exec(command) /\ UNCHANGED f4
  \/ (\E w \in Blocks : WriteBlockCmd1(w)) \/ ForeignF4
  \/ CardProcess
  \/ \E q \in Reads : ReadBlock(q) /\ UNCHANGED f4
  \/ CardReset

CardSpec == CardInit /\ [][CardNext]_cardVars
-----------------------------------------------------------------------------
Decided(w) ==
  /\ f4'.accepted = f4.accepted => stage'["Result"] = BadBlock /\ CoreNow' = CoreNow
  /\ f4'.accepted # f4.accepted => phase' = "parse"

EveryF4Decided == \A w \in Blocks : WriteBlockCmd1(w) => Decided(w)

(* The adapter and the core agree on which F4 commands are refused: one    *)
(* the adapter turns away is answered BadBlock by the core and changes     *)
(* nothing, and one whose 512 bytes were taken is always parsed            *)
(* (gekkopakNtr.cpp:184-208, device.cpp:489-499).                          *)
F4Agrees == [][EveryF4Decided]_cardVars
=============================================================================
