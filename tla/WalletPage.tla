----------------------------- MODULE WalletPage -----------------------------
(***************************************************************************)
(* The web wallet's "Send coins" form over WalletService.  A form keeps    *)
(* one idempotency key until a transfer is answered with success, so that  *)
(* Send can be pressed again after an answer that never came.              *)
(***************************************************************************)
EXTENDS CoinWallet

CONSTANTS Sender,     \* whose page it is
          MaxEdits    \* bound: times the form is filled in

ASSUME WalletPageConstants == Sender \in Users /\ MaxEdits \in Nat

VARIABLES form,       \* to, coins, sendKey, the request it waits for, the message
          meant       \* history: the edit of the form each pressed key was for

pageVars == <<form, meant>>

Empty == [to |-> Sender, coins |-> 0]
NoCall == [to |-> "nobody"]

\* sendKey, and the number of the edit the fields come from.
PageInit ==
  /\ \E k \in TransferKeys :
       form = [fields |-> Empty, key |-> k, edits |-> 0, waiting |-> NoCall, msg |-> "none"]
  /\ meant = [k \in TransferKeys |-> {}]

Transfers(c) == call[c].op \in {"transfer", "sent"}

\* The fields stay open while a request is out.
Fill(to, n) ==
  /\ form.edits < MaxEdits
  /\ form.fields # [to |-> to, coins |-> n]
  /\ form' = [form EXCEPT !.fields = [to |-> to, coins |-> n], !.edits = @ + 1]
  /\ UNCHANGED <<ledgerVars, coinWalletVars, meant>>

Unpressed == {k \in TransferKeys : meant[k] = {} /\ k # form.key}

\* send: the button is out of action while its request is under way.
Press(c) ==
  /\ form.waiting = NoCall /\ form.fields # Empty
  /\ BeginTransfer(c, Sender, form.fields.to, form.fields.coins, form.key)
  /\ form' = [form EXCEPT !.waiting = [to |-> c], !.msg = "none"]
  /\ meant' = [meant EXCEPT ![form.key] = @ \cup {form.edits}]

\* "next send is a new transfer": the answer clears the form and draws a key.
Told(c) ==
  /\ form.waiting = [to |-> c] /\ call[c].op = "sent"
  /\ \E k \in Unpressed :
       form' = [form EXCEPT !.fields = Empty, !.key = k, !.edits = @ + 1,
                            !.waiting = NoCall, !.msg = "sent"]
  /\ EndCall(c)
  /\ UNCHANGED meant

\* Mutant: the next press is a new transfer after an error, too.
GivenUpWithNewKey(c) ==
  /\ form.waiting = [to |-> c]
  /\ \E k \in Unpressed :
       form' = [form EXCEPT !.key = k, !.waiting = NoCall, !.msg = "error"]
  /\ EndCall(c) \/ UNCHANGED <<ledgerVars, coinWalletVars>>
  /\ UNCHANGED meant

\* An error, from the server or from a connection that broke: then the request
\* goes on without anybody waiting for it.
GivenUp(c) ==
  /\ form.waiting = [to |-> c]
  /\ form' = [form EXCEPT !.waiting = NoCall, !.msg = "error"]
  /\ EndCall(c) \/ UNCHANGED <<ledgerVars, coinWalletVars>>
  /\ UNCHANGED meant

\* The server's steps.
Serve(c) ==
  /\ CommitTransfer(c) \/ ReplayTransfer(c)
  /\ UNCHANGED pageVars

\* A request nobody waits for comes to its end, answered or with its process.
Forgotten(c) ==
  /\ Transfers(c) /\ form.waiting # [to |-> c]
  /\ EndCall(c)
  /\ UNCHANGED pageVars

PageNext ==
  \/ \E to \in Users \ {Sender}, n \in TransferAmounts : Fill(to, n)
  \/ \E c \in Calls : Press(c) \/ Told(c) \/ GivenUp(c) \/ Serve(c) \/ Forgotten(c)

\* Whatever else the service does meanwhile, for this user or for others.
Meanwhile ==
  /\ WalletNext
  /\ form.waiting # NoCall => call'[form.waiting.to] = call[form.waiting.to]
  /\ UNCHANGED pageVars

PageSpec ==
  WalletStart /\ PageInit /\ [][PageNext \/ Meanwhile]_<<ledgerVars, coinWalletVars, pageVars>>

-----------------------------------------------------------------------------
(* Properties.                                                             *)

MovedBy(i) == {k \in TransferKeys : i \in meant[k] /\ OutKey(Sender, k) \in Keys}

\* One filled-in form moves coins at most once, however often Send is pressed after
\* answers that were lost or late (send, "next send is a new transfer"; transfer).
OncePerForm == \A i \in 0..(MaxEdits + Cardinality(TransferKeys)) : Cardinality(MovedBy(i)) <= 1

=============================================================================
