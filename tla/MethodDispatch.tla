---------------------------- MODULE MethodDispatch ----------------------------
(***************************************************************************)
(* What a SOM program is promised about a message send: one step that runs *)
(* the method its receiver has for the message, whatever was sent from     *)
(* that site before and however the layout of the receiver changed since.  *)
(***************************************************************************)
CONSTANTS Sends,    \* pairs of a send site and an object that may be sent to
          Answers,  \* for each of them, the method that has to run
          NoSend,
          NoAnswer

VARIABLES pending,  \* the send being executed
          answered  \* the method that ran last

mdVars == <<pending, answered>>

MDInit == pending = NoSend /\ answered = NoAnswer

Send(send) == /\ pending = NoSend
              /\ pending' = send
              /\ answered' = NoAnswer

Dispatch == /\ pending # NoSend
            /\ pending' = NoSend
            /\ answered' = Answers[pending]

MDNext == Dispatch \/ \E send \in Sends : Send(send)

MDSafety == MDInit /\ [][MDNext]_mdVars
===============================================================================
