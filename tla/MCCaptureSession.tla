-------------------------- MODULE MCCaptureSession --------------------------
(* Small sessions for CaptureSession. *)
EXTENDS CaptureSession

CONSTANT LastCall   \* calls are 1..LastCall

SomeCalls == 1..LastCall

OwnInputs == [c \in SomeCalls |-> <<"i", c>>]
OwnInputSet == {<<"i", c>> : c \in SomeCalls}
OneFile == [c \in SomeCalls |-> {"f"}]
NoFile == [c \in SomeCalls |-> {}]
OddCalls == {c \in SomeCalls : c % 2 = 1}
=============================================================================
