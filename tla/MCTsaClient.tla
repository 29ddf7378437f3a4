---- MODULE MCTsaClient ----
\* TsaClient with two-byte nonces that need a sign byte, must not lose a
\* byte, or start with a zero.
EXTENDS TsaClient

SomeNonces == {<<128, 0>>, <<0, 1>>, <<0, 128>>}
====
