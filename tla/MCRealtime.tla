------------------------------- MODULE MCRealtime -------------------------------
EXTENDS Realtime
CONSTANTS a, k, pub, own
MCSees == {<<a, pub>>, <<k, pub>>, <<a, own>>}
================================================================================
