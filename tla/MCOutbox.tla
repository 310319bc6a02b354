------------------------------ MODULE MCOutbox ------------------------------
\* Two publishers over two messages.  m1 has a handler of its own before the
\* wildcard one, m2 only the wildcard.
EXTENDS Outbox, TLC

CONSTANTS m1, m2, hOwn, hAny

MCHandlersOf == (m1 :> <<hOwn, hAny>>) @@ (m2 :> <<hAny>>)
=============================================================================
