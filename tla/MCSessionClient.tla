--------------------------- MODULE MCSessionClient ---------------------------
EXTENDS SessionClient
MCKind(r) == CASE r = "t" -> "tcp" [] r = "u" -> "udp" [] OTHER -> "ping"
MCPlans == {{}, {"t"}, {"u", "p"}}
MCQPlans == {{}, {"u"}, {"t", "p"}}
=============================================================================
