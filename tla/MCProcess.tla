------------------------------ MODULE MCProcess ------------------------------
(* Instances of Process for TLC. *)
EXTENDS Process, TLC

Text(c, p, r) == [colon |-> c, port |-> p, resolves |-> r]

\* Arguments that are no address have no colon.  A port sscanf cannot read is 0.
MCAddressText ==
  [a \in Option \cup {"--help", "", "f", "g", "host"} |-> Text(FALSE, 0, FALSE)]
  @@ ("host:0" :> Text(TRUE, 0, TRUE) @@ "host:1" :> Text(TRUE, 1, TRUE)
      @@ "host:65534" :> Text(TRUE, 65534, TRUE) @@ "host:65535" :> Text(TRUE, 65535, TRUE)
      @@ "nobody:1" :> Text(TRUE, 1, FALSE))

\* Every list of at most four arguments with two kinds of value each, and every
\* address alone.
Args == {"--server", "--bind", "--secret", "--log", "host:1", "f"}
MCCommandLine == UNION {[1 .. n -> Args] : n \in 0 .. 4}
                 \cup {<<o, a>> : o \in {"--server", "--bind"}, a \in DOMAIN MCAddressText}
                 \cup {<<"--bind", "host:1", "--help">>, <<"--server", "host:1", "--log", "">>,
                       <<"--log", "f", "--log", "g", "--bind", "host:1">>}
\* Any argument can be the name of a log file.
MCTarget == Args \cup {"g"}
=============================================================================
