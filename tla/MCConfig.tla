------------------------------ MODULE MCConfig ------------------------------
(* Instances of Config for TLC: each source holds nothing, one setting or  *)
(* two, among those that something in the load tells apart.                *)
EXTENDS Config, TLC

CONSTANTS app, cli

Number(n) == [text |-> ToString(n), number |-> n]
Word(w)   == [text |-> w, number |-> -1]
Digits    == [text |-> "0123", number |-> 123]

MCApp  == {app}
MCBoth == {app, cli}

(* Scaled: a pool of 10 for 100, and 10 is past the last port. *)
MCLimit == [k \in Numbers |-> IF k = "server.port" THEN 9 ELSE 200]

MCDefault ==
    [k \in Numbers |-> Number(CASE k = "server.port" -> 8
                                [] k = "server.timeout" -> 30
                                [] k = "pool.max_connections" -> 10
                                [] k = "pool.min_connections" -> 5
                                [] OTHER -> 8)]
    @@ ("database.host" :> Word("localhost") @@ "database.password" :> Word("root"))
    @@ ("environment" :> Word("local") @@ "debug" :> Word("false"))

MCSettings == {
    Nothing,
    "server.port" :> Number(9), "server.port" :> Number(10),
    "server.timeout" :> Number(0),
    "pool.acquire_timeout" :> Word("soon"),
    "pool.max_connections" :> Number(4), "pool.min_connections" :> Number(4),
    "database.password" :> Digits,
    "database.password" :> Word("root") @@ "environment" :> Word("production"),
    "environment" :> Word("Production"),
    "database.pasword" :> Digits,
    "debug" :> Word("true")}

MCFiles    == MCSettings \cup {Missing, Malformed, "RUST_LOG" :> Word("trace")}
MCEnvirons == MCSettings \cup {"RUST_LOG" :> Word("warn"), "RUST_LOG" :> Word("invalid")}

(* Sources of the two binaries: nobody has set a thing, or the database.   *)
MCHosts == {Missing, Malformed, "database.host" :> Word("db")}
MCPlain == {Nothing, "database.host" :> Word("db")}
=============================================================================
