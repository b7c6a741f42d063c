------------------------------- MODULE Config --------------------------------
(***************************************************************************)
(* The boot of a binary up to its first log line: ./.env, the layers of    *)
(* Config::load, the typed tree, validate (common/src/config.rs), then the *)
(* verbosity of telemetry::init.  The application and the migration CLI    *)
(* load on one host, from one working directory and one environment.       *)
(*                                                                         *)
(* A scalar is a text and the number that text reads as, -1 if none.  A    *)
(* source is a function from the keys it sets to scalars, nested keys kept *)
(* flat.  Keys that nothing checks (identity, user, database name, idle    *)
(* time, lifetime, bound interface) are like "database.host" and left out. *)
(* The crates config and dotenvy are external.                             *)
(***************************************************************************)
EXTENDS Integers

CONSTANTS
    Binaries,           \* the executables that load
    Files, Environs,    \* what a file, and the inherited environment, may hold
    Missing, Malformed, \* a file that is not there, or does not parse
    Default,            \* layer 1
    Limit               \* the largest number of each key's type

Numbers == {"server.port", "server.timeout", "pool.max_connections",
            "pool.min_connections", "pool.connect_timeout", "pool.acquire_timeout"}
Keys    == Numbers \cup {"database.host", "database.password", "environment", "debug"}

ASSUME ConfigAssumption ==
    /\ DOMAIN Default = Keys
    /\ Default["database.password"].text = "root"
    /\ Limit \in [Numbers -> Nat]
    /\ {Missing, Malformed} \subseteq Files

VARIABLES
    etc,      \* /etc/<name>/app-config.json of each binary
    cwd,      \* ./app-config.json
    dotenv,   \* ./.env
    environ,  \* the environment each process inherits
    env,      \* the environment of each process
    step,     \* how far each boot came
    tree,     \* its merged layers, then its typed configuration
    level     \* the verbosity of its log

sources == <<etc, cwd, dotenv, environ>>
vars    == <<sources, env, step, tree, level>>

Nothing == [k \in {} |-> 0]

(* What f says, and what g says of the keys f leaves. *)
Over(f, g) ==
    [k \in DOMAIN f \cup DOMAIN g |-> IF k \in DOMAIN f THEN f[k] ELSE g[k]]

Read(file) == IF file = Missing THEN Nothing ELSE file

Init ==
    /\ etc \in [Binaries -> Files] /\ cwd \in Files /\ dotenv \in Files
    /\ environ \in Environs
    /\ env = [b \in Binaries |-> environ]
    /\ step = [b \in Binaries |-> "dotenv"]
    /\ tree = [b \in Binaries |-> Nothing]
    /\ level = [b \in Binaries |-> "none"]

Becomes(b, s) == step' = [step EXCEPT ![b] = s]

(* Bug variant: dotenvy::from_path_override. *)
LoadDotenvOverrides(b) ==
    /\ step[b] = "dotenv" /\ dotenv # Malformed
    /\ env' = [env EXCEPT ![b] = Over(Read(dotenv), @)]
    /\ Becomes(b, "load")
    /\ UNCHANGED <<sources, tree, level>>

(* What is set in the environment already stays as it is. *)
LoadDotenv(b) ==
    /\ step[b] = "dotenv" /\ dotenv # Malformed
    /\ env' = [env EXCEPT ![b] = Over(@, Read(dotenv))]
    /\ Becomes(b, "load")
    /\ UNCHANGED <<sources, tree, level>>

LoadDotenvFails(b) ==
    /\ step[b] = "dotenv" /\ dotenv = Malformed
    /\ Becomes(b, "aborted")
    /\ UNCHANGED <<sources, env, tree, level>>

(* The APP_* variables: RUST_LOG is none. *)
AppVars(e) == [k \in DOMAIN e \ {"RUST_LOG"} |-> e[k]]

(* Config::builder: each source overrides the layers before it, key by key. *)
Build(b) ==
    /\ step[b] = "load" /\ Malformed \notin {etc[b], cwd}
    /\ tree' = [tree EXCEPT ![b] =
                  Over(AppVars(env[b]), Over(Read(cwd), Over(Read(etc[b]), Default)))]
    /\ Becomes(b, "built")
    /\ UNCHANGED <<sources, env, level>>

BuildFails(b) ==
    /\ step[b] = "load" /\ Malformed \in {etc[b], cwd}
    /\ Becomes(b, "aborted")
    /\ UNCHANGED <<sources, env, tree, level>>

(* native_or_string, and the strict enum of environments. *)
Parses(k, scalar) ==
    CASE k \in Numbers -> scalar.number \in 0..Limit[k]
      [] k = "environment" ->
           scalar.text \in {"local", "development", "staging", "production"}
      [] k = "debug" -> scalar.text \in {"true", "false"}
      [] OTHER -> TRUE

(* Only the numeric settings are read as numbers; a password keeps its text. *)
Typed(k, scalar) == IF k \in Numbers THEN scalar.number ELSE scalar.text

(* deny_unknown_fields, and only then the types of what was merged. *)
Deserializes(t) == DOMAIN t = Keys /\ \A k \in Keys : Parses(k, t[k])

Deserialize(b) ==
    /\ step[b] = "built" /\ Deserializes(tree[b])
    /\ tree' = [tree EXCEPT ![b] = [k \in Keys |-> Typed(k, @[k])]]
    /\ Becomes(b, "typed")
    /\ UNCHANGED <<sources, env, level>>

DeserializeFails(b) ==
    /\ step[b] = "built" /\ ~Deserializes(tree[b])
    /\ Becomes(b, "aborted")
    /\ UNCHANGED <<sources, env, tree, level>>

(* Bug variant: the pool is checked before the other sources set its size. *)
ValidPerKey(c) ==
    /\ c["server.timeout"] > 0
    /\ c["pool.connect_timeout"] > 0 /\ c["pool.acquire_timeout"] > 0
    /\ c["pool.min_connections"] <= Default["pool.max_connections"].number
    /\ c["environment"] = "production" => c["database.password"] # "root"

Valid(c) ==
    /\ c["server.timeout"] > 0
    /\ c["pool.connect_timeout"] > 0 /\ c["pool.acquire_timeout"] > 0
    /\ c["pool.min_connections"] <= c["pool.max_connections"]
    /\ c["environment"] = "production" => c["database.password"] # "root"

Validate(b) ==
    /\ step[b] = "typed" /\ Valid(tree[b])
    /\ Becomes(b, "loaded")
    /\ UNCHANGED <<sources, env, tree, level>>

ValidateFails(b) ==
    /\ step[b] = "typed" /\ ~Valid(tree[b])
    /\ Becomes(b, "aborted")
    /\ UNCHANGED <<sources, env, tree, level>>

(* telemetry::init: RUST_LOG wins over the flag.  An invalid directive is  *)
(* as good as none (from_env_lossy).                                       *)
InitTelemetry(b) ==
    /\ step[b] = "loaded"
    /\ level' = [level EXCEPT ![b] =
                   IF "RUST_LOG" \in DOMAIN env[b] /\ env[b]["RUST_LOG"].text # "invalid"
                   THEN env[b]["RUST_LOG"].text
                   ELSE IF tree[b]["debug"] = "true" THEN "debug" ELSE "info"]
    /\ Becomes(b, "booting")
    /\ UNCHANGED <<sources, env, tree>>

Boot(b) ==
    \/ LoadDotenv(b) \/ LoadDotenvFails(b) \/ Build(b) \/ BuildFails(b)
    \/ Deserialize(b) \/ DeserializeFails(b) \/ Validate(b) \/ ValidateFails(b)
    \/ InitTelemetry(b)

Ended == (\A b \in Binaries : step[b] \in {"booting", "aborted"}) /\ UNCHANGED vars

Next == (\E b \in Binaries : Boot(b)) \/ Ended

Spec == Init /\ [][Next]_vars

-----------------------------------------------------------------------------
(* Properties *)

Loaded(b) == step[b] \in {"loaded", "booting"}

(* The sources of a boot, the most specific first. *)
Ranked(b) == <<AppVars(environ), AppVars(Read(dotenv)), Read(cwd), Read(etc[b]), Default>>

(* Where the verbosity comes from, if the operator asked for one. *)
Asked == IF "RUST_LOG" \in DOMAIN environ THEN environ ELSE Read(dotenv)

(* No source is silently ignored or half-read: a boot that loads found     *)
(* each well formed and without an unknown key, every setting is what the  *)
(* most specific source that has it says, text for text, and RUST_LOG,     *)
(* inherited or from .env, decides the verbosity before the debug flag.    *)
SourcesObeyed ==
    \A b \in Binaries : Loaded(b) =>
        /\ Malformed \notin {dotenv, etc[b], cwd}
        /\ \A i \in 1..5 : DOMAIN Ranked(b)[i] \subseteq Keys
        /\ \A k \in Keys : \E i \in 1..5 :
             /\ k \in DOMAIN Ranked(b)[i]
             /\ tree[b][k] = IF k \in Numbers THEN Ranked(b)[i][k].number
                                              ELSE Ranked(b)[i][k].text
             /\ \A j \in 1..(i - 1) : k \notin DOMAIN Ranked(b)[j]
        /\ step[b] = "booting" /\ "RUST_LOG" \in DOMAIN Asked
             /\ Asked["RUST_LOG"].text # "invalid"
             => level[b] = Asked["RUST_LOG"].text

(* What loads can serve, however the sources combine: numbers fit their    *)
(* types, no timeout is zero, the pool's bounds are in order though two    *)
(* sources may set them, and in production some source, not the template,  *)
(* chose the password.                                                     *)
BootsUsable ==
    \A b \in Binaries : Loaded(b) =>
        /\ \A k \in Numbers : tree[b][k] \in 0..Limit[k]
        /\ \A k \in {"server.timeout", "pool.connect_timeout", "pool.acquire_timeout"} :
             tree[b][k] # 0
        /\ tree[b]["pool.min_connections"] \in 0..tree[b]["pool.max_connections"]
        /\ tree[b]["environment"] = "production" =>
             \E i \in 1..4 : /\ "database.password" \in DOMAIN Ranked(b)[i]
                             /\ Ranked(b)[i]["database.password"].text # "root"

(* "The CLI reaches the exact same database, with the same pool settings,  *)
(* as the API" (migration/src/main.rs).                                    *)
SameDatabase ==
    \A a, b \in Binaries : Loaded(a) /\ Loaded(b) =>
        \A k \in Keys \ {"environment", "debug", "server.port", "server.timeout"} :
            tree[a][k] = tree[b][k]

=============================================================================
