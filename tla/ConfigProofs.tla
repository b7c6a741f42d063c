---------------------------- MODULE ConfigProofs ----------------------------
(* Proofs about Config, for any sources: what a boot holds at each step is *)
(* a function of the sources alone, and a boot that loads obeys them all.  *)
EXTENDS Config, TLAPS

(* The layers of a boot, as its sources determine them. *)
Merged(b) ==
    Over(AppVars(Over(environ, Read(dotenv))),
         Over(Read(cwd), Over(Read(etc[b]), Default)))

Final(b) == [k \in Keys |-> Typed(k, Merged(b)[k])]

Past(b, steps) == step[b] \in steps

(* Of a boot that has not aborted: what it read was well formed, its tree  *)
(* is that of the sources, and each check it passed holds of that tree.    *)
EnvInv ==
    /\ DOMAIN env = Binaries /\ DOMAIN step = Binaries
    /\ DOMAIN tree = Binaries /\ DOMAIN level = Binaries
    /\ \A b \in Binaries :
         /\ Past(b, {"dotenv", "load", "built", "typed", "loaded", "booting", "aborted"})
         /\ Past(b, {"dotenv"}) => env[b] = environ
         /\ Past(b, {"load", "built", "typed", "loaded", "booting"}) =>
              dotenv # Malformed /\ env[b] = Over(environ, Read(dotenv))

TreeInv ==
    \A b \in Binaries :
        /\ Past(b, {"built", "typed", "loaded", "booting"}) =>
             Malformed \notin {etc[b], cwd}
        /\ Past(b, {"built"}) => tree[b] = Merged(b)
        /\ Past(b, {"typed", "loaded", "booting"}) =>
             Deserializes(Merged(b)) /\ tree[b] = Final(b)
        /\ Past(b, {"loaded", "booting"}) => Valid(tree[b])
        /\ Past(b, {"booting"}) /\ "RUST_LOG" \in DOMAIN env[b]
             /\ env[b]["RUST_LOG"].text # "invalid"
             => level[b] = env[b]["RUST_LOG"].text

Inv == EnvInv /\ TreeInv

LEMMA Start == Init => Inv
  BY DEF Init, Inv, EnvInv, TreeInv, Past

LEMMA EnvStep == Inv /\ [Next]_vars => EnvInv'
  <1> SUFFICES ASSUME Inv, [Next]_vars PROVE EnvInv'
    OBVIOUS
  <1> USE DEF Inv, EnvInv, Past, Becomes, sources
  <1>1. CASE UNCHANGED vars
    BY <1>1 DEF vars
  <1>2. CASE Ended
    BY <1>2 DEF Ended, vars
  <1>3. ASSUME NEW b \in Binaries, Boot(b) PROVE EnvInv'
    <2>1. CASE LoadDotenv(b)
      BY <2>1 DEF LoadDotenv
    <2>2. CASE LoadDotenvFails(b) \/ BuildFails(b) \/ DeserializeFails(b) \/ ValidateFails(b)
      BY <2>2 DEF LoadDotenvFails, BuildFails, DeserializeFails, ValidateFails
    <2>3. CASE Build(b) \/ Deserialize(b)
      BY <2>3 DEF Build, Deserialize
    <2>4. CASE Validate(b) \/ InitTelemetry(b)
      BY <2>4 DEF Validate, InitTelemetry
    <2> QED
      BY <1>3, <2>1, <2>2, <2>3, <2>4 DEF Boot
  <1> QED
    BY <1>1, <1>2, <1>3 DEF Next

LEMMA TreeStep == Inv /\ [Next]_vars => TreeInv'
  <1> SUFFICES ASSUME Inv, [Next]_vars PROVE TreeInv'
    OBVIOUS
  <1> USE DEF Inv, EnvInv, TreeInv, Past, Becomes, sources, Merged, Final
  <1>1. CASE UNCHANGED vars
    BY <1>1 DEF vars
  <1>2. CASE Ended
    BY <1>2 DEF Ended, vars
  <1>3. ASSUME NEW b \in Binaries, Boot(b) PROVE TreeInv'
    <2>1. CASE LoadDotenv(b)
      BY <2>1 DEF LoadDotenv
    <2>2. CASE LoadDotenvFails(b) \/ BuildFails(b) \/ DeserializeFails(b) \/ ValidateFails(b)
      BY <2>2 DEF LoadDotenvFails, BuildFails, DeserializeFails, ValidateFails
    <2>3. CASE Build(b)
      BY <2>3 DEF Build
    <2>4. CASE Deserialize(b)
      BY <2>4 DEF Deserialize
    <2>5. CASE Validate(b)
      BY <2>5 DEF Validate
    <2>6. CASE InitTelemetry(b)
      BY <2>6 DEF InitTelemetry
    <2> QED
      BY <1>3, <2>1, <2>2, <2>3, <2>4, <2>5, <2>6 DEF Boot
  <1> QED
    BY <1>1, <1>2, <1>3 DEF Next

LEMMA Invariance == Spec => []Inv
  <1>1. Inv /\ [Next]_vars => Inv'
    BY EnvStep, TreeStep DEF Inv
  <1> QED
    BY Start, <1>1, PTL DEF Spec

-----------------------------------------------------------------------------
(* What the merged layers say of a key is what its most specific source    *)
(* says: .env and the environment are merged before the others see them.   *)
LEMMA MergeIsRanked ==
  ASSUME NEW b
  PROVE  /\ DOMAIN Merged(b) = DOMAIN AppVars(environ) \cup DOMAIN AppVars(Read(dotenv))
              \cup DOMAIN Read(cwd) \cup DOMAIN Read(etc[b]) \cup DOMAIN Default
         /\ \A k \in DOMAIN Merged(b) : \E i \in 1..5 :
              /\ k \in DOMAIN Ranked(b)[i] /\ Merged(b)[k] = Ranked(b)[i][k]
              /\ \A j \in 1..(i - 1) : k \notin DOMAIN Ranked(b)[j]
  <1> DEFINE e == AppVars(environ)
             d == AppVars(Read(dotenv))
             v == AppVars(Over(environ, Read(dotenv)))
             c == Read(cwd)
             s == Read(etc[b])
  <1>1. /\ DOMAIN v = DOMAIN e \cup DOMAIN d
        /\ \A k \in DOMAIN v : v[k] = IF k \in DOMAIN e THEN e[k] ELSE d[k]
    BY DEF Over, AppVars
  <1>2. Ranked(b) = <<e, d, c, s, Default>> /\ Merged(b) = Over(v, Over(c, Over(s, Default)))
    BY DEF Ranked, Merged
  <1> HIDE DEF e, d, v, c, s
  <1>3. DOMAIN Merged(b) = DOMAIN v \cup DOMAIN c \cup DOMAIN s \cup DOMAIN Default
    BY <1>2 DEF Over
  <1>4. ASSUME NEW k \in DOMAIN Merged(b)
        PROVE  \E i \in 1..5 :
                 /\ k \in DOMAIN Ranked(b)[i] /\ Merged(b)[k] = Ranked(b)[i][k]
                 /\ \A j \in 1..(i - 1) : k \notin DOMAIN Ranked(b)[j]
    <2>1. CASE k \in DOMAIN e
      <3>1. Merged(b)[k] = Ranked(b)[1][k] /\ k \in DOMAIN Ranked(b)[1]
        BY <2>1, <1>1, <1>2, <1>4 DEF Over
      <3> QED
        BY <3>1
    <2>2. CASE k \notin DOMAIN e /\ k \in DOMAIN d
      <3>1. Merged(b)[k] = Ranked(b)[2][k] /\ k \in DOMAIN Ranked(b)[2]
        BY <2>2, <1>1, <1>2, <1>4 DEF Over
      <3>2. \A j \in 1..1 : k \notin DOMAIN Ranked(b)[j]
        BY <2>2, <1>2
      <3> QED
        BY <3>1, <3>2
    <2>3. CASE k \notin DOMAIN v /\ k \in DOMAIN c
      <3>1. Merged(b)[k] = Ranked(b)[3][k] /\ k \in DOMAIN Ranked(b)[3]
        BY <2>3, <1>2, <1>4 DEF Over
      <3>2. \A j \in 1..2 : k \notin DOMAIN Ranked(b)[j]
        BY <2>3, <1>1, <1>2
      <3> QED
        BY <3>1, <3>2
    <2>4. CASE k \notin DOMAIN v /\ k \notin DOMAIN c /\ k \in DOMAIN s
      <3>1. Merged(b)[k] = Ranked(b)[4][k] /\ k \in DOMAIN Ranked(b)[4]
        BY <2>4, <1>2, <1>4 DEF Over
      <3>2. \A j \in 1..3 : k \notin DOMAIN Ranked(b)[j]
        BY <2>4, <1>1, <1>2
      <3> QED
        BY <3>1, <3>2
    <2>5. CASE k \notin DOMAIN v /\ k \notin DOMAIN c /\ k \notin DOMAIN s
      <3>1. Merged(b)[k] = Ranked(b)[5][k] /\ k \in DOMAIN Ranked(b)[5]
        BY <2>5, <1>2, <1>3, <1>4 DEF Over
      <3>2. \A j \in 1..4 : k \notin DOMAIN Ranked(b)[j]
        BY <2>5, <1>1, <1>2
      <3> QED
        BY <3>1, <3>2
    <2> QED
      BY <1>1, <2>1, <2>2, <2>3, <2>4, <2>5
  <1>5. DOMAIN Merged(b) = DOMAIN e \cup DOMAIN d \cup DOMAIN c \cup DOMAIN s \cup DOMAIN Default
    BY <1>1, <1>3
  <1> QED
    BY <1>4, <1>5 DEF e, d, c, s

(* What a loaded boot holds is Final, of layers that deserialize. *)
LEMMA LoadedTree ==
  ASSUME Inv, NEW b \in Binaries, Loaded(b)
  PROVE  /\ Deserializes(Merged(b)) /\ tree[b] = Final(b) /\ Valid(tree[b])
         /\ Malformed \notin {dotenv, etc[b], cwd}
         /\ env[b] = Over(environ, Read(dotenv))
  BY DEF Inv, EnvInv, TreeInv, Past, Loaded

LEMMA InvObeys == Inv => SourcesObeyed
  <1> SUFFICES ASSUME Inv, NEW b \in Binaries, Loaded(b)
               PROVE  /\ Malformed \notin {dotenv, etc[b], cwd}
                      /\ \A i \in 1..5 : DOMAIN Ranked(b)[i] \subseteq Keys
                      /\ \A k \in Keys : \E i \in 1..5 :
                           /\ k \in DOMAIN Ranked(b)[i]
                           /\ tree[b][k] = IF k \in Numbers THEN Ranked(b)[i][k].number
                                                            ELSE Ranked(b)[i][k].text
                           /\ \A j \in 1..(i - 1) : k \notin DOMAIN Ranked(b)[j]
                      /\ step[b] = "booting" /\ "RUST_LOG" \in DOMAIN Asked
                           /\ Asked["RUST_LOG"].text # "invalid"
                           => level[b] = Asked["RUST_LOG"].text
    BY DEF SourcesObeyed
  <1>1. DOMAIN Merged(b) = Keys /\ tree[b] = Final(b)
    BY LoadedTree DEF Deserializes
  <1>2. ASSUME NEW i \in 1..5 PROVE DOMAIN Ranked(b)[i] \subseteq Keys
    <2>1. i = 1 \/ i = 2 \/ i = 3 \/ i = 4 \/ i = 5
      OBVIOUS
    <2>2. DOMAIN Merged(b) = DOMAIN AppVars(environ) \cup DOMAIN AppVars(Read(dotenv))
            \cup DOMAIN Read(cwd) \cup DOMAIN Read(etc[b]) \cup DOMAIN Default
      BY MergeIsRanked
    <2>3. /\ Ranked(b)[1] = AppVars(environ) /\ Ranked(b)[2] = AppVars(Read(dotenv))
          /\ Ranked(b)[3] = Read(cwd) /\ Ranked(b)[4] = Read(etc[b]) /\ Ranked(b)[5] = Default
      BY DEF Ranked
    <2> QED
      BY <1>1, <2>1, <2>2, <2>3
  <1>3. ASSUME NEW k \in Keys
        PROVE  \E i \in 1..5 :
                 /\ k \in DOMAIN Ranked(b)[i]
                 /\ tree[b][k] = IF k \in Numbers THEN Ranked(b)[i][k].number
                                                  ELSE Ranked(b)[i][k].text
                 /\ \A j \in 1..(i - 1) : k \notin DOMAIN Ranked(b)[j]
    <2>1. PICK i \in 1..5 : /\ k \in DOMAIN Ranked(b)[i] /\ Merged(b)[k] = Ranked(b)[i][k]
                            /\ \A j \in 1..(i - 1) : k \notin DOMAIN Ranked(b)[j]
      BY <1>1, MergeIsRanked
    <2>2. tree[b][k] = Typed(k, Ranked(b)[i][k])
      BY <1>1, <2>1 DEF Final
    <2> QED
      BY <2>1, <2>2 DEF Typed
  <1>4. ASSUME step[b] = "booting", "RUST_LOG" \in DOMAIN Asked,
               Asked["RUST_LOG"].text # "invalid"
        PROVE  level[b] = Asked["RUST_LOG"].text
    <2>1. "RUST_LOG" \in DOMAIN env[b] /\ env[b]["RUST_LOG"] = Asked["RUST_LOG"]
      BY <1>4, LoadedTree DEF Over, Asked
    <2> QED
      BY <1>4, <2>1 DEF Inv, TreeInv, Past
  <1> QED
    BY <1>2, <1>3, <1>4, LoadedTree

(* No boot that loads ignores, half-reads or reorders one of its sources,  *)
(* whatever they say (SourcesObeyed).                                      *)
THEOREM EverySourceObeyed == Spec => []SourcesObeyed
  BY Invariance, InvObeys, PTL

LEMMA InvUsable == Inv => BootsUsable
  <1> SUFFICES ASSUME Inv, NEW b \in Binaries, Loaded(b)
               PROVE  /\ \A k \in Numbers : tree[b][k] \in 0..Limit[k]
                      /\ \A k \in {"server.timeout", "pool.connect_timeout",
                                   "pool.acquire_timeout"} : tree[b][k] # 0
                      /\ tree[b]["pool.min_connections"]
                           \in 0..tree[b]["pool.max_connections"]
                      /\ tree[b]["environment"] = "production" =>
                           \E i \in 1..4 :
                             /\ "database.password" \in DOMAIN Ranked(b)[i]
                             /\ Ranked(b)[i]["database.password"].text # "root"
    BY DEF BootsUsable
  <1>1. ASSUME NEW k \in Numbers PROVE tree[b][k] \in 0..Limit[k]
    <2>1. k \in Keys /\ Parses(k, Merged(b)[k])
      BY LoadedTree DEF Deserializes, Keys
    <2>2. tree[b][k] = Merged(b)[k].number
      BY LoadedTree, <2>1 DEF Final, Typed
    <2>3. k # "environment" /\ k # "debug"
      BY DEF Numbers
    <2> QED
      BY <2>1, <2>2, <2>3 DEF Parses
  <1>2. Valid(tree[b])
    BY LoadedTree
  <1>3. /\ tree[b]["server.timeout"] # 0 /\ tree[b]["pool.connect_timeout"] # 0
        /\ tree[b]["pool.acquire_timeout"] # 0
        /\ tree[b]["pool.min_connections"] \in 0..tree[b]["pool.max_connections"]
    <2>1. \A k \in Numbers : tree[b][k] \in Nat
      BY <1>1, ConfigAssumption
    <2> QED
      BY <1>2, <2>1, SMTT(60) DEF Valid, Numbers
  <1>4. ASSUME tree[b]["environment"] = "production"
        PROVE  \E i \in 1..4 : /\ "database.password" \in DOMAIN Ranked(b)[i]
                               /\ Ranked(b)[i]["database.password"].text # "root"
    <2> DEFINE p == "database.password"
    <2>1. p \in Keys /\ p \notin Numbers /\ tree[b][p] # "root"
      BY <1>2, <1>4 DEF Valid, Keys, Numbers
    <2> HIDE DEF p
    <2>2. p \in DOMAIN Merged(b) /\ tree[b][p] = Merged(b)[p].text
      BY <2>1, LoadedTree DEF Deserializes, Final, Typed
    <2> SUFFICES ASSUME NEW k, k = p
                 PROVE  \E i \in 1..4 : k \in DOMAIN Ranked(b)[i]
                                       /\ Ranked(b)[i][k].text # "root"
      BY DEF p
    <2>3. PICK i \in 1..5 : /\ k \in DOMAIN Ranked(b)[i] /\ Merged(b)[k] = Ranked(b)[i][k]
                            /\ \A j \in 1..(i - 1) : k \notin DOMAIN Ranked(b)[j]
      BY <2>2, MergeIsRanked
    <2>4. i # 5
      BY <2>1, <2>2, <2>3, ConfigAssumption DEF Ranked, p
    <2> QED
      BY <2>1, <2>2, <2>3, <2>4 DEF p
  <1> QED
    BY <1>1, <1>3, <1>4

(* No combination of sources loads into a configuration that cannot serve  *)
(* or, in production, that nobody gave a password (BootsUsable).           *)
THEOREM LoadedIsUsable == Spec => []BootsUsable
  BY Invariance, InvUsable, PTL

-----------------------------------------------------------------------------
(* What still holds of the claim SameDatabase: two binaries that load      *)
(* differ in a setting only if the /etc file of one of them sets it, and   *)
(* neither the environment nor a file they both read does.                 *)
OnlyEtcDivides ==
    \A a, b \in Binaries : Loaded(a) /\ Loaded(b) =>
        \A k \in Keys : tree[a][k] # tree[b][k] =>
            /\ k \in DOMAIN Read(etc[a]) \cup DOMAIN Read(etc[b])
            /\ k \notin DOMAIN AppVars(environ) \cup DOMAIN AppVars(Read(dotenv))
                          \cup DOMAIN Read(cwd)

LEMMA InvDivides == Inv => OnlyEtcDivides
  <1> SUFFICES ASSUME Inv, NEW a \in Binaries, NEW b \in Binaries, Loaded(a), Loaded(b),
                      NEW k \in Keys, tree[a][k] # tree[b][k]
               PROVE  /\ k \in DOMAIN Read(etc[a]) \cup DOMAIN Read(etc[b])
                      /\ k \notin DOMAIN AppVars(environ) \cup DOMAIN AppVars(Read(dotenv))
                                    \cup DOMAIN Read(cwd)
    BY DEF OnlyEtcDivides
  <1> DEFINE v == AppVars(Over(environ, Read(dotenv)))
             c == Read(cwd)
             s(x) == Read(etc[x])
  <1>1. k \in DOMAIN v <=> k \in DOMAIN AppVars(environ) \cup DOMAIN AppVars(Read(dotenv))
    BY DEF Over, AppVars
  <1>2. /\ Merged(a) = Over(v, Over(c, Over(s(a), Default)))
        /\ Merged(b) = Over(v, Over(c, Over(s(b), Default)))
    BY DEF Merged
  <1>3. k \in DOMAIN Merged(a) /\ k \in DOMAIN Merged(b) /\ Merged(a)[k] # Merged(b)[k]
    <2>1. /\ DOMAIN Merged(a) = Keys /\ tree[a] = Final(a)
          /\ DOMAIN Merged(b) = Keys /\ tree[b] = Final(b)
      BY LoadedTree DEF Deserializes
    <2>2. tree[a][k] = Typed(k, Merged(a)[k]) /\ tree[b][k] = Typed(k, Merged(b)[k])
      BY <2>1 DEF Final
    <2> QED
      BY <2>1, <2>2
  <1> HIDE DEF v, c, s
  <1>4. k \notin DOMAIN v /\ k \notin DOMAIN c
    BY <1>2, <1>3 DEF Over
  <1>5. k \in DOMAIN s(a) \cup DOMAIN s(b)
    BY <1>2, <1>3, <1>4 DEF Over
  <1> QED
    BY <1>1, <1>4, <1>5 DEF c, s

(* Only /etc can part the binaries' settings, whatever the sources say     *)
(* (OnlyEtcDivides): where config_cli's disagreement stops.                *)
THEOREM OnlyEtcPartsThem == Spec => []OnlyEtcDivides
  BY Invariance, InvDivides, PTL

=============================================================================
