--------------------------- MODULE ScriptsProofs ---------------------------
(***************************************************************************)
(* Machine-checked proofs about the scripts, the helpers and the registry  *)
(* that MCTradeScripts runs side by side.  Deployment runs that stop       *)
(* anywhere leave contracts that agree; a multisig operation is repeated   *)
(* only where nobody heard of it; the lists of the delegate registry hold  *)
(* what was delegated and nothing else; the trade scripts never make       *)
(* anybody pay more than he confirmed, whatever others do between their    *)
(* steps; and the helpers tell their callers what the ledger did and       *)
(* holds, for lists and logs of any length.                                *)
(***************************************************************************)
EXTENDS TradeScripts, HelperCalls, Deployment, FactoryMultisig, DelegateRegistry, SumsProofs,
        SequenceTheorems

-----------------------------------------------------------------------------
(* Deployment.                                                               *)

Contracts == [kind : Kinds, uses : SUBSET Nat]
Sessions == [script : {"none", "trade", "station", "factory", "configure"},
             at : Nat, holds : [Kinds -> Nat]]

DeploymentTypeOK ==
    /\ made \in Seq(Contracts)
    /\ env \in [Kinds -> Nat] /\ session \in Sessions
    /\ users \in SUBSET (Nat \X Nat) /\ announced \in SUBSET (Nat \X Nat)

\* What a constructor was told exists, and is of a kind it asks for.
Told == \A c \in DOMAIN made : \A d \in made[c].uses :
            d \in DOMAIN made /\ made[d].kind \in Uses[made[c].kind]

\* An id, in .env or in a run, stands for a contract of its kind; and the
\* contracts that ids stand for were told what the other ids stand for.
Names(ids) == \A k \in Kinds : ids[k] # Nothing => ids[k] \in DOMAIN made /\ made[ids[k]].kind = k

Wired(ids) ==
    /\ \A k \in {"token", "station"} :
          ids[k] # Nothing => OfKind(ids[k], "creator") = {ids["creator"]}
    /\ \A k \in {"station", "trade", "factory"} :
          ids[k] # Nothing => OfKind(ids[k], "token") = {ids["token"]}
    /\ \A k \in {"trade", "factory"} :
          ids[k] # Nothing => OfKind(ids[k], "station") = {ids["station"]}

\* A run holds nothing else in the place of what .env offers.
SameAsEnv == \A k \in {"creator", "token", "station"} :
                 session.holds[k] # Nothing /\ InEnv(k) => session.holds[k] = env[k]

\* How far a run has come.
Reached ==
    /\ session.script = "trade" =>
          /\ session.at > 1 => session.holds["creator"] # Nothing
          /\ session.at > 2 => session.holds["token"] # Nothing
          /\ session.at > 3 => session.holds["station"] # Nothing
          /\ session.at > 7 => session.holds["trade"] # Nothing
          /\ session.at = 1 => session.holds["creator"] = Nothing
          /\ session.at \in 1 .. 2 => session.holds["token"] = Nothing
          /\ session.at \in 1 .. 3 => session.holds["station"] = Nothing
    /\ session.script = "station" =>
          /\ session.holds["creator"] # Nothing /\ session.holds["token"] # Nothing
          /\ session.at = 1 => session.holds["station"] = env["station"]
    /\ session.script \in {"factory", "configure"} =>
          session.holds["trade"] # Nothing /\ session.holds["station"] # Nothing
    /\ session.script = "factory" => session.holds["token"] # Nothing

Agreed ==
    /\ \A c \in DOMAIN made, k \in {"creator", "token", "station"} :
          \A d \in made[c].uses :
             OfKind(c, k) # {} /\ OfKind(d, k) # {} => OfKind(c, k) = OfKind(d, k)
    /\ \A a \in announced :
          a \in users /\ a[2] \in DOMAIN made /\ OfKind(a[2], "station") = {a[1]}

DeploymentInv ==
    /\ DeploymentTypeOK /\ Told /\ Agreed
    /\ Names(env) /\ Wired(env) /\ Names(session.holds) /\ Wired(session.holds)
    /\ SameAsEnv /\ Reached

-----------------------------------------------------------------------------
(* What is due, and what a run then holds.                                   *)

LEMMA DueCases ==
    ASSUME DeploymentTypeOK
    PROVE  /\ session.script = "trade" =>
                 /\ session.at = 1 => Due = "creator"
                 /\ session.at = 2 => Due = "token"
                 /\ session.at = 3 => Due = "station"
                 /\ session.at = 4 => Due = "registry"
                 /\ session.at = 5 => Due = "tierLib"
                 /\ session.at = 6 => Due = "envelopeLib"
                 /\ session.at = 7 => Due = "trade"
                 /\ session.at = 8 => Due = "user"
                 /\ session.at \notin 1 .. 8 => Due = "nothing"
           /\ session.script = "station" =>
                 /\ session.at = 1 => Due = "station"
                 /\ session.at # 1 => Due = "nothing"
           /\ session.script = "factory" =>
                 /\ session.at = 1 => Due = "tierLib"
                 /\ session.at = 2 => Due = "envelopeLib"
                 /\ session.at = 3 => Due = "stash"
                 /\ session.at = 4 => Due = "factory"
                 /\ session.at \notin 1 .. 4 => Due = "nothing"
           /\ session.script = "configure" =>
                 /\ session.at = 1 => Due = "user"
                 /\ session.at # 1 => Due = "nothing"
           /\ session.script = "none" => Due = "nothing"
  <1> USE DEF DeploymentTypeOK, Sessions
  <1>1. CASE session.script = "trade"
    BY <1>1 DEF Due, Steps
  <1>2. CASE session.script = "station"
    BY <1>2 DEF Due, Steps
  <1>3. CASE session.script = "factory"
    BY <1>3 DEF Due, Steps
  <1>4. CASE session.script = "configure"
    BY <1>4 DEF Due, Steps
  <1>5. CASE session.script = "none"
    BY <1>5 DEF Due, Steps
  <1> QED
    BY <1>1, <1>2, <1>3, <1>4, <1>5

LEMMA DueFacts ==
    ASSUME DeploymentInv
    PROVE  /\ session.holds \in [Kinds -> Nat] /\ env \in [Kinds -> Nat] /\ session.at \in Nat
           /\ Due \in Kinds \cup {"user", "nothing"}
           /\ Due \in {"creator", "token", "station"} =>
                 session.holds[Due] = Nothing \/ (InEnv(Due) /\ session.holds[Due] = env[Due])
           /\ Due \in {"creator", "token"} => session.script = "trade"
           /\ Due = "creator" => session.at = 1 /\ session.holds["token"] = Nothing
           /\ Due = "token" => session.at = 2 /\ session.holds["creator"] # Nothing
           /\ Due \in {"creator", "token"} => session.holds["station"] = Nothing
           /\ Due = "station" =>
                 session.holds["creator"] # Nothing /\ session.holds["token"] # Nothing
           /\ Due \in {"trade", "factory"} =>
                 session.holds["token"] # Nothing /\ session.holds["station"] # Nothing
           /\ Due = "user" => session.holds["trade"] # Nothing
  <1>1. session \in Sessions /\ Reached /\ DeploymentTypeOK
    BY DEF DeploymentInv, DeploymentTypeOK
  <1>2. /\ session.holds \in [Kinds -> Nat] /\ env \in [Kinds -> Nat] /\ session.at \in Nat
        /\ session.script \in {"none", "trade", "station", "factory", "configure"}
    BY <1>1 DEF DeploymentTypeOK, Sessions
  <1>3. CASE session.script = "trade"
    <2>1. session.at \in {1, 2, 3, 4, 5, 6, 7, 8} \/ session.at \notin 1 .. 8
      BY <1>2
    <2> QED
      BY <1>1, <1>2, <1>3, <2>1, DueCases DEF Reached, Kinds
  <1>4. CASE session.script = "station"
    <2>1. session.at = 1 => session.holds["station"] = env["station"]
      BY <1>1, <1>4 DEF Reached
    <2>2. env["station"] # Nothing => InEnv("station")
      BY DEF InEnv
    <2> QED
      BY <1>1, <1>2, <1>4, <2>1, <2>2, DueCases DEF Reached, Kinds
  <1>5. CASE session.script = "factory"
    <2>1. session.at \in {1, 2, 3, 4} \/ session.at \notin 1 .. 4
      BY <1>2
    <2> QED
      BY <1>1, <1>2, <1>5, <2>1, DueCases DEF Reached, Kinds
  <1>6. CASE session.script \in {"configure", "none"}
    BY <1>1, <1>2, <1>6, DueCases DEF Reached, Kinds
  <1> QED
    BY <1>2, <1>3, <1>4, <1>5, <1>6

\* Whoever is wired to something names it.
LEMMA WiredNames ==
    ASSUME DeploymentTypeOK, Told, NEW ids \in [Kinds -> Nat], Names(ids), Wired(ids)
    PROVE  /\ ids["station"] # Nothing => ids["token"] # Nothing
           /\ ids["token"] # Nothing => ids["creator"] # Nothing
           /\ ids["trade"] # Nothing => ids["token"] # Nothing /\ ids["station"] # Nothing
           /\ ids["factory"] # Nothing => ids["token"] # Nothing /\ ids["station"] # Nothing
  <1>1. ASSUME NEW k \in Kinds, ids[k] # Nothing, NEW j, OfKind(ids[k], j) = {ids[j]}
        PROVE  ids[j] # Nothing
    <2>1. ids[k] \in DOMAIN made
      BY <1>1 DEF Names
    <2>2. ids[j] \in made[ids[k]].uses
      BY <1>1 DEF OfKind
    <2>3. ids[j] \in DOMAIN made
      BY <2>1, <2>2 DEF Told
    <2> QED
      BY <2>3 DEF DeploymentTypeOK, Nothing
  <1>2. {"station", "token", "trade", "factory"} \subseteq Kinds
    BY DEF Kinds
  <1> QED
    BY <1>1, <1>2 DEF Wired

LEMMA OnwardFields ==
    ASSUME session \in Sessions, NEW ids \in [Kinds -> Nat]
    PROVE  /\ Onward(ids) \in Sessions /\ Onward(ids).holds = ids
           /\ Onward(ids).at = session.at + 1 /\ Onward(ids).script = session.script
           /\ Stopped \in Sessions /\ Stopped.holds = session.holds
           /\ Stopped.at = 0 /\ Stopped.script = session.script
  <1> DEFINE Ids == [Kinds -> Nat]
  <1>1. session \in [script : {"none", "trade", "station", "factory", "configure"},
                     at : Nat, holds : Ids]
    BY DEF Sessions
  <1> HIDE DEF Ids
  <1>2. /\ session.at \in Nat /\ session.holds \in Ids
        /\ session.script \in {"none", "trade", "station", "factory", "configure"}
    BY <1>1
  <1>3. Onward(ids) = [script |-> session.script, at |-> session.at + 1, holds |-> ids]
    BY DEF Onward
  <1>4. Stopped = [script |-> session.script, at |-> 0, holds |-> session.holds]
    BY <1>1 DEF Stopped
  <1>5. session.at + 1 \in Nat /\ 0 \in Nat
    BY <1>2
  <1>6. Onward(ids) \in Sessions /\ Stopped \in Sessions
    BY <1>2, <1>3, <1>4, <1>5 DEF Sessions, Ids
  <1> QED
    BY <1>3, <1>4, <1>6

\* A run that goes on holds what was due.
LEMMA ReachedOnward ==
    ASSUME DeploymentInv, Due \in Kinds, NEW ids \in [Kinds -> Nat], ids[Due] # Nothing,
           \A k \in Kinds \ {Due} : ids[k] = session.holds[k],
           session' = Onward(ids), UNCHANGED env
    PROVE  Reached'
  <1>1. session \in Sessions /\ DeploymentTypeOK /\ Reached
    BY DEF DeploymentInv, DeploymentTypeOK
  <1>2. /\ session'.holds = ids /\ session'.at = session.at + 1
        /\ session'.script = session.script /\ session.at \in Nat
        /\ session.script \in {"none", "trade", "station", "factory", "configure"}
    BY <1>1, OnwardFields DEF Sessions
  <1>3. {"creator", "token", "station", "trade", "user", "nothing"} \ {"user", "nothing"} \subseteq Kinds
    BY DEF Kinds
  <1>4. "user" \notin Kinds /\ "nothing" \notin Kinds
    BY DEF Kinds
  <1>5. CASE session.script = "trade"
    <2>1. session.at \in {1, 2, 3, 4, 5, 6, 7}
      <3>1. session.at \in 1 .. 8 /\ session.at # 8
        BY <1>1, <1>4, <1>5, DueCases
      <3> QED
        BY <1>2, <3>1
    <2> QED
      BY <1>1, <1>2, <1>3, <1>5, <2>1, DueCases DEF Reached
  <1>6. CASE session.script = "station"
    <2>1. session.at = 1 /\ Due = "station"
      BY <1>1, <1>4, <1>6, DueCases
    <2> QED
      BY <1>1, <1>2, <1>3, <1>6, <2>1 DEF Reached
  <1>7. CASE session.script \in {"factory", "configure"}
    <2>1. session.script = "factory" /\ Due \notin {"token", "trade", "station"}
      <3>1. session.script = "factory"
        BY <1>1, <1>4, <1>7, DueCases
      <3>2. session.at \in 1 .. 4
        BY <1>1, <1>4, <3>1, DueCases
      <3>3. session.at \in {1, 2, 3, 4}
        BY <1>2, <3>2
      <3> QED
        BY <1>1, <3>1, <3>3, DueCases
    <2> QED
      BY <1>1, <1>2, <1>3, <2>1 DEF Reached
  <1>8. session.script # "none"
    BY <1>1, <1>4, DueCases
  <1> QED
    BY <1>2, <1>5, <1>6, <1>7, <1>8

-----------------------------------------------------------------------------
(* Steps that make nothing.                                                  *)

LEMMA ReuseStep ==
    ASSUME DeploymentInv, Reuse
    PROVE  DeploymentInv'
  <1> DEFINE h == session.holds
             h1 == [session.holds EXCEPT ![Due] = env[Due]]
  <1>1. DeploymentTypeOK /\ session \in Sessions
    BY DEF DeploymentInv, DeploymentTypeOK
  <1>2. /\ Due \in Kinds /\ InEnv(Due)
        /\ session' = Onward(h1) /\ UNCHANGED <<made, users, env, announced>>
    BY DEF Reuse
  <1>3. /\ session.holds \in [Kinds -> Nat] /\ env \in [Kinds -> Nat] /\ session.at \in Nat
        /\ h1 \in [Kinds -> Nat] /\ h1[Due] = env[Due]
        /\ \A k \in Kinds \ {Due} : h1[k] = h[k]
    BY <1>2, DueFacts
  <1> HIDE DEF h1
  <1>4. session'.holds = h1
    BY <1>1, <1>2, <1>3, OnwardFields
  <1>5. session' \in Sessions
    BY <1>1, <1>2, <1>3, OnwardFields
  <1>6. DeploymentTypeOK'
    BY <1>1, <1>2, <1>5 DEF DeploymentTypeOK
  <1>7. Told' /\ Agreed' /\ Names(env)' /\ Wired(env)'
    BY <1>2 DEF DeploymentInv, Told, Agreed, Names, Wired, OfKind
  <1>8. Names(session.holds)'
    BY <1>2, <1>3, <1>4 DEF DeploymentInv, Names
  <1>9. Wired(session.holds)'
    <2>1. UNCHANGED made /\ \A c, k : OfKind(c, k)' = OfKind(c, k)
      BY <1>2 DEF OfKind
    <2>2. /\ h["trade"] # Nothing => h["token"] # Nothing /\ h["station"] # Nothing
          /\ h["factory"] # Nothing => h["token"] # Nothing /\ h["station"] # Nothing
          /\ h["station"] # Nothing => h["token"] # Nothing
          /\ env["station"] # Nothing => env["token"] # Nothing
          /\ env["token"] # Nothing => env["creator"] # Nothing
      BY <1>1, <1>3, WiredNames DEF DeploymentInv
    <2>3. env["creator"] # Nothing /\ env["token"] # Nothing => InEnv("creator") /\ InEnv("token")
      BY DEF InEnv
    <2>4. {"creator", "token", "station", "trade", "factory"} \subseteq Kinds
      BY DEF Kinds
    <2>5. Wired(h1)
      <3>1. CASE h[Due] = env[Due]
        <4>1. \A k \in {"creator", "token", "station", "trade", "factory"} : h1[k] = h[k]
          BY <1>2, <1>3, <2>4, <3>1
        <4> QED
          BY <4>1 DEF DeploymentInv, Wired
      <3>2. CASE Due \in {"creator", "token", "station"} /\ h[Due] = Nothing
        <4>1. CASE Due = "creator"
          BY <1>3, <2>2, <2>4, <3>2, <4>1, DueFacts DEF Wired
        <4>2. CASE Due = "token"
          <5>1. h["creator"] = env["creator"] /\ env["token"] # Nothing
            BY <1>2, <2>2, <2>3, <4>2, DueFacts DEF DeploymentInv, SameAsEnv, InEnv
          <5>2. OfKind(env["token"], "creator") = {h["creator"]}
            BY <5>1 DEF DeploymentInv, Wired
          <5> QED
            BY <1>3, <2>2, <2>4, <3>2, <4>2, <5>2, DueFacts DEF Wired
        <4>3. CASE Due = "station"
          <5>1. env["station"] # Nothing
            BY <1>2, <4>3 DEF InEnv
          <5>2. h["creator"] = env["creator"] /\ h["token"] = env["token"]
            BY <2>2, <2>3, <4>3, <5>1, DueFacts DEF DeploymentInv, SameAsEnv
          <5>3. /\ OfKind(env["station"], "creator") = {h["creator"]}
                /\ OfKind(env["station"], "token") = {h["token"]}
            BY <5>1, <5>2 DEF DeploymentInv, Wired
          <5>4. h["token"] # Nothing => OfKind(h["token"], "creator") = {h["creator"]}
            BY DEF DeploymentInv, Wired
          <5> QED
            BY <1>3, <2>2, <2>4, <3>2, <4>3, <5>3, <5>4 DEF Wired
        <4> QED
          BY <3>2, <4>1, <4>2, <4>3
      <3>3. CASE Due \notin {"creator", "token", "station"}
        <4>1. Due \notin {"trade", "factory"}
          BY <1>2 DEF InEnv
        <4>2. \A k \in {"creator", "token", "station", "trade", "factory"} : h1[k] = h[k]
          BY <1>3, <2>4, <3>3, <4>1
        <4> QED
          BY <4>2 DEF DeploymentInv, Wired
      <3> QED
        BY <3>1, <3>2, <3>3, DueFacts
    <2> QED
      BY <1>4, <2>1, <2>5 DEF Wired
  <1>10. SameAsEnv'
    <2>1. \A k \in {"creator", "token", "station"} : k \in Kinds /\ InEnv(k)' = InEnv(k)
      BY <1>2 DEF InEnv, Kinds
    <2> QED
      BY <1>2, <1>3, <1>4, <2>1 DEF DeploymentInv, SameAsEnv
  <1>11. Reached'
    BY <1>2, <1>3, ReachedOnward DEF InEnv
  <1> QED
    BY <1>6, <1>7, <1>8, <1>9, <1>10, <1>11 DEF DeploymentInv

LEMMA AddContractUserStep ==
    ASSUME DeploymentInv, AddContractUser
    PROVE  DeploymentInv'
  <1> DEFINE admission == <<session.holds["station"], session.holds["trade"]>>
  <1>1. DeploymentTypeOK /\ session \in Sessions
    BY DEF DeploymentInv, DeploymentTypeOK
  <1>2. /\ Due = "user" /\ users' = users \cup {admission}
        /\ announced' \in {announced, announced \cup {admission}}
        /\ session' = Stopped /\ made' = made /\ env' = env
    BY DEF AddContractUser
  <1>3. /\ session.holds \in [Kinds -> Nat] /\ session.holds["trade"] # Nothing
        /\ "trade" \in Kinds /\ "station" \in Kinds
    BY <1>2, DueFacts DEF Kinds
  <1>4. /\ session' \in Sessions /\ session'.holds = session.holds
        /\ session'.at = 0 /\ session'.script = session.script
    BY <1>1, <1>2, <1>3, OnwardFields
  <1>5. admission \in Nat \X Nat
    BY <1>3
  <1>6. DeploymentTypeOK'
    BY <1>1, <1>2, <1>4, <1>5 DEF DeploymentTypeOK
  <1>7. OfKind(admission[2], "station") = {admission[1]} /\ admission[2] \in DOMAIN made
    BY <1>3 DEF DeploymentInv, Wired, Names
  <1>8. Agreed'
    <2>1. \A c, k : OfKind(c, k)' = OfKind(c, k)
      BY <1>2 DEF OfKind
    <2>2. \A a \in announced' : a \in announced \/ a = admission
      BY <1>2
    <2> HIDE DEF admission
    <2> QED
      BY <1>2, <1>7, <2>1, <2>2 DEF DeploymentInv, Agreed
  <1>9. Told' /\ Names(env)' /\ Wired(env)' /\ Names(session.holds)' /\ Wired(session.holds)'
    BY <1>2, <1>4 DEF DeploymentInv, Told, Names, Wired, OfKind
  <1>10. SameAsEnv' /\ Reached'
    <2>1. \A k : InEnv(k)' = InEnv(k)
      BY <1>2 DEF InEnv
    <2> QED
      BY <1>2, <1>4, <2>1 DEF DeploymentInv, SameAsEnv, Reached
  <1> QED
    BY <1>6, <1>8, <1>9, <1>10 DEF DeploymentInv

LEMMA StartStep ==
    ASSUME DeploymentInv, NEW script \in DOMAIN Needs, StartScript(script)
    PROVE  DeploymentInv'
  <1> DEFINE h == IF script = "trade" THEN NoIds ELSE env
  <1>1. /\ script \in {"trade", "station", "factory", "configure"}
        /\ \A k \in Needs[script] : env[k] # Nothing
        /\ session' = [script |-> script, at |-> 1, holds |-> h]
        /\ UNCHANGED <<made, users, env, announced>>
    BY DEF StartScript, Needs
  <1>2. DeploymentTypeOK /\ env \in [Kinds -> Nat]
    BY DEF DeploymentInv, DeploymentTypeOK
  <1>3. NoIds \in [Kinds -> Nat] /\ \A k \in Kinds : NoIds[k] = Nothing
    BY DEF NoIds, Nothing
  <1>4. h \in [Kinds -> Nat] /\ (script = "trade" => h = NoIds) /\ (script # "trade" => h = env)
    BY <1>2, <1>3
  <1> HIDE DEF h
  <1>5. /\ session'.holds = h /\ session'.at = 1 /\ session'.script = script
        /\ session' \in Sessions
    BY <1>1, <1>4 DEF Sessions
  <1>6. {"creator", "token", "station", "trade", "factory"} \subseteq Kinds
    BY DEF Kinds
  <1>7. DeploymentTypeOK'
    BY <1>1, <1>2, <1>5 DEF DeploymentTypeOK
  <1>8. Told' /\ Agreed' /\ Names(env)' /\ Wired(env)'
    BY <1>1 DEF DeploymentInv, Told, Agreed, Names, Wired, OfKind
  <1>9. Names(h) /\ Wired(h)
    BY <1>3, <1>4, <1>6 DEF DeploymentInv, Names, Wired
  <1>10. Names(session.holds)' /\ Wired(session.holds)'
    BY <1>1, <1>5, <1>9 DEF Names, Wired, OfKind
  <1>11. SameAsEnv'
    BY <1>1, <1>3, <1>4, <1>5, <1>6 DEF SameAsEnv
  <1>12. Reached'
    <2>1. CASE script = "trade"
      BY <1>3, <1>4, <1>5, <1>6, <2>1 DEF Reached
    <2>2. CASE script # "trade"
      <3>1. \A k \in Needs[script] : h[k] # Nothing
        BY <1>1, <1>4, <2>2
      <3> QED
        BY <1>1, <1>4, <1>5, <2>2, <3>1 DEF Reached, Needs
    <2> QED
      BY <2>1, <2>2
  <1> QED
    BY <1>7, <1>8, <1>10, <1>11, <1>12 DEF DeploymentInv

-----------------------------------------------------------------------------
(* Making a contract.                                                        *)

LEMMA DeployStep ==
    ASSUME DeploymentInv, Deploy
    PROVE  DeploymentInv'
  <1> DEFINE h == session.holds
             told == {h[k] : k \in Uses[Due]} \ {Nothing}
  <1>1. /\ DeploymentTypeOK /\ session \in Sessions /\ Told /\ Agreed
        /\ Names(env) /\ Wired(env) /\ Names(h) /\ Wired(h)
    BY DEF DeploymentInv, DeploymentTypeOK
  <1>n. PICK new : new = Len(made) + 1
    OBVIOUS
  <1> DEFINE h1 == [session.holds EXCEPT ![Due] = new]
  <1>2. /\ Due \in Kinds /\ ~ InEnv(Due)
        /\ made' = Append(made, [kind |-> Due, uses |-> told])
        /\ session' = Onward(h1) \/ session' = Stopped
        /\ UNCHANGED <<users, env, announced>>
    BY <1>n DEF Deploy
  <1>3. /\ h \in [Kinds -> Nat] /\ env \in [Kinds -> Nat] /\ made \in Seq(Contracts)
        /\ users \in SUBSET (Nat \X Nat) /\ announced \in SUBSET (Nat \X Nat)
    BY <1>1, DueFacts DEF DeploymentTypeOK
  <1>4. Uses[Due] \subseteq Kinds
    BY <1>2 DEF Uses, Kinds
  <1>5. told \subseteq Nat /\ [kind |-> Due, uses |-> told] \in Contracts
    <2>1. told \subseteq Nat
      BY <1>3, <1>4
    <2> HIDE DEF told
    <2> QED
      BY <1>2, <2>1 DEF Contracts
  <1>6. \A d \in told : \E k \in Uses[Due] :
            k \in Kinds /\ d = h[k] /\ d \in DOMAIN made /\ made[d].kind = k
    BY <1>1, <1>4 DEF Names
  <1>7. \A k \in Uses[Due] : h[k] # Nothing => h[k] \in told
    OBVIOUS
  <1> HIDE DEF told
  <1>8. /\ made' \in Seq(Contracts) /\ DOMAIN made' = DOMAIN made \cup {new}
        /\ new \in Nat /\ new # Nothing /\ new \notin DOMAIN made
        /\ \A c \in DOMAIN made : made'[c] = made[c]
        /\ made'[new].kind = Due /\ made'[new].uses = told
    BY <1>n, <1>2, <1>3, <1>5 DEF Nothing
  \* What contracts were told before stays as it is.
  <1>9. \A k : \A c \in DOMAIN made : OfKind(c, k)' = OfKind(c, k)
    <2> SUFFICES ASSUME NEW c \in DOMAIN made, NEW k PROVE OfKind(c, k)' = OfKind(c, k)
      OBVIOUS
    <2>1. made'[c].uses = made[c].uses /\ \A d \in made[c].uses : made'[d] = made[d]
      BY <1>1, <1>8 DEF Told
    <2> QED
      BY <2>1 DEF OfKind
  \* What the new one was told.
  <1>10. \A k : OfKind(new, k)' = {d \in told : made[d].kind = k}
    <2>1. \A d \in told : made'[d] = made[d]
      BY <1>6, <1>8
    <2> QED
      BY <1>8, <2>1 DEF OfKind
  <1>11. \A k \in Uses[Due] : h[k] # Nothing => OfKind(new, k)' = {h[k]}
    <2> SUFFICES ASSUME NEW k \in Uses[Due], h[k] # Nothing PROVE OfKind(new, k)' = {h[k]}
      OBVIOUS
    <2>1. h[k] \in told /\ made[h[k]].kind = k
      BY <1>1, <1>4, <1>7 DEF Names
    <2>2. \A d \in told : made[d].kind = k => d = h[k]
      BY <1>6
    <2> QED
      BY <1>10, <2>1, <2>2
  <1>12. Told'
    <2>1. \A d \in told : d \in DOMAIN made' /\ made'[d].kind \in Uses[Due]
      BY <1>6, <1>8
    <2>2. \A c \in DOMAIN made : \A d \in made'[c].uses :
              d \in DOMAIN made' /\ made'[d].kind \in Uses[made'[c].kind]
      BY <1>1, <1>8 DEF Told
    <2> QED
      BY <1>8, <2>1, <2>2 DEF Told
  <1>13. Agreed'
    <2>1. ASSUME NEW c \in DOMAIN made', NEW k \in {"creator", "token", "station"},
                 NEW d \in made'[c].uses, OfKind(c, k)' # {}, OfKind(d, k)' # {}
          PROVE  OfKind(c, k)' = OfKind(d, k)'
      <3>1. CASE c \in DOMAIN made
        <4>1. d \in made[c].uses /\ d \in DOMAIN made
          BY <1>1, <1>8, <2>1, <3>1 DEF Told
        <4> QED
          BY <1>1, <1>9, <2>1, <3>1, <4>1 DEF Agreed
      <3>2. CASE c = new
        <4>1. PICK j \in Uses[Due] :
                  j \in Kinds /\ d = h[j] /\ d \in DOMAIN made /\ made[d].kind = j
          BY <1>6, <1>8, <2>1, <3>2
        <4>2. PICK e \in told : made[e].kind = k
          BY <1>10, <2>1, <3>2
        <4>3. k \in Uses[Due] /\ e = h[k] /\ h[k] # Nothing
          <5>1. e \in DOMAIN made
            BY <1>6, <4>2
          <5> QED
            BY <1>3, <1>6, <4>2, <5>1 DEF Nothing
        <4>4. OfKind(new, k)' = {h[k]}
          BY <1>11, <4>3
        <4>5. OfKind(d, k)' = OfKind(d, k) /\ OfKind(d, k) # {}
          BY <1>9, <2>1, <4>1
        <4>6. k \in Uses[j]
          BY <1>1, <4>1, <4>5 DEF OfKind, Told
        <4>7. h[j] # Nothing
          BY <1>3, <4>1 DEF Nothing
        <4>8. \/ k = "creator" /\ j \in {"token", "station"}
              \/ k = "token" /\ j \in {"station", "trade", "factory"}
              \/ k = "station" /\ j \in {"trade", "factory"}
          BY <4>1, <4>6, <2>1 DEF Uses, Kinds
        <4>9. OfKind(h[j], k) = {h[k]}
          BY <1>1, <4>7, <4>8 DEF Wired
        <4> QED
          BY <3>2, <4>1, <4>4, <4>5, <4>9
      <3> QED
        BY <1>8, <2>1, <3>1, <3>2
    <2>2. ASSUME NEW a \in announced'
          PROVE  a \in users' /\ a[2] \in DOMAIN made' /\ OfKind(a[2], "station")' = {a[1]}
      BY <1>1, <1>2, <1>8, <1>9, <2>2 DEF Agreed
    <2> QED
      BY <2>1, <2>2 DEF Agreed
  <1>14. ASSUME NEW ids, Names(ids), Wired(ids)
         PROVE  Names(ids)' /\ Wired(ids)'
    <2>1. \A k \in Kinds : ids[k] # Nothing => ids[k] \in DOMAIN made
      BY <1>14 DEF Names
    <2>2. {"token", "station", "trade", "factory"} \subseteq Kinds
      BY DEF Kinds
    <2>3. Names(ids)'
      BY <1>8, <1>14 DEF Names
    <2>4. \A j : \A k \in {"token", "station", "trade", "factory"} :
             ids[k] # Nothing => OfKind(ids[k], j)' = OfKind(ids[k], j)
      BY <1>9, <2>1, <2>2
    <2> QED
      BY <1>14, <2>3, <2>4 DEF Wired
  <1>15. Names(env)' /\ Wired(env)'
    <2>1. PICK ids : ids = env
      OBVIOUS
    <2>2. Names(ids)' /\ Wired(ids)'
      BY <1>1, <1>14, <2>1
    <2> QED
      BY <1>2, <2>1, <2>2 DEF Names, Wired, OfKind
  <1>16. CASE session' = Stopped
    <2>1. /\ session' \in Sessions /\ session'.holds = h
          /\ session'.at = 0 /\ session'.script = session.script
      BY <1>1, <1>3, <1>16, OnwardFields
    <2>2. Names(session.holds)' /\ Wired(session.holds)'
      <3>1. PICK ids : ids = h
        OBVIOUS
      <3>2. Names(ids)' /\ Wired(ids)'
        BY <1>1, <1>14, <3>1
      <3> QED
        BY <2>1, <3>1, <3>2 DEF Names, Wired, OfKind
    <2>3. SameAsEnv' /\ Reached'
      <3>1. \A k : InEnv(k)' = InEnv(k)
        BY <1>2 DEF InEnv
      <3> QED
        BY <1>2, <2>1, <3>1 DEF DeploymentInv, SameAsEnv, Reached
    <2>4. DeploymentTypeOK'
      BY <1>2, <1>3, <1>8, <2>1 DEF DeploymentTypeOK
    <2> QED
      BY <1>12, <1>13, <1>15, <2>2, <2>3, <2>4 DEF DeploymentInv
  <1>17. CASE session' = Onward(h1)
    <2> PICK ids : ids = h1
      OBVIOUS
    <2>1. /\ ids \in [Kinds -> Nat] /\ ids[Due] = new
          /\ \A k \in Kinds \ {Due} : ids[k] = h[k]
      BY <1>2, <1>3, <1>8
    <2>2. session' \in Sessions /\ session'.holds = ids /\ session' = Onward(ids)
      BY <1>1, <1>17, <2>1, OnwardFields
    <2> HIDE DEF h1
    <2>3. {"creator", "token", "station", "trade", "factory"} \subseteq Kinds
      BY DEF Kinds
    <2>4. Names(ids)'
      BY <1>1, <1>8, <2>1 DEF Names
    <2>5. /\ h["trade"] # Nothing => h["token"] # Nothing /\ h["station"] # Nothing
          /\ h["factory"] # Nothing => h["token"] # Nothing /\ h["station"] # Nothing
          /\ h["station"] # Nothing => h["token"] # Nothing
      BY <1>1, <1>3, WiredNames
    <2> PICK old : old = h
      OBVIOUS
    <2>6. \A j : \A k \in {"token", "station", "trade", "factory"} :
             old[k] # Nothing => OfKind(old[k], j)' = OfKind(old[k], j)
      <3>1. \A k \in {"token", "station", "trade", "factory"} :
               old[k] # Nothing => old[k] \in DOMAIN made
        BY <1>1, <2>3 DEF Names
      <3> QED
        BY <1>9, <3>1
    <2>7. Wired(ids)'
      <3>1. \A k \in Kinds : Due # k => ids[k] = old[k]
        BY <2>1
      <3>2. \A k \in Uses[Due] : old[k] # Nothing => OfKind(new, k)' = {old[k]}
        BY <1>11
      <3>3. Wired(old)
        BY <1>1
      <3>4. /\ \A k \in {"token", "station"} :
                  old[k] # Nothing => OfKind(old[k], "creator")' = {old["creator"]}
            /\ \A k \in {"station", "trade", "factory"} :
                  old[k] # Nothing => OfKind(old[k], "token")' = {old["token"]}
            /\ \A k \in {"trade", "factory"} :
                  old[k] # Nothing => OfKind(old[k], "station")' = {old["station"]}
        BY <2>6, <3>3 DEF Wired
      <3>5. CASE Due = "creator"
        <4>1. old["creator"] = Nothing /\ old["token"] = Nothing /\ old["station"] = Nothing
          BY <1>2, <3>5, DueFacts
        <4> QED
          BY <2>1, <2>3, <2>5, <3>1, <3>5, <4>1 DEF Wired
      <3>6. CASE Due = "token"
        <4>1. old["creator"] # Nothing /\ old["token"] = Nothing /\ old["station"] = Nothing
          BY <1>2, <3>6, DueFacts
        <4>2. OfKind(new, "creator")' = {old["creator"]}
          BY <3>2, <3>6, <4>1 DEF Uses
        <4> QED
          BY <2>1, <2>3, <2>5, <3>1, <3>6, <4>1, <4>2 DEF Wired
      <3>7. CASE Due = "station"
        <4>1. old["creator"] # Nothing /\ old["token"] # Nothing /\ old["station"] = Nothing
          BY <1>2, <3>7, DueFacts
        <4>2. /\ OfKind(new, "creator")' = {old["creator"]}
              /\ OfKind(new, "token")' = {old["token"]}
          BY <3>2, <3>7, <4>1 DEF Uses
        <4> QED
          BY <2>1, <2>3, <2>5, <3>1, <3>4, <3>7, <4>1, <4>2 DEF Wired
      <3>8. CASE Due \in {"trade", "factory"}
        <4>1. old["token"] # Nothing /\ old["station"] # Nothing
          BY <3>8, DueFacts
        <4>2. /\ OfKind(new, "token")' = {old["token"]}
              /\ OfKind(new, "station")' = {old["station"]}
          BY <3>2, <3>8, <4>1 DEF Uses
        <4> QED
          BY <2>1, <2>3, <3>1, <3>4, <3>8, <4>2 DEF Wired
      <3>9. CASE Due \notin {"creator", "token", "station", "trade", "factory"}
        <4>1. \A k \in {"creator", "token", "station", "trade", "factory"} : ids[k] = old[k]
          BY <2>3, <3>1, <3>9
        <4> QED
          BY <3>4, <4>1 DEF Wired
      <3> QED
        BY <3>5, <3>6, <3>7, <3>8, <3>9
    <2>8. SameAsEnv'
      <3>1. \A k \in {"creator", "token", "station"} : k \in Kinds /\ InEnv(k)' = InEnv(k)
        BY <1>2 DEF InEnv, Kinds
      <3> QED
        BY <1>2, <2>1, <2>2, <3>1 DEF DeploymentInv, SameAsEnv
    <2>9. Reached'
      BY <1>2, <1>8, <2>1, <2>2, ReachedOnward
    <2>10. DeploymentTypeOK'
      BY <1>2, <1>3, <1>8, <2>2 DEF DeploymentTypeOK
    <2>11. Names(session.holds)' /\ Wired(session.holds)'
      BY <2>2, <2>4, <2>7 DEF Names, Wired, OfKind
    <2> QED
      BY <1>12, <1>13, <1>15, <2>8, <2>9, <2>10, <2>11 DEF DeploymentInv
  <1> QED
    BY <1>2, <1>16, <1>17

-----------------------------------------------------------------------------
(* The operator copies what a run has printed.                               *)

LEMMA EndScriptStep ==
    ASSUME DeploymentInv, EndScript
    PROVE  DeploymentInv'
  <1>1. /\ DeploymentTypeOK /\ Told /\ Agreed /\ session \in Sessions
        /\ Names(env) /\ Wired(env) /\ Names(session.holds) /\ Wired(session.holds)
    BY DEF DeploymentInv, DeploymentTypeOK
  <1>2. /\ session.holds \in [Kinds -> Nat] /\ env \in [Kinds -> Nat]
        /\ made \in Seq(Contracts)
        /\ users \in SUBSET (Nat \X Nat) /\ announced \in SUBSET (Nat \X Nat)
    BY <1>1, DueFacts DEF DeploymentTypeOK
  <1> PICK h \in [Kinds -> Nat], old \in [Kinds -> Nat] : h = session.holds /\ old = env
    BY <1>2
  <1> PICK ids : ids = [k \in Kinds |-> IF h[k] # Nothing THEN h[k] ELSE old[k]]
    OBVIOUS
  <1>3. /\ ids \in [Kinds -> Nat]
        /\ \A k \in Kinds : /\ h[k] # Nothing => ids[k] = h[k]
                            /\ h[k] = Nothing => ids[k] = old[k]
    OBVIOUS
  <1>4. env' = ids /\ session' = NoSession /\ UNCHANGED <<made, users, announced>>
    BY DEF EndScript
  <1>5. {"creator", "token", "station", "trade", "factory"} \subseteq Kinds
    BY DEF Kinds
  <1>6. Names(ids)
    BY <1>1, <1>3 DEF Names
  <1>7. /\ h["station"] # Nothing => h["token"] # Nothing
        /\ h["token"] # Nothing => h["creator"] # Nothing
        /\ h["trade"] # Nothing => h["token"] # Nothing /\ h["station"] # Nothing
        /\ h["factory"] # Nothing => h["token"] # Nothing /\ h["station"] # Nothing
    BY <1>1, WiredNames
  <1>8. /\ old["station"] # Nothing => old["token"] # Nothing
        /\ old["token"] # Nothing => old["creator"] # Nothing
        /\ old["trade"] # Nothing => old["token"] # Nothing /\ old["station"] # Nothing
        /\ old["factory"] # Nothing => old["token"] # Nothing /\ old["station"] # Nothing
    BY <1>1, WiredNames
  \* What .env offered, the run has taken or not come to.
  <1>9. /\ old["token"] # Nothing => ids["creator"] = old["creator"] /\ ids["token"] = old["token"]
        /\ old["station"] # Nothing => ids["station"] = old["station"]
    <2>1. \A k \in {"creator", "token", "station"} :
             h[k] # Nothing /\ InEnv(k) => h[k] = old[k]
      BY DEF DeploymentInv, SameAsEnv
    <2>2. /\ old["token"] # Nothing => InEnv("creator") /\ InEnv("token")
          /\ old["station"] # Nothing => InEnv("station")
      BY <1>8 DEF InEnv
    <2> QED
      BY <1>3, <1>5, <2>1, <2>2
  <1>10. Wired(ids)
    <2>1. ASSUME NEW k \in {"token", "station"}, ids[k] # Nothing
          PROVE  OfKind(ids[k], "creator") = {ids["creator"]}
      BY <1>1, <1>3, <1>5, <1>7, <1>8, <1>9, <2>1 DEF Wired
    <2>2. ASSUME NEW k \in {"station", "trade", "factory"}, ids[k] # Nothing
          PROVE  OfKind(ids[k], "token") = {ids["token"]}
      BY <1>1, <1>3, <1>5, <1>7, <1>8, <1>9, <2>2 DEF Wired
    <2>3. ASSUME NEW k \in {"trade", "factory"}, ids[k] # Nothing
          PROVE  OfKind(ids[k], "station") = {ids["station"]}
      BY <1>1, <1>3, <1>5, <1>7, <1>8, <1>9, <2>3 DEF Wired
    <2> QED
      BY <2>1, <2>2, <2>3 DEF Wired
  <1>11. Names(env)' /\ Wired(env)' /\ Told' /\ Agreed'
    <2>1. \A c, k : OfKind(c, k)' = OfKind(c, k)
      BY <1>4 DEF OfKind
    <2>2. Names(env)' /\ Told'
      BY <1>1, <1>4, <1>6 DEF Names, Told
    <2>3. Wired(env)'
      BY <1>4, <1>10, <2>1 DEF Wired
    <2>4. Agreed'
      BY <1>1, <1>4, <2>1 DEF Agreed
    <2> QED
      BY <2>2, <2>3, <2>4
  <1>12. /\ NoIds \in [Kinds -> Nat] /\ \A k \in Kinds : NoIds[k] = Nothing
         /\ NoSession \in Sessions /\ NoSession.holds = NoIds /\ NoSession.script = "none"
    BY DEF NoIds, Nothing, NoSession, Sessions
  <1>13. Names(session.holds)' /\ Wired(session.holds)' /\ SameAsEnv' /\ Reached'
    BY <1>4, <1>5, <1>12 DEF Names, Wired, SameAsEnv, Reached
  <1>14. DeploymentTypeOK'
    BY <1>2, <1>3, <1>4, <1>12 DEF DeploymentTypeOK
  <1> QED
    BY <1>11, <1>13, <1>14 DEF DeploymentInv

-----------------------------------------------------------------------------

LEMMA StartsAgreed == DeploymentInit => DeploymentInv
  <1> SUFFICES ASSUME DeploymentInit PROVE DeploymentInv
    OBVIOUS
  <1>1. /\ NoIds \in [Kinds -> Nat] /\ \A k \in Kinds : NoIds[k] = Nothing
        /\ NoSession \in Sessions /\ NoSession.holds = NoIds /\ NoSession.script = "none"
    BY DEF NoIds, Nothing, NoSession, Sessions
  <1>2. {"creator", "token", "station", "trade", "factory"} \subseteq Kinds
    BY DEF Kinds
  <1>3. session = NoSession /\ users = {} /\ announced = {}
    BY DEF DeploymentInit
  <1>4. Names(session.holds) /\ Wired(session.holds) /\ SameAsEnv /\ Reached
    BY <1>1, <1>2, <1>3 DEF Names, Wired, SameAsEnv, Reached
  <1>5. CASE made = <<>> /\ env = NoIds
    <2>1. DeploymentTypeOK
      BY <1>1, <1>3, <1>5 DEF DeploymentTypeOK
    <2>2. Told /\ Agreed
      BY <1>3, <1>5 DEF Told, Agreed
    <2>3. Names(env) /\ Wired(env)
      BY <1>1, <1>2, <1>5 DEF Names, Wired
    <2> QED
      BY <1>4, <2>1, <2>2, <2>3 DEF DeploymentInv
  <1>6. CASE /\ made = <<[kind |-> "creator", uses |-> {}], [kind |-> "token", uses |-> {1}]>>
             /\ env = [NoIds EXCEPT !["creator"] = 1, !["token"] = 2]
    <2>1. /\ env \in [Kinds -> Nat] /\ env["creator"] = 1 /\ env["token"] = 2
          /\ \A k \in Kinds \ {"creator", "token"} : env[k] = Nothing
      BY <1>1, <1>2, <1>6
    <2>2. /\ DOMAIN made = {1, 2} /\ made[1].kind = "creator" /\ made[1].uses = {}
          /\ made[2].kind = "token" /\ made[2].uses = {1}
      BY <1>6
    <2>3. made \in Seq(Contracts)
      <3>1. /\ [kind |-> "creator", uses |-> {}] \in Contracts
            /\ [kind |-> "token", uses |-> {1}] \in Contracts
        BY <1>2 DEF Contracts
      <3> QED
        BY <1>6, <3>1
    <2>4. DeploymentTypeOK
      BY <1>1, <1>3, <2>1, <2>3 DEF DeploymentTypeOK
    <2>5. Told
      BY <2>2 DEF Told, Uses, Kinds
    <2>6. OfKind(2, "creator") = {1} /\ \A k : OfKind(1, k) = {}
      BY <2>2 DEF OfKind
    <2>7. Agreed
      <3>1. \A c \in DOMAIN made : \A d \in made[c].uses : d = 1
        BY <2>2
      <3> QED
        BY <1>3, <2>6, <3>1 DEF Agreed
    <2>8. Names(env) /\ Wired(env)
      BY <1>2, <2>1, <2>2, <2>6 DEF Names, Wired, Nothing
    <2> QED
      BY <1>4, <2>4, <2>5, <2>7, <2>8 DEF DeploymentInv
  <1> QED
    BY <1>5, <1>6 DEF DeploymentInit

LEMMA DeployingStep == DeploymentInv /\ [Deploying]_deploymentVars => DeploymentInv'
  <1> SUFFICES ASSUME DeploymentInv, [Deploying]_deploymentVars PROVE DeploymentInv'
    OBVIOUS
  <1>1. CASE \E script \in DOMAIN Needs : StartScript(script)
    BY <1>1, StartStep
  <1>2. CASE Reuse
    BY <1>2, ReuseStep
  <1>3. CASE Deploy
    BY <1>3, DeployStep
  <1>4. CASE AddContractUser
    BY <1>4, AddContractUserStep
  <1>5. CASE EndScript
    BY <1>5, EndScriptStep
  <1>6. CASE UNCHANGED deploymentVars
    <2>1. UNCHANGED <<made, users, env, session, announced>>
      BY <1>6 DEF deploymentVars
    <2>2. \A c, k : OfKind(c, k)' = OfKind(c, k) /\ InEnv(k)' = InEnv(k)
      BY <2>1 DEF OfKind, InEnv
    <2>3. DeploymentTypeOK' /\ Told' /\ Names(env)' /\ Names(session.holds)' /\ Reached'
      BY <2>1 DEF DeploymentInv, DeploymentTypeOK, Told, Names, Reached
    <2>4. Agreed' /\ SameAsEnv'
      BY <2>1, <2>2 DEF DeploymentInv, Agreed, SameAsEnv
    <2>5. Wired(env)' /\ Wired(session.holds)'
      BY <2>1 DEF DeploymentInv, Wired, OfKind
    <2> QED
      BY <2>3, <2>4, <2>5 DEF DeploymentInv
  <1> QED
    BY <1>1, <1>2, <1>3, <1>4, <1>5, <1>6 DEF Deploying

\* Whatever the scripts do and wherever they stop, ids stand for contracts of
\* their kind, and those were told what the other ids of .env and of the run
\* stand for (deployLazySecureTrade.js, deployBidderContractFactory.js).
THEOREM DeploymentInvariance == DeploymentSpec => []DeploymentInv
  <1> QED
    BY StartsAgreed, DeployingStep, PTL DEF DeploymentSpec

\* The contracts on the network agree with each other, .env with them, and an
\* admission that was reported with both.
THEOREM DeploymentsAgreeHolds == DeploymentSpec => []DeploymentsAgree
  <1>1. DeploymentInv => DeploymentsAgree
    <2> SUFFICES ASSUME DeploymentInv PROVE DeploymentsAgree
      OBVIOUS
    <2>1. Agreed /\ Wired(env)
      BY DEF DeploymentInv
    <2> QED
      BY <2>1 DEF Agreed, Wired, DeploymentsAgree
  <1> QED
    BY <1>1, DeploymentInvariance, PTL

-----------------------------------------------------------------------------
(* The multisig operations of the bid factory.                               *)

Calls == [name : {"withdrawProtocolProfit", "setArbitragePayoutBps"}]
             \cup [name : {"transferOwnership"}, to : Nat]

Jobs == [pc : {"idle", "transfer", "coordinated", "byHand", "alone", "done"},
         account : Nat, op : Calls \cup {NoJob.op}, applied : Nat, unheard : BOOLEAN]

MultisigTypeOK ==
    /\ accounts \in Seq([keys : SUBSET Signers, threshold : Nat])
    /\ known \subseteq Nat /\ config \in Nat /\ owner \in Nat /\ profit \in Nat
    /\ payout \in {"none", "waiting", "due"}
    /\ job \in Jobs

\* A run has done nothing before its first transaction.  By the time it asks
\* for signatures it may have had its effect once, unheard; and if that moved
\* the ownership, it moved it to whom the operation names.
JobInv ==
    /\ job.pc \in {"coordinated", "byHand", "alone"} => job.op \in Calls
    /\ job.pc \in {"idle", "transfer", "coordinated", "alone"} => job.applied = 0
    /\ job.pc = "byHand" => job.applied = 0 \/ (job.applied = 1 /\ job.unheard)
    /\ job.pc = "byHand" /\ job.applied = 1 /\ job.op.name = "transferOwnership" =>
          owner = job.op.to

MultisigInv == MultisigTypeOK /\ JobInv /\ RepeatsOnlyTheUnheard

-----------------------------------------------------------------------------
\* The three ways a call changes the factory.
LEMMA CallCases ==
    ASSUME MultisigTypeOK, NEW op \in Calls, NEW sender, AcceptsCall(op, sender), Call(op)
    PROVE  /\ owner' \in Nat /\ profit' \in Nat /\ payout' \in {"none", "waiting", "due"}
           /\ op.name = "transferOwnership" => owner' = op.to
  <1> USE DEF MultisigTypeOK, AcceptsCall
  <1>1. CASE op.name = "withdrawProtocolProfit"
    BY <1>1 DEF Call
  <1>2. CASE op.name = "setArbitragePayoutBps"
    BY <1>2 DEF Call
  <1>3. CASE op.name = "transferOwnership"
    <2>1. op.to \in Nat
      BY <1>3 DEF Calls
    <2> QED
      BY <1>3, <2>1 DEF Call
  <1> QED
    BY <1>1, <1>2, <1>3 DEF Calls

\* A run whose operation takes effect for the first time, or, signed by hand
\* after an effect unheard, for the second.
LEMMA EffectStep ==
    ASSUME MultisigInv, NEW pc \in {"byHand", "done"}, NEW unheard \in BOOLEAN,
           job.pc \in {"coordinated", "byHand", "alone"}, TakesEffect(pc, unheard),
           pc = "byHand" => job.pc = "coordinated" /\ unheard,
           job.pc = "byHand" => unheard = job.unheard,
           UNCHANGED <<accounts, known, config>>
    PROVE  MultisigInv'
  <1> USE DEF MultisigInv
  <1>1. job \in Jobs /\ job.op \in Calls
    BY DEF MultisigTypeOK, JobInv
  <1>2. /\ AcceptsCall(job.op, job.account) /\ Call(job.op)
        /\ job' = [job EXCEPT !.pc = pc, !.applied = @ + 1, !.unheard = unheard]
    BY DEF TakesEffect
  <1>3. /\ job' \in Jobs /\ job'.pc = pc /\ job'.applied = job.applied + 1
        /\ job'.unheard = unheard /\ job'.op = job.op /\ job'.account = job.account
    <2> DEFINE Ops == Calls \cup {NoJob.op}
    <2>1. job \in [pc : {"idle", "transfer", "coordinated", "byHand", "alone", "done"},
                   account : Nat, op : Ops, applied : Nat, unheard : BOOLEAN]
      BY <1>1 DEF Jobs
    <2>2. job' = [pc |-> pc, account |-> job.account, op |-> job.op,
                  applied |-> job.applied + 1, unheard |-> unheard]
      <3> HIDE DEF Ops
      <3> QED
        BY <1>2, <2>1
    <2>3. job.account \in Nat /\ job.op \in Ops /\ job.applied + 1 \in Nat
      <3> HIDE DEF Ops
      <3> QED
        BY <2>1
    <2>4. job' \in [pc : {"idle", "transfer", "coordinated", "byHand", "alone", "done"},
                    account : Nat, op : Ops, applied : Nat, unheard : BOOLEAN]
      <3> HIDE DEF Ops
      <3> QED
        BY <2>2, <2>3
    <2>5. job' \in Jobs
      BY <2>4 DEF Jobs
    <2> HIDE DEF Ops
    <2> QED
      BY <2>2, <2>5
  <1>4. /\ owner' \in Nat /\ profit' \in Nat /\ payout' \in {"none", "waiting", "due"}
        /\ job.op.name = "transferOwnership" => owner' = job.op.to
    BY <1>1, <1>2, CallCases
  <1>5. MultisigTypeOK'
    BY <1>3, <1>4 DEF MultisigTypeOK
  <1>6. job.applied \in Nat
    BY <1>1 DEF Jobs
  <1>7. JobInv'
    BY <1>1, <1>3, <1>4, <1>6 DEF JobInv
  <1>8. RepeatsOnlyTheUnheard'
    <2>1. CASE job.pc # "byHand"
      BY <1>3, <1>6, <2>1 DEF JobInv, RepeatsOnlyTheUnheard
    <2>2. CASE job.pc = "byHand"
      <3>1. job.applied = 0 \/ (job.applied = 1 /\ unheard)
        BY <2>2 DEF JobInv
      <3>2. job.applied = 1 /\ job.op.name = "transferOwnership" => job.op.to = job.account
        BY <1>2, <2>2 DEF JobInv, AcceptsCall
      <3> QED
        BY <1>3, <3>1, <3>2 DEF RepeatsOnlyTheUnheard
    <2> QED
      BY <2>1, <2>2
  <1> QED
    BY <1>5, <1>7, <1>8

LEMMA NoEffectStep ==
    ASSUME MultisigInv, NEW pc \in {"byHand", "done"},
           job.pc \in {"coordinated", "byHand", "alone"}, HasNone(pc),
           pc = "byHand" => job.pc = "coordinated",
           UNCHANGED <<accounts, known, config>>
    PROVE  MultisigInv'
  <1> USE DEF MultisigInv
  <1>1. job \in Jobs
    BY DEF MultisigTypeOK
  <1>2. job' = [job EXCEPT !.pc = pc] /\ UNCHANGED contractVars
    BY DEF HasNone
  <1>3. /\ job' \in Jobs /\ job'.pc = pc /\ job'.applied = job.applied
        /\ job'.unheard = job.unheard /\ job'.op = job.op /\ job'.account = job.account
    BY <1>1, <1>2 DEF Jobs
  <1>4. MultisigTypeOK'
    BY <1>2, <1>3 DEF MultisigTypeOK, contractVars
  <1>5. JobInv'
    BY <1>2, <1>3 DEF JobInv, contractVars
  <1>6. RepeatsOnlyTheUnheard'
    BY <1>3 DEF RepeatsOnlyTheUnheard
  <1> QED
    BY <1>4, <1>5, <1>6

\* The steps after which no run is on, or one that has done nothing.
LEMMA FreshStep ==
    ASSUME MultisigInv, MultisigTypeOK', job'.applied = 0,
           job'.pc \in {"coordinated", "byHand", "alone"} => job'.op \in Calls
    PROVE  MultisigInv'
  BY DEF MultisigInv, JobInv, RepeatsOnlyTheUnheard

LEMMA IdleJob == NoJob \in Jobs /\ NoJob.applied = 0 /\ NoJob.pc = "idle"
  BY DEF NoJob, Jobs, operator

\* The inductive invariant of the hand-over and of the factory's operations.
THEOREM MultisigInvariance == MultisigSpec => []MultisigInv
  <1>1. MultisigInit => MultisigInv
    <2> SUFFICES ASSUME MultisigInit PROVE MultisigInv
      OBVIOUS
    <2>1. MultisigTypeOK
      BY IdleJob, MultisigAssumption DEF MultisigInit, MultisigTypeOK, operator
    <2> QED
      BY <2>1, IdleJob DEF MultisigInit, MultisigInv, JobInv, RepeatsOnlyTheUnheard
  <1>2. MultisigInv /\ [Operating]_multisigVars => MultisigInv'
    <2> SUFFICES ASSUME MultisigInv, [Operating]_multisigVars PROVE MultisigInv'
      OBVIOUS
    <2>1. MultisigTypeOK
      BY DEF MultisigInv
    <2>2. CASE TimelockElapses \/ ApplyArbBps \/ Configure
      <3>1. /\ accounts' = accounts /\ known' = known /\ owner' = owner /\ job' = job
            /\ profit' = profit /\ config' \in known \cup {operator, config}
            /\ payout' \in {"none", "due", payout}
        BY <2>2 DEF TimelockElapses, ApplyArbBps, Configure, contractVars
      <3>2. MultisigTypeOK'
        BY <2>1, <3>1 DEF MultisigTypeOK, operator
      <3> QED
        BY <3>1, <3>2 DEF MultisigInv, JobInv, RepeatsOnlyTheUnheard
    <2>3. CASE TransferToMultisig
      <3> DEFINE op == [name |-> "transferOwnership", to |-> job.account]
      <3>1. op \in Calls
        BY <2>1 DEF MultisigTypeOK, Jobs, Calls
      <3>2. owner' \in Nat /\ profit' \in Nat /\ payout' \in {"none", "waiting", "due"}
        <4>1. CASE AcceptsCall(op, operator)
          BY <2>1, <2>3, <3>1, <4>1, CallCases DEF TransferToMultisig
        <4>2. CASE ~ AcceptsCall(op, operator)
          BY <2>1, <2>3, <4>2 DEF TransferToMultisig, MultisigTypeOK, contractVars
        <4> QED
          BY <4>1, <4>2
      <3>3. MultisigTypeOK' /\ job' = NoJob
        BY <2>1, <2>3, <3>2, IdleJob DEF TransferToMultisig, MultisigTypeOK
      <3> QED
        BY <3>3, IdleJob, FreshStep
    <2>4. CASE \E keys \in SUBSET Signers, threshold \in 1 .. Cardinality(Signers) :
                  CreateAccount(keys, threshold)
      <3>1. PICK keys \in SUBSET Signers, threshold \in 1 .. Cardinality(Signers) :
                  CreateAccount(keys, threshold)
        BY <2>4
      <3>2. accounts' \in Seq([keys : SUBSET Signers, threshold : Nat])
        BY <2>1, <3>1 DEF CreateAccount, MultisigTypeOK
      <3>3. Len(accounts) + 1 \in Nat
        BY <2>1 DEF MultisigTypeOK
      <3>4. known' \subseteq Nat
        BY <2>1, <3>1, <3>3 DEF CreateAccount, MultisigTypeOK
      <3>5. job' \in Jobs /\ job'.applied = 0 /\ job'.pc \in {"idle", "transfer"}
        BY <3>1, <3>3, IdleJob DEF CreateAccount, Jobs
      <3>6. MultisigTypeOK'
        BY <2>1, <3>1, <3>2, <3>4, <3>5 DEF CreateAccount, MultisigTypeOK, contractVars
      <3> QED
        BY <3>5, <3>6, FreshStep
    <2>5. CASE \E op \in Operations, installed \in BOOLEAN : StartOperation(op, installed)
      <3>1. PICK op \in Operations, installed \in BOOLEAN : StartOperation(op, installed)
        BY <2>5
      <3>2. op \in Calls
        <4>1. {operator, someoneElse} \cup known \subseteq Nat
          BY <2>1, MultisigAssumption DEF MultisigTypeOK, operator, someoneElse
        <4>2. CASE op \in [name : {"withdrawProtocolProfit", "setArbitragePayoutBps"}]
          BY <4>2 DEF Calls
        <4>3. CASE op \in [name : {"transferOwnership"}, to : {operator, someoneElse} \cup known]
          BY <4>1, <4>3 DEF Calls
        <4> QED
          BY <4>2, <4>3 DEF Operations
      <3>3. /\ job' \in Jobs /\ job'.applied = 0 /\ job'.op = op
        <4> DEFINE pc == CASE config = operator -> "alone"
                           [] config # operator /\ installed -> "coordinated"
                           [] OTHER -> "byHand"
        <4>1. pc \in {"alone", "coordinated", "byHand"}
          OBVIOUS
        <4>2. job' = [NoJob EXCEPT !.op = op, !.account = config, !.pc = pc]
          BY <3>1 DEF StartOperation
        <4>3. config \in Nat
          BY <2>1 DEF MultisigTypeOK
        <4> HIDE DEF pc
        <4> QED
          BY <3>2, <4>1, <4>2, <4>3, IdleJob DEF Jobs
      <3>4. MultisigTypeOK'
        BY <2>1, <3>1, <3>3 DEF StartOperation, MultisigTypeOK, contractVars
      <3> QED
        BY <3>2, <3>3, <3>4, FreshStep
    <2>6. CASE Coordinate
      <3>1. CASE TakesEffect("done", FALSE)
        BY <2>6, <3>1, EffectStep DEF Coordinate
      <3>2. CASE TakesEffect("byHand", TRUE)
        BY <2>6, <3>2, EffectStep DEF Coordinate
      <3>3. CASE HasNone("byHand")
        BY <2>6, <3>3, NoEffectStep DEF Coordinate
      <3> QED
        BY <2>6, <3>1, <3>2, <3>3 DEF Coordinate
    <2>7. CASE SignAlone
      <3>1. CASE TakesEffect("done", FALSE)
        BY <2>7, <3>1, EffectStep DEF SignAlone
      <3>2. CASE HasNone("done")
        BY <2>7, <3>2, NoEffectStep DEF SignAlone
      <3> QED
        BY <2>7, <3>1, <3>2 DEF SignAlone
    <2>8. CASE \E signers \in SUBSET Signers : SignByHand(signers)
      <3>1. PICK signers \in SUBSET Signers : SignByHand(signers)
        BY <2>8
      <3>2. job.unheard \in BOOLEAN
        BY <2>1 DEF MultisigTypeOK, Jobs
      <3>3. CASE TakesEffect("done", job.unheard)
        BY <3>1, <3>2, <3>3, EffectStep DEF SignByHand
      <3>4. CASE HasNone("done")
        BY <3>1, <3>4, NoEffectStep DEF SignByHand
      <3> QED
        BY <3>1, <3>3, <3>4 DEF SignByHand
    <2>9. CASE EndJob
      <3>1. MultisigTypeOK' /\ job' = NoJob
        BY <2>1, <2>9, IdleJob DEF EndJob, MultisigTypeOK, contractVars
      <3> QED
        BY <3>1, IdleJob, FreshStep
    <2>10. CASE UNCHANGED multisigVars
      BY <2>10 DEF multisigVars, MultisigInv, MultisigTypeOK, JobInv, RepeatsOnlyTheUnheard
    <2> QED
      BY <2>2, <2>3, <2>4, <2>5, <2>6, <2>7, <2>8, <2>9, <2>10 DEF Operating
  <1> QED
    BY <1>1, <1>2, PTL DEF MultisigSpec

\* multisigFactoryOps: the fall-back to signing by hand repeats an operation
\* only if the coordinator threw after it took effect, once, and never moves
\* the ownership of the factory twice.
THEOREM RepeatsOnlyTheUnheardHolds == MultisigSpec => []RepeatsOnlyTheUnheard
  <1>1. MultisigInv => RepeatsOnlyTheUnheard
    BY DEF MultisigInv
  <1> QED
    BY <1>1, MultisigInvariance, PTL

-----------------------------------------------------------------------------
(* The delegate registry.                                                    *)

\* A serial delegated is on the lists of its two sides, and nothing else is,
\* but for serials that were ever delegated to nobody.  A collection is on the
\* list of a side as long as a serial of it is; a renewal may drop it.
RegistryState ==
    [delegatedNFT : UNION {[S -> Addresses] : S \in SUBSET Items},
     delegator : [Items -> Addresses],
     serials : [Addresses \X Collections -> SUBSET Serials],
     tokensTo : [Addresses -> SUBSET Collections],
     tokensBy : [Addresses -> SUBSET Collections],
     tokens : SUBSET Collections,
     total : Int,
     last : [Items -> {<<>>} \cup (Wallets \X Addresses)],
     renewed : SUBSET Items,
     zeroed : SUBSET Items]

Sides(r, x) == {r.delegatedNFT[x], r.delegator[x]}
Renewed(r, token) == \E y \in r.renewed : y[1] = token

Sound(r) ==
    /\ IsFiniteSet(DOMAIN r.delegatedNFT)
    /\ \A x \in DOMAIN r.delegatedNFT :
          /\ r.delegator[x] \in Wallets
          /\ r.last[x] = <<r.delegator[x], r.delegatedNFT[x]>>
          /\ r.delegatedNFT[x] = Nobody => x \in r.zeroed
          /\ x[1] \in r.tokens /\ x[1] \in r.tokensBy[r.delegator[x]]
          /\ Renewed(r, x[1]) \/ x[1] \in r.tokensTo[r.delegatedNFT[x]]
          /\ \A a \in Sides(r, x) : x[2] \in r.serials[a, x[1]]
    /\ \A x \in Items \ DOMAIN r.delegatedNFT : r.last[x] = <<>>
    /\ \A x \in Items \ r.zeroed, a \in Addresses :
          x[2] \in r.serials[a, x[1]] => x \in DOMAIN r.delegatedNFT /\ a \in Sides(r, x)
    /\ r.total >= Cardinality(DOMAIN r.delegatedNFT)
    /\ r.zeroed = {} => r.total = Cardinality(DOMAIN r.delegatedNFT)

WalletSound ==
    /\ wallet \in [delegate : [Wallets -> Addresses], delegatedTo : [Addresses -> SUBSET Wallets],
                   with : SUBSET Wallets]
    /\ \A w \in Wallets : LET d == wallet.delegate[w]
                          IN d # Nobody => w \in wallet.delegatedTo[d] \cap wallet.with

RegistryInv ==
    /\ holder \in [Items -> Wallets]
    /\ WalletSound
    /\ registry \in RegistryState
    /\ Sound(registry)

\* x is the only serial of its collection on the list of a.
Alone(r, a, x) ==
    \A y \in Items : y[1] = x[1] /\ y # x => y[2] \notin r.serials[a, y[1]]

\* u is r with x off the lists of gone, and its collection off the lists of
\* collections of d and of givers where nothing else of it is left.
UnlistedFrom(u, r, x, d, givers) ==
    /\ u \in RegistryState
    /\ u.delegatedNFT = r.delegatedNFT /\ u.delegator = r.delegator /\ u.last = r.last
    /\ u.tokens = r.tokens /\ u.total = r.total
    /\ u.renewed = r.renewed /\ u.zeroed = r.zeroed
    /\ \A a \in Addresses, y \in Items :
          y[2] \in u.serials[a, y[1]] <=>
             y[2] \in r.serials[a, y[1]] /\ ~(y = x /\ a \in givers \cup {d})
    /\ \A a \in Addresses : \A t \in r.tokensTo[a] :
          t \in u.tokensTo[a] \/ (a = d /\ t = x[1] /\ Alone(r, a, x))
    /\ \A a \in Addresses : \A t \in r.tokensBy[a] :
          t \in u.tokensBy[a] \/ (a \in givers /\ t = x[1] /\ Alone(r, a, x))

LEMMA RegistryFields ==
    ASSUME NEW r \in RegistryState
    PROVE  /\ DOMAIN r.delegatedNFT \subseteq Items
           /\ \A x \in DOMAIN r.delegatedNFT : r.delegatedNFT[x] \in Addresses
           /\ r.delegatedNFT \in [DOMAIN r.delegatedNFT -> Addresses]
           /\ r.delegator \in [Items -> Addresses]
           /\ r.serials \in [Addresses \X Collections -> SUBSET Serials]
           /\ r.tokensTo \in [Addresses -> SUBSET Collections]
           /\ r.tokensBy \in [Addresses -> SUBSET Collections]
           /\ r.tokens \in SUBSET Collections
           /\ r.total \in Int
           /\ r.last \in [Items -> {<<>>} \cup (Wallets \X Addresses)]
           /\ r.renewed \in SUBSET Items /\ r.zeroed \in SUBSET Items
  <1>1. r.delegatedNFT \in UNION {[S -> Addresses] : S \in SUBSET Items}
    BY DEF RegistryState
  <1>2. PICK S \in SUBSET Items : r.delegatedNFT \in [S -> Addresses]
    BY <1>1
  <1>3. DOMAIN r.delegatedNFT = S
    BY <1>2
  <1> QED
    BY <1>2, <1>3 DEF RegistryState

LEMMA UnlistedEffect ==
    ASSUME NEW r \in RegistryState, NEW w \in Wallets, NEW x \in DOMAIN r.delegatedNFT,
           NEW full \in BOOLEAN,
           NEW givers, givers = (IF full THEN {w, r.delegator[x]} ELSE {r.delegator[x]} \ {w})
    PROVE  UnlistedFrom(Unlisted(r, w, x, full), r, x, r.delegatedNFT[x], givers)
  <1> DEFINE d == r.delegatedNFT[x]
             serials == [h \in DOMAIN r.serials |->
                            IF h[2] = x[1] /\ h[1] \in givers \cup {d}
                            THEN r.serials[h] \ {x[2]} ELSE r.serials[h]]
             Left(side, who) ==
                 [a \in Addresses |-> IF a \in who /\ serials[a, x[1]] = {}
                                      THEN side[a] \ {x[1]} ELSE side[a]]
             u == [r EXCEPT !.serials = serials,
                            !.tokensTo = Left(r.tokensTo, {d}),
                            !.tokensBy = Left(r.tokensBy, givers)]
  <1>1. Unlisted(r, w, x, full) = u
    BY DEF Unlisted
  <1>2. /\ x \in Items /\ d \in Addresses
        /\ r.serials \in [Addresses \X Collections -> SUBSET Serials]
        /\ r.tokensTo \in [Addresses -> SUBSET Collections]
        /\ r.tokensBy \in [Addresses -> SUBSET Collections]
    BY RegistryFields
  <1>3. x[1] \in Collections /\ x[2] \in Serials /\ x = <<x[1], x[2]>>
    BY <1>2 DEF Items
  <1>4. serials \in [Addresses \X Collections -> SUBSET Serials]
    BY <1>2
  <1>5. ASSUME NEW a \in Addresses, NEW y \in Items
        PROVE  y[2] \in serials[a, y[1]] <=>
                  y[2] \in r.serials[a, y[1]] /\ ~(y = x /\ a \in givers \cup {d})
    <2>1. y[1] \in Collections /\ y[2] \in Serials /\ y = <<y[1], y[2]>>
      BY DEF Items
    <2>2. serials[a, y[1]] = (IF y[1] = x[1] /\ a \in givers \cup {d}
                              THEN r.serials[a, y[1]] \ {x[2]} ELSE r.serials[a, y[1]])
      BY <1>2, <2>1
    <2>3. y = x <=> y[1] = x[1] /\ y[2] = x[2]
      BY <1>3, <2>1
    <2> HIDE DEF serials
    <2> QED
      BY <2>2, <2>3
  <1>6. ASSUME NEW a \in Addresses, serials[a, x[1]] = {}
        PROVE  Alone(r, a, x)
    <2> SUFFICES ASSUME NEW y \in Items, y[1] = x[1], y # x
                 PROVE  y[2] \notin r.serials[a, y[1]]
      BY DEF Alone
    <2> HIDE DEF serials
    <2> QED
      BY <1>5, <1>6
  <1>7. /\ Left(r.tokensTo, {d}) \in [Addresses -> SUBSET Collections]
        /\ Left(r.tokensBy, givers) \in [Addresses -> SUBSET Collections]
    <2> HIDE DEF serials, d
    <2> QED
      BY <1>2
  <1>8. /\ \A a \in Addresses : \A t \in r.tokensTo[a] :
              t \in Left(r.tokensTo, {d})[a] \/ (a = d /\ t = x[1] /\ Alone(r, a, x))
        /\ \A a \in Addresses : \A t \in r.tokensBy[a] :
              t \in Left(r.tokensBy, givers)[a] \/ (a \in givers /\ t = x[1] /\ Alone(r, a, x))
    <2> HIDE DEF serials, d
    <2> QED
      BY <1>6
  <1> HIDE DEF serials, Left
  <1>9. /\ u \in RegistryState
        /\ u.serials = serials
        /\ u.tokensTo = Left(r.tokensTo, {d}) /\ u.tokensBy = Left(r.tokensBy, givers)
        /\ u.delegatedNFT = r.delegatedNFT /\ u.delegator = r.delegator /\ u.last = r.last
        /\ u.tokens = r.tokens /\ u.total = r.total
        /\ u.renewed = r.renewed /\ u.zeroed = r.zeroed
    BY <1>4, <1>7 DEF RegistryState
  <1> HIDE DEF d
  <1>10. UnlistedFrom(u, r, x, d, givers)
    BY <1>5, <1>8, <1>9 DEF UnlistedFrom
  <1> QED
    BY <1>1, <1>10 DEF u, d

\* Who goes from the lists of x when w delegates it: nobody at all, or the
\* delegate it had and a delegator who has sold.
Leaving(r, w, x) ==
    IF HasDelegate(r, x) THEN {r.delegatedNFT[x]} \cup ({r.delegator[x]} \ {w}) ELSE {}

\* What the other fields are after a delegation of x to d, and what is left of
\* the collections.
DelegatedFrom(v, r, w, d, x) ==
    /\ v \in RegistryState
    /\ v.delegatedNFT = [y \in DOMAIN r.delegatedNFT \cup {x} |->
                            IF y = x THEN d ELSE r.delegatedNFT[y]]
    /\ v.delegator = [r.delegator EXCEPT ![x] = w]
    /\ v.last = [r.last EXCEPT ![x] = <<w, d>>]
    /\ v.tokens = r.tokens
    /\ v.total = r.total + (IF HasDelegate(r, x) THEN 0 ELSE 1)
    /\ v.renewed = (IF x \in DOMAIN r.delegatedNFT /\ r.delegatedNFT[x] = d
                    THEN r.renewed \cup {x} ELSE r.renewed)
    /\ v.zeroed = (IF d = Nobody THEN r.zeroed \cup {x} ELSE r.zeroed)
    /\ \A a \in Addresses, y \in Items :
          y[2] \in v.serials[a, y[1]] <=>
             \/ y = x /\ a \in {w, d}
             \/ y[2] \in r.serials[a, y[1]] /\ ~(y = x /\ a \in Leaving(r, w, x))
    /\ \A a \in Addresses : \A t \in r.tokensTo[a] :
          t \in v.tokensTo[a] \/ (HasDelegate(r, x) /\ a = r.delegatedNFT[x] /\ t = x[1]
                                  /\ Alone(r, a, x))
    /\ \A a \in Addresses : \A t \in r.tokensBy[a] :
          t \in v.tokensBy[a] \/ (HasDelegate(r, x) /\ a = r.delegator[x] /\ a # w /\ t = x[1]
                                  /\ Alone(r, a, x))

\* The lists when the delegation that stood has been unwound, or there was none.
ClearedFrom(c, r, w, x) ==
    /\ c \in RegistryState
    /\ c.delegatedNFT = r.delegatedNFT
    /\ c.delegator = [r.delegator EXCEPT ![x] = w]
    /\ c.last = r.last /\ c.tokens = r.tokens /\ c.renewed = r.renewed /\ c.zeroed = r.zeroed
    /\ c.total = r.total + (IF HasDelegate(r, x) THEN 0 ELSE 1)
    /\ \A a \in Addresses, y \in Items :
          y[2] \in c.serials[a, y[1]] <=>
             y[2] \in r.serials[a, y[1]] /\ ~(y = x /\ a \in Leaving(r, w, x))
    /\ \A a \in Addresses : \A t \in r.tokensTo[a] :
          t \in c.tokensTo[a] \/ (HasDelegate(r, x) /\ a = r.delegatedNFT[x] /\ t = x[1]
                                  /\ Alone(r, a, x))
    /\ \A a \in Addresses : \A t \in r.tokensBy[a] :
          t \in c.tokensBy[a] \/ (HasDelegate(r, x) /\ a = r.delegator[x] /\ a # w /\ t = x[1]
                                  /\ Alone(r, a, x))

LEMMA ClearedEffect ==
    ASSUME NEW r \in RegistryState, NEW w \in Wallets, NEW x \in Items
    PROVE  ClearedFrom(IF HasDelegate(r, x) THEN Revoked(r, w, x, FALSE)
                       ELSE [r EXCEPT !.total = @ + 1, !.delegator[x] = w], r, w, x)
  <1>0. w \in Addresses /\ r.delegator \in [Items -> Addresses] /\ r.total \in Int
    BY RegistryFields DEF Addresses
  <1>1. CASE HasDelegate(r, x)
    <2> DEFINE d == r.delegatedNFT[x]
               givers == {r.delegator[x]} \ {w}
               u == Unlisted(r, w, x, FALSE)
               c == [u EXCEPT !.delegator[x] = w]
    <2>1. x \in DOMAIN r.delegatedNFT
      BY <1>1 DEF HasDelegate
    <2>2. UnlistedFrom(u, r, x, d, givers)
      BY <2>1, UnlistedEffect
    <2>3. /\ u.delegatedNFT = r.delegatedNFT /\ u.delegator = r.delegator
          /\ u.last = r.last /\ u.tokens = r.tokens /\ u.renewed = r.renewed
          /\ u.zeroed = r.zeroed /\ u.total = r.total
      BY <2>2 DEF UnlistedFrom
    <2>4. Revoked(r, w, x, FALSE) = c
      BY DEF Revoked
    <2>5. Leaving(r, w, x) = givers \cup {d}
      BY <1>1 DEF Leaving
    <2> HIDE DEF u
    <2>6. u \in RegistryState
      BY <2>2 DEF UnlistedFrom
    <2>7. /\ c \in RegistryState /\ c.delegator = [r.delegator EXCEPT ![x] = w]
          /\ c.serials = u.serials /\ c.tokensTo = u.tokensTo /\ c.tokensBy = u.tokensBy
          /\ c.delegatedNFT = r.delegatedNFT
          /\ c.last = r.last /\ c.tokens = r.tokens /\ c.renewed = r.renewed
          /\ c.zeroed = r.zeroed /\ c.total = r.total
      BY <1>0, <2>3, <2>6 DEF RegistryState
    <2> HIDE DEF c
    <2>8. c.total = r.total + (IF HasDelegate(r, x) THEN 0 ELSE 1)
      BY <1>0, <1>1, <2>7
    <2>9. \A a \in Addresses, y \in Items :
             y[2] \in c.serials[a, y[1]] <=>
                y[2] \in r.serials[a, y[1]] /\ ~(y = x /\ a \in Leaving(r, w, x))
      BY <2>2, <2>5, <2>7 DEF UnlistedFrom
    <2>10. /\ \A a \in Addresses : \A t \in r.tokensTo[a] :
                 t \in c.tokensTo[a] \/ (HasDelegate(r, x) /\ a = r.delegatedNFT[x] /\ t = x[1]
                                         /\ Alone(r, a, x))
           /\ \A a \in Addresses : \A t \in r.tokensBy[a] :
                 t \in c.tokensBy[a] \/ (HasDelegate(r, x) /\ a = r.delegator[x] /\ a # w
                                         /\ t = x[1] /\ Alone(r, a, x))
      BY <1>1, <2>2, <2>7 DEF UnlistedFrom
    <2> QED
      BY <1>1, <2>4, <2>7, <2>8, <2>9, <2>10 DEF ClearedFrom
  <1>2. CASE ~HasDelegate(r, x)
    <2> DEFINE c == [r EXCEPT !.total = @ + 1, !.delegator[x] = w]
    <2>1. /\ c \in RegistryState /\ c.delegator = [r.delegator EXCEPT ![x] = w]
          /\ c.serials = r.serials /\ c.tokensTo = r.tokensTo /\ c.tokensBy = r.tokensBy
          /\ c.delegatedNFT = r.delegatedNFT
          /\ c.last = r.last /\ c.tokens = r.tokens /\ c.renewed = r.renewed
          /\ c.zeroed = r.zeroed /\ c.total = r.total + 1
      <3> DEFINE delegator == [r.delegator EXCEPT ![x] = w]
                 total == r.total + 1
      <3>1. delegator \in [Items -> Addresses] /\ total \in Int
        BY <1>0
      <3>2. c = [r EXCEPT !.total = total, !.delegator = delegator]
        BY DEF RegistryState
      <3> HIDE DEF delegator, total, c
      <3>3. /\ c \in RegistryState /\ c.delegator = delegator /\ c.total = total
            /\ c.serials = r.serials /\ c.tokensTo = r.tokensTo /\ c.tokensBy = r.tokensBy
            /\ c.delegatedNFT = r.delegatedNFT
            /\ c.last = r.last /\ c.tokens = r.tokens /\ c.renewed = r.renewed
            /\ c.zeroed = r.zeroed
        BY <3>1, <3>2 DEF RegistryState
      <3> QED
        BY <3>3 DEF delegator, total
    <2> HIDE DEF c
    <2>2. Leaving(r, w, x) = {}
      BY <1>2 DEF Leaving
    <2>3. ClearedFrom(c, r, w, x)
      BY <1>2, <2>1, <2>2 DEF ClearedFrom
    <2> QED
      BY <1>2, <2>3 DEF c
  <1> QED
    BY <1>1, <1>2

LEMMA DelegatedEffect ==
    ASSUME NEW r \in RegistryState, NEW w \in Wallets, NEW d \in Addresses, NEW x \in Items
    PROVE  DelegatedFrom(Delegated(r, w, d, x), r, w, d, x)
  <1> DEFINE c == IF HasDelegate(r, x) THEN Revoked(r, w, x, FALSE)
                  ELSE [r EXCEPT !.total = @ + 1, !.delegator[x] = w]
             map == [y \in DOMAIN c.delegatedNFT \cup {x} |->
                        IF y = x THEN d ELSE c.delegatedNFT[y]]
             serials == [h \in DOMAIN c.serials |->
                            IF h[1] \in {w, d} /\ h[2] = x[1]
                            THEN c.serials[h] \cup {x[2]} ELSE c.serials[h]]
             renewed == IF x \in DOMAIN r.delegatedNFT /\ r.delegatedNFT[x] = d
                        THEN c.renewed \cup {x} ELSE c.renewed
             zeroed == IF d = Nobody THEN c.zeroed \cup {x} ELSE c.zeroed
             v == [c EXCEPT !.delegatedNFT = map, !.serials = serials,
                            !.last[x] = <<w, d>>, !.renewed = renewed, !.zeroed = zeroed]
  <1>1. Delegated(r, w, d, x) = v
    BY DEF Delegated
  <1>2. ClearedFrom(c, r, w, x)
    BY ClearedEffect
  <1> HIDE DEF c
  <1>3. c \in RegistryState
    BY <1>2 DEF ClearedFrom
  <1>4. /\ DOMAIN c.delegatedNFT \subseteq Items
        /\ \A y \in DOMAIN c.delegatedNFT : c.delegatedNFT[y] \in Addresses
        /\ c.serials \in [Addresses \X Collections -> SUBSET Serials]
        /\ c.last \in [Items -> {<<>>} \cup (Wallets \X Addresses)]
        /\ c.renewed \in SUBSET Items /\ c.zeroed \in SUBSET Items
    BY <1>3, RegistryFields
  <1>5. x[1] \in Collections /\ x[2] \in Serials /\ x = <<x[1], x[2]>>
    BY DEF Items
  <1>6. map \in UNION {[S -> Addresses] : S \in SUBSET Items}
    <2>1. map \in [DOMAIN c.delegatedNFT \cup {x} -> Addresses]
      BY <1>4
    <2>2. DOMAIN c.delegatedNFT \cup {x} \in SUBSET Items
      BY <1>4
    <2> HIDE DEF map
    <2> QED
      BY <2>1, <2>2
  <1>7. /\ serials \in [Addresses \X Collections -> SUBSET Serials]
        /\ renewed \in SUBSET Items /\ zeroed \in SUBSET Items
    BY <1>4, <1>5
  <1>8. ASSUME NEW a \in Addresses, NEW y \in Items
        PROVE  y[2] \in serials[a, y[1]] <=>
                  (y = x /\ a \in {w, d}) \/ y[2] \in c.serials[a, y[1]]
    <2>1. y[1] \in Collections /\ y[2] \in Serials /\ y = <<y[1], y[2]>>
      BY DEF Items
    <2>2. serials[a, y[1]] = (IF a \in {w, d} /\ y[1] = x[1]
                              THEN c.serials[a, y[1]] \cup {x[2]} ELSE c.serials[a, y[1]])
      BY <1>4, <2>1
    <2>3. y = x <=> y[1] = x[1] /\ y[2] = x[2]
      BY <1>5, <2>1
    <2> HIDE DEF serials
    <2> QED
      BY <2>2, <2>3
  <1>9. [c.last EXCEPT ![x] = <<w, d>>] \in [Items -> {<<>>} \cup (Wallets \X Addresses)]
    BY <1>4
  <1> HIDE DEF serials, map, renewed, zeroed
  <1>10. /\ v \in RegistryState
         /\ v.delegatedNFT = map /\ v.delegator = c.delegator
         /\ v.serials = serials /\ v.tokensTo = c.tokensTo /\ v.tokensBy = c.tokensBy
         /\ v.tokens = c.tokens /\ v.total = c.total
         /\ v.last = [c.last EXCEPT ![x] = <<w, d>>]
         /\ v.renewed = renewed /\ v.zeroed = zeroed
    BY <1>3, <1>6, <1>7, <1>9 DEF RegistryState
  <1> HIDE DEF v
  <1>11. \A a \in Addresses, y \in Items :
            y[2] \in v.serials[a, y[1]] <=>
               \/ y = x /\ a \in {w, d}
               \/ y[2] \in r.serials[a, y[1]] /\ ~(y = x /\ a \in Leaving(r, w, x))
    BY <1>2, <1>8, <1>10 DEF ClearedFrom
  <1>12. DelegatedFrom(v, r, w, d, x)
    BY <1>2, <1>10, <1>11 DEF ClearedFrom, DelegatedFrom, map, renewed, zeroed
  <1> QED
    BY <1>1, <1>12

\* What delegateNFT has listed before its loop, and no turn of it takes back.
Ready(r, w, d, token) ==
    /\ token \in r.tokens
    /\ token \in r.tokensBy[w]
    /\ Renewed(r, token) \/ token \in r.tokensTo[d]

LEMMA DelegatedReady ==
    ASSUME NEW r \in RegistryState, NEW w \in Wallets, NEW d \in Addresses, NEW x \in Items,
           NEW v, DelegatedFrom(v, r, w, d, x), NEW token, Ready(r, w, d, token)
    PROVE  Ready(v, w, d, token)
  <1>1. token \in v.tokens
    BY DEF DelegatedFrom, Ready
  <1>2. token \in v.tokensBy[w]
    BY DEF DelegatedFrom, Ready, Addresses
  <1>3. r.renewed \subseteq v.renewed
    BY DEF DelegatedFrom
  <1>4. CASE Renewed(r, token)
    BY <1>1, <1>2, <1>3, <1>4 DEF Ready, Renewed
  <1>5. CASE token \in r.tokensTo[d]
    <2>1. token \in v.tokensTo[d]
             \/ (HasDelegate(r, x) /\ d = r.delegatedNFT[x] /\ token = x[1])
      BY <1>5 DEF DelegatedFrom
    <2>2. HasDelegate(r, x) /\ d = r.delegatedNFT[x] => x \in v.renewed
      BY DEF DelegatedFrom, HasDelegate
    <2> QED
      BY <1>1, <1>2, <2>1, <2>2 DEF Ready, Renewed
  <1> QED
    BY <1>4, <1>5 DEF Ready

LEMMA DelegatedSound ==
    ASSUME NEW r \in RegistryState, NEW w \in Wallets, NEW d \in Addresses, NEW x \in Items,
           Sound(r), Ready(r, w, d, x[1]),
           NEW v, DelegatedFrom(v, r, w, d, x)
    PROVE  Sound(v)
  <1> DEFINE M == DOMAIN r.delegatedNFT
             N == DOMAIN v.delegatedNFT
  <1>1. /\ M \subseteq Items /\ r.delegator \in [Items -> Addresses]
        /\ r.last \in [Items -> {<<>>} \cup (Wallets \X Addresses)]
        /\ r.total \in Int
    BY RegistryFields
  <1>2. /\ N = M \cup {x}
        /\ v.delegatedNFT[x] = d
        /\ \A y \in M : y # x => v.delegatedNFT[y] = r.delegatedNFT[y]
    BY DEF DelegatedFrom
  <1>3. /\ v.delegator[x] = w /\ v.last[x] = <<w, d>>
        /\ \A y \in Items : y # x => v.delegator[y] = r.delegator[y] /\ v.last[y] = r.last[y]
    BY <1>1 DEF DelegatedFrom
  <1>4. w \in Addresses
    BY DEF Addresses
  <1>5. r.zeroed \subseteq v.zeroed /\ r.renewed \subseteq v.renewed
    BY DEF DelegatedFrom
  <1>6. IsFiniteSet(M)
    BY DEF Sound
  <1>7. IsFiniteSet(N)
    BY <1>2, <1>6, FS_AddElement
  <1>8. ASSUME NEW y \in N
        PROVE  /\ v.delegator[y] \in Wallets
               /\ v.last[y] = <<v.delegator[y], v.delegatedNFT[y]>>
               /\ v.delegatedNFT[y] = Nobody => y \in v.zeroed
               /\ y[1] \in v.tokens /\ y[1] \in v.tokensBy[v.delegator[y]]
               /\ Renewed(v, y[1]) \/ y[1] \in v.tokensTo[v.delegatedNFT[y]]
               /\ \A a \in Sides(v, y) : y[2] \in v.serials[a, y[1]]
    <2>1. CASE y = x
      <3>1. Ready(v, w, d, x[1])
        BY DelegatedReady
      <3>2. d = Nobody => x \in v.zeroed
        BY DEF DelegatedFrom
      <3>3. \A a \in {w, d} : x[2] \in v.serials[a, x[1]]
        BY <1>4 DEF DelegatedFrom
      <3>4. Sides(v, x) = {w, d}
        BY <1>2, <1>3 DEF Sides
      <3> QED
        BY <1>2, <1>3, <2>1, <3>1, <3>2, <3>3, <3>4 DEF Ready
    <2>2. CASE y # x
      <3> DEFINE g == r.delegator[y]
                 e == r.delegatedNFT[y]
      <3>1. /\ y \in M /\ y \in Items /\ g \in Addresses /\ e \in Addresses
            /\ v.delegator[y] = g /\ v.delegatedNFT[y] = e /\ v.last[y] = r.last[y]
        BY <1>1, <1>2, <1>3, <2>2, RegistryFields
      <3>2. /\ g \in Wallets /\ r.last[y] = <<g, e>> /\ (e = Nobody => y \in r.zeroed)
            /\ y[1] \in r.tokens /\ y[1] \in r.tokensBy[g]
            /\ Renewed(r, y[1]) \/ y[1] \in r.tokensTo[e]
            /\ y[2] \in r.serials[g, y[1]] /\ y[2] \in r.serials[e, y[1]]
        BY <3>1 DEF Sound, Sides
      <3> HIDE DEF g, e
      <3>3. ~(y[1] = x[1] /\ Alone(r, g, x)) /\ ~(y[1] = x[1] /\ Alone(r, e, x))
        BY <2>2, <3>1, <3>2 DEF Alone
      <3>4. y[1] \in v.tokens /\ y[1] \in v.tokensBy[g]
        BY <3>1, <3>2, <3>3 DEF DelegatedFrom
      <3>5. Renewed(v, y[1]) \/ y[1] \in v.tokensTo[e]
        <4>1. CASE Renewed(r, y[1])
          BY <1>5, <4>1 DEF Renewed
        <4>2. CASE y[1] \in r.tokensTo[e]
          BY <3>1, <3>3, <4>2 DEF DelegatedFrom
        <4> QED
          BY <3>2, <4>1, <4>2
      <3>6. y[2] \in v.serials[g, y[1]] /\ y[2] \in v.serials[e, y[1]]
        BY <2>2, <3>1, <3>2 DEF DelegatedFrom
      <3> QED
        BY <1>5, <3>1, <3>2, <3>4, <3>5, <3>6 DEF Sides
    <2> QED
      BY <2>1, <2>2
  <1>9. \A y \in Items \ N : v.last[y] = <<>>
    BY <1>2, <1>3 DEF Sound
  <1>10. ASSUME NEW y \in Items \ v.zeroed, NEW a \in Addresses, y[2] \in v.serials[a, y[1]]
         PROVE  y \in N /\ a \in Sides(v, y)
    <2>1. y \notin r.zeroed
      BY <1>5
    <2>2. \/ y = x /\ a \in {w, d}
          \/ y[2] \in r.serials[a, y[1]] /\ ~(y = x /\ a \in Leaving(r, w, x))
      BY <1>10 DEF DelegatedFrom
    <2>3. CASE y = x /\ a \in {w, d}
      BY <1>2, <1>3, <2>3 DEF Sides
    <2>4. CASE y[2] \in r.serials[a, y[1]] /\ ~(y = x /\ a \in Leaving(r, w, x))
      <3>1. y \in M /\ a \in Sides(r, y)
        BY <2>1, <2>4 DEF Sound
      <3>2. CASE y # x
        BY <1>2, <1>3, <3>1, <3>2 DEF Sides
      <3>3. CASE y = x
        <4>1. HasDelegate(r, x)
          BY <2>1, <3>1, <3>3 DEF HasDelegate, Sound
        <4>2. a = w
          BY <2>4, <3>1, <3>3, <4>1 DEF Leaving, Sides
        <4> QED
          BY <1>2, <1>3, <3>3, <4>2 DEF Sides
      <3> QED
        BY <3>2, <3>3
    <2> QED
      BY <2>2, <2>3, <2>4
  <1>11. /\ v.total >= Cardinality(N)
         /\ v.zeroed = {} => v.total = Cardinality(N)
    <2>1. Cardinality(M) \in Nat /\ r.total >= Cardinality(M)
          /\ (r.zeroed = {} => r.total = Cardinality(M))
      BY <1>6, FS_CardinalityType DEF Sound
    <2>2. v.total = r.total + (IF HasDelegate(r, x) THEN 0 ELSE 1)
      BY DEF DelegatedFrom
    <2>3. CASE x \in M
      <3>1. N = M
        BY <1>2, <2>3
      <3>2. ~HasDelegate(r, x) => x \in r.zeroed
        BY <2>3 DEF HasDelegate, Sound
      <3> QED
        BY <1>1, <1>5, <2>1, <2>2, <3>1, <3>2
    <2>4. CASE x \notin M
      <3>1. Cardinality(N) = Cardinality(M) + 1
        BY <1>2, <1>6, <2>4, FS_AddElement
      <3>2. ~HasDelegate(r, x)
        BY <2>4 DEF HasDelegate
      <3>3. v.zeroed = {} => r.zeroed = {}
        BY <1>5
      <3> QED
        BY <1>1, <2>1, <2>2, <3>1, <3>2, <3>3
    <2> QED
      BY <2>3, <2>4
  <1> QED
    BY <1>7, <1>8, <1>9, <1>10, <1>11 DEF Sound

\* What a full removal of x by w leaves.
RevokedFrom(v, r, w, x) ==
    /\ v \in RegistryState
    /\ v.delegatedNFT = [y \in DOMAIN r.delegatedNFT \ {x} |-> r.delegatedNFT[y]]
    /\ v.delegator = [r.delegator EXCEPT ![x] = Nobody]
    /\ v.last = [r.last EXCEPT ![x] = <<>>]
    /\ v.total = r.total - 1
    /\ v.renewed = r.renewed /\ v.zeroed = r.zeroed
    /\ \A y \in DOMAIN r.delegatedNFT : y # x /\ y[1] \in r.tokens => y[1] \in v.tokens
    /\ \A a \in Addresses, y \in Items :
          y[2] \in v.serials[a, y[1]] <=>
             y[2] \in r.serials[a, y[1]]
                /\ ~(y = x /\ a \in {w, r.delegator[x], r.delegatedNFT[x]})
    /\ \A a \in Addresses : \A t \in r.tokensTo[a] :
          t \in v.tokensTo[a] \/ (t = x[1] /\ Alone(r, a, x))
    /\ \A a \in Addresses : \A t \in r.tokensBy[a] :
          t \in v.tokensBy[a] \/ (t = x[1] /\ Alone(r, a, x))

LEMMA RevokedEffect ==
    ASSUME NEW r \in RegistryState, NEW w \in Wallets, NEW x \in Items, HasDelegate(r, x)
    PROVE  RevokedFrom(RevokedOne(r, w, x), r, w, x)
  <1> DEFINE d == r.delegatedNFT[x]
             givers == {w, r.delegator[x]}
             u == Unlisted(r, w, x, TRUE)
             rest == [y \in DOMAIN r.delegatedNFT \ {x} |-> r.delegatedNFT[y]]
             tokens == IF \E y \in DOMAIN rest : y[1] = x[1] THEN r.tokens
                       ELSE r.tokens \ {x[1]}
             delegator == [r.delegator EXCEPT ![x] = Nobody]
             last == [r.last EXCEPT ![x] = <<>>]
             total == r.total - 1
             v == [u EXCEPT !.delegatedNFT = rest, !.delegator = delegator, !.total = total,
                            !.tokens = tokens, !.last = last]
  <1>1. x \in DOMAIN r.delegatedNFT
    BY DEF HasDelegate
  <1>2. UnlistedFrom(u, r, x, d, givers)
    BY <1>1, UnlistedEffect
  <1>3. /\ DOMAIN r.delegatedNFT \subseteq Items
        /\ \A y \in DOMAIN r.delegatedNFT : r.delegatedNFT[y] \in Addresses
        /\ r.delegator \in [Items -> Addresses]
        /\ r.last \in [Items -> {<<>>} \cup (Wallets \X Addresses)]
        /\ r.tokens \in SUBSET Collections
        /\ r.total \in Int /\ Nobody \in Addresses
    BY RegistryFields DEF Addresses
  <1>4. /\ u \in RegistryState
        /\ u.delegatedNFT = r.delegatedNFT /\ u.delegator = r.delegator /\ u.last = r.last
        /\ u.tokens = r.tokens /\ u.total = r.total
        /\ u.renewed = r.renewed /\ u.zeroed = r.zeroed
    BY <1>2 DEF UnlistedFrom
  <1>5. rest \in UNION {[S -> Addresses] : S \in SUBSET Items}
    <2>1. rest \in [DOMAIN r.delegatedNFT \ {x} -> Addresses]
      BY <1>3
    <2>2. DOMAIN r.delegatedNFT \ {x} \in SUBSET Items
      BY <1>3
    <2> HIDE DEF rest
    <2> QED
      BY <2>1, <2>2
  <1>6. /\ delegator \in [Items -> Addresses] /\ total \in Int /\ tokens \in SUBSET Collections
        /\ last \in [Items -> {<<>>} \cup (Wallets \X Addresses)]
    BY <1>3
  <1>7. RevokedOne(r, w, x) = v
    <2> HIDE DEF u
    <2>1. Revoked(r, w, x, TRUE) = Forgotten(u, x)
      BY DEF Revoked, u
    <2>2. RevokedOne(r, w, x) = [Forgotten(u, x) EXCEPT !.last[x] = <<>>]
      BY <2>1 DEF RevokedOne
    <2>3. Forgotten(u, x) = [u EXCEPT !.delegatedNFT = rest, !.delegator = delegator,
                                      !.total = total, !.tokens = tokens]
      BY <1>4 DEF Forgotten, Restrict, RegistryState
    <2> HIDE DEF rest, delegator, total, tokens
    <2> QED
      BY <1>4, <2>2, <2>3 DEF RegistryState
  <1>8. \A y \in DOMAIN r.delegatedNFT : y # x /\ y[1] \in r.tokens => y[1] \in tokens
    OBVIOUS
  <1> HIDE DEF u, rest, delegator, total, tokens, last
  <1>9. /\ v \in RegistryState
        /\ v.delegatedNFT = rest /\ v.delegator = delegator /\ v.total = total
        /\ v.tokens = tokens /\ v.last = last
        /\ v.serials = u.serials /\ v.tokensTo = u.tokensTo /\ v.tokensBy = u.tokensBy
        /\ v.renewed = r.renewed /\ v.zeroed = r.zeroed
    BY <1>4, <1>5, <1>6 DEF RegistryState
  <1> HIDE DEF v
  <1>10. \A a \in Addresses, y \in Items :
            y[2] \in v.serials[a, y[1]] <=>
               y[2] \in r.serials[a, y[1]]
                  /\ ~(y = x /\ a \in {w, r.delegator[x], r.delegatedNFT[x]})
    BY <1>2, <1>9 DEF UnlistedFrom
  <1>11. /\ \A a \in Addresses : \A t \in r.tokensTo[a] :
               t \in v.tokensTo[a] \/ (t = x[1] /\ Alone(r, a, x))
         /\ \A a \in Addresses : \A t \in r.tokensBy[a] :
               t \in v.tokensBy[a] \/ (t = x[1] /\ Alone(r, a, x))
    <2> HIDE DEF d, givers
    <2>1. \A a \in Addresses : \A t \in r.tokensTo[a] :
              t \in u.tokensTo[a] \/ (a = d /\ t = x[1] /\ Alone(r, a, x))
      BY <1>2 DEF UnlistedFrom
    <2>2. \A a \in Addresses : \A t \in r.tokensBy[a] :
              t \in u.tokensBy[a] \/ (a \in givers /\ t = x[1] /\ Alone(r, a, x))
      BY <1>2 DEF UnlistedFrom
    <2>3. \A a \in Addresses : \A t \in r.tokensTo[a] :
              t \in v.tokensTo[a] \/ (t = x[1] /\ Alone(r, a, x))
      BY <1>9, <2>1
    <2>4. \A a \in Addresses : \A t \in r.tokensBy[a] :
              t \in v.tokensBy[a] \/ (t = x[1] /\ Alone(r, a, x))
      BY <1>9, <2>2
    <2> QED
      BY <2>3, <2>4
  <1>12. RevokedFrom(v, r, w, x)
    BY <1>8, <1>9, <1>10, <1>11 DEF RevokedFrom, rest, delegator, total, last
  <1> QED
    BY <1>7, <1>12

LEMMA RevokedSound ==
    ASSUME NEW r \in RegistryState, NEW w \in Wallets, NEW x \in Items, HasDelegate(r, x),
           Sound(r), NEW v, RevokedFrom(v, r, w, x)
    PROVE  Sound(v)
  <1> DEFINE M == DOMAIN r.delegatedNFT
             N == DOMAIN v.delegatedNFT
  <1>1. /\ M \subseteq Items /\ r.delegator \in [Items -> Addresses]
        /\ r.last \in [Items -> {<<>>} \cup (Wallets \X Addresses)]
        /\ r.total \in Int /\ x \in M
    BY RegistryFields DEF HasDelegate
  <1>2. /\ N = M \ {x}
        /\ \A y \in N : v.delegatedNFT[y] = r.delegatedNFT[y]
    BY DEF RevokedFrom
  <1>3. /\ v.last[x] = <<>>
        /\ \A y \in Items : y # x => v.delegator[y] = r.delegator[y] /\ v.last[y] = r.last[y]
    BY <1>1 DEF RevokedFrom
  <1>4. v.zeroed = r.zeroed /\ v.renewed = r.renewed
    BY DEF RevokedFrom
  <1>5. IsFiniteSet(M)
    BY DEF Sound
  <1>6. IsFiniteSet(N) /\ Cardinality(N) = Cardinality(M) - 1 /\ Cardinality(M) \in Nat
    BY <1>1, <1>2, <1>5, FS_RemoveElement, FS_CardinalityType
  <1>7. ASSUME NEW y \in N
        PROVE  /\ v.delegator[y] \in Wallets
               /\ v.last[y] = <<v.delegator[y], v.delegatedNFT[y]>>
               /\ v.delegatedNFT[y] = Nobody => y \in v.zeroed
               /\ y[1] \in v.tokens /\ y[1] \in v.tokensBy[v.delegator[y]]
               /\ Renewed(v, y[1]) \/ y[1] \in v.tokensTo[v.delegatedNFT[y]]
               /\ \A a \in Sides(v, y) : y[2] \in v.serials[a, y[1]]
    <2> DEFINE g == r.delegator[y]
               e == r.delegatedNFT[y]
    <2>1. /\ y # x /\ y \in M /\ y \in Items /\ g \in Addresses /\ e \in Addresses
          /\ v.delegator[y] = g /\ v.delegatedNFT[y] = e /\ v.last[y] = r.last[y]
      BY <1>1, <1>2, <1>3, RegistryFields
    <2>2. /\ g \in Wallets /\ r.last[y] = <<g, e>> /\ (e = Nobody => y \in r.zeroed)
          /\ y[1] \in r.tokens /\ y[1] \in r.tokensBy[g]
          /\ Renewed(r, y[1]) \/ y[1] \in r.tokensTo[e]
          /\ y[2] \in r.serials[g, y[1]] /\ y[2] \in r.serials[e, y[1]]
      BY <2>1 DEF Sound, Sides
    <2> HIDE DEF g, e
    <2>3. ~(y[1] = x[1] /\ Alone(r, g, x)) /\ ~(y[1] = x[1] /\ Alone(r, e, x))
      BY <2>1, <2>2 DEF Alone
    <2>4. y[1] \in v.tokens /\ y[1] \in v.tokensBy[g]
      BY <2>1, <2>2, <2>3 DEF RevokedFrom
    <2>5. Renewed(v, y[1]) \/ y[1] \in v.tokensTo[e]
      <3>1. CASE Renewed(r, y[1])
        BY <1>4, <3>1 DEF Renewed
      <3>2. CASE y[1] \in r.tokensTo[e]
        BY <2>1, <2>3, <3>2 DEF RevokedFrom
      <3> QED
        BY <2>2, <3>1, <3>2
    <2>6. y[2] \in v.serials[g, y[1]] /\ y[2] \in v.serials[e, y[1]]
      BY <2>1, <2>2 DEF RevokedFrom
    <2> QED
      BY <1>4, <2>1, <2>2, <2>4, <2>5, <2>6 DEF Sides
  <1>8. \A y \in Items \ N : v.last[y] = <<>>
    BY <1>2, <1>3 DEF Sound
  <1>9. ASSUME NEW y \in Items \ v.zeroed, NEW a \in Addresses, y[2] \in v.serials[a, y[1]]
        PROVE  y \in N /\ a \in Sides(v, y)
    <2>1. /\ y[2] \in r.serials[a, y[1]]
          /\ ~(y = x /\ a \in {w, r.delegator[x], r.delegatedNFT[x]})
      BY <1>9 DEF RevokedFrom
    <2>2. y \in M /\ a \in Sides(r, y)
      BY <1>4, <2>1 DEF Sound
    <2>3. y # x
      BY <2>1, <2>2 DEF Sides
    <2> QED
      BY <1>2, <1>3, <2>2, <2>3 DEF Sides
  <1>10. /\ v.total >= Cardinality(N)
         /\ v.zeroed = {} => v.total = Cardinality(N)
    <2>1. v.total = r.total - 1
      BY DEF RevokedFrom
    <2>2. r.total >= Cardinality(M) /\ (r.zeroed = {} => r.total = Cardinality(M))
      BY DEF Sound
    <2> HIDE DEF M, N
    <2> QED
      BY <1>1, <1>4, <1>6, <2>1, <2>2
  <1> QED
    BY <1>6, <1>7, <1>8, <1>9, <1>10 DEF Sound

\* The registries that agree.
Agreeing == {q \in RegistryState : Sound(q)}

SerialList(list) == list.token \in Collections /\ list.serials \in Seq(Serials)

LEMMA RevokedOneAgrees ==
    ASSUME NEW r \in Agreeing, NEW w \in Wallets, NEW x \in Items
    PROVE  RevokedOne(r, w, x) \in Agreeing
  <1>1. r \in RegistryState /\ Sound(r)
    BY DEF Agreeing
  <1>2. CASE HasDelegate(r, x)
    <2>1. RevokedFrom(RevokedOne(r, w, x), r, w, x)
      BY <1>1, <1>2, RevokedEffect
    <2>2. RevokedOne(r, w, x) \in RegistryState
      BY <2>1 DEF RevokedFrom
    <2>3. Sound(RevokedOne(r, w, x))
      BY <1>1, <1>2, <2>1, RevokedSound
    <2> QED
      BY <2>2, <2>3 DEF Agreeing
  <1>3. CASE ~HasDelegate(r, x)
    BY <1>3 DEF RevokedOne
  <1> QED
    BY <1>2, <1>3

LEMMA DelegatedAgrees ==
    ASSUME NEW r \in Agreeing, NEW w \in Wallets, NEW d \in Addresses, NEW x \in Items,
           Ready(r, w, d, x[1])
    PROVE  Delegated(r, w, d, x) \in Agreeing /\ Ready(Delegated(r, w, d, x), w, d, x[1])
  <1>1. r \in RegistryState /\ Sound(r)
    BY DEF Agreeing
  <1>2. DelegatedFrom(Delegated(r, w, d, x), r, w, d, x)
    BY <1>1, DelegatedEffect
  <1>3. Sound(Delegated(r, w, d, x))
    BY <1>1, <1>2, DelegatedSound
  <1>4. Delegated(r, w, d, x) \in RegistryState
    BY <1>2 DEF DelegatedFrom
  <1>5. Ready(Delegated(r, w, d, x), w, d, x[1])
    BY <1>1, <1>2, DelegatedReady
  <1> QED
    BY <1>3, <1>4, <1>5 DEF Agreeing

\* What delegateNFT lists before its loop harms nothing.
LEMMA ListingAgrees ==
    ASSUME NEW r \in Agreeing, NEW w \in Wallets, NEW d \in Addresses,
           NEW list, SerialList(list),
           NEW q, q = [r EXCEPT !.tokens = @ \cup {list.token},
                                !.tokensBy[w] = @ \cup {list.token},
                                !.tokensTo[d] = @ \cup {list.token}]
    PROVE  q \in Agreeing /\ Ready(q, w, d, list.token)
  <1> DEFINE tokens == r.tokens \cup {list.token}
             by == [r.tokensBy EXCEPT ![w] = @ \cup {list.token}]
             to == [r.tokensTo EXCEPT ![d] = @ \cup {list.token}]
  <1>1. r \in RegistryState /\ Sound(r) /\ w \in Addresses /\ list.token \in Collections
    BY DEF Agreeing, SerialList, Addresses
  <1>2. /\ r.tokensTo \in [Addresses -> SUBSET Collections]
        /\ r.tokensBy \in [Addresses -> SUBSET Collections]
        /\ r.tokens \in SUBSET Collections
        /\ DOMAIN r.delegatedNFT \subseteq Items
        /\ \A x \in DOMAIN r.delegatedNFT : r.delegatedNFT[x] \in Addresses
        /\ r.delegator \in [Items -> Addresses]
    BY <1>1, RegistryFields
  <1>3. q = [r EXCEPT !.tokens = tokens, !.tokensBy = by, !.tokensTo = to]
    BY <1>1 DEF RegistryState
  <1>4. /\ tokens \in SUBSET Collections
        /\ by \in [Addresses -> SUBSET Collections] /\ to \in [Addresses -> SUBSET Collections]
    BY <1>1, <1>2
  <1>5. /\ r.tokens \subseteq tokens /\ list.token \in tokens
        /\ \A a \in Addresses : r.tokensBy[a] \subseteq by[a] /\ r.tokensTo[a] \subseteq to[a]
        /\ list.token \in by[w] /\ list.token \in to[d]
    BY <1>1, <1>2
  <1> HIDE DEF tokens, by, to
  <1>6. /\ q \in RegistryState
        /\ q.tokens = tokens /\ q.tokensBy = by /\ q.tokensTo = to
        /\ q.delegatedNFT = r.delegatedNFT /\ q.delegator = r.delegator
        /\ q.serials = r.serials /\ q.last = r.last /\ q.total = r.total
        /\ q.renewed = r.renewed /\ q.zeroed = r.zeroed
    BY <1>1, <1>3, <1>4 DEF RegistryState
  <1>7. \A x \in DOMAIN r.delegatedNFT :
           /\ x[1] \in q.tokens /\ x[1] \in q.tokensBy[r.delegator[x]]
           /\ Renewed(r, x[1]) \/ x[1] \in q.tokensTo[r.delegatedNFT[x]]
    BY <1>1, <1>2, <1>5, <1>6 DEF Sound
  <1>8. Sound(q)
    <2>1. /\ \A x : Sides(q, x) = Sides(r, x)
          /\ \A t : Renewed(q, t) <=> Renewed(r, t)
      BY <1>6 DEF Sides, Renewed
    <2>2. ASSUME NEW x \in DOMAIN r.delegatedNFT
          PROVE  /\ q.delegator[x] \in Wallets
                 /\ q.last[x] = <<q.delegator[x], q.delegatedNFT[x]>>
                 /\ q.delegatedNFT[x] = Nobody => x \in q.zeroed
                 /\ x[1] \in q.tokens /\ x[1] \in q.tokensBy[q.delegator[x]]
                 /\ Renewed(q, x[1]) \/ x[1] \in q.tokensTo[q.delegatedNFT[x]]
                 /\ \A a \in Sides(q, x) : x[2] \in q.serials[a, x[1]]
      <3>1. /\ r.delegator[x] \in Wallets
            /\ r.last[x] = <<r.delegator[x], r.delegatedNFT[x]>>
            /\ r.delegatedNFT[x] = Nobody => x \in r.zeroed
            /\ \A a \in Sides(r, x) : x[2] \in r.serials[a, x[1]]
        BY <1>1 DEF Sound
      <3> QED
        BY <1>6, <1>7, <2>1, <3>1
    <2>3. /\ IsFiniteSet(DOMAIN q.delegatedNFT)
          /\ \A x \in Items \ DOMAIN q.delegatedNFT : q.last[x] = <<>>
          /\ \A x \in Items \ q.zeroed, a \in Addresses :
                x[2] \in q.serials[a, x[1]] =>
                   x \in DOMAIN q.delegatedNFT /\ a \in Sides(q, x)
          /\ q.total >= Cardinality(DOMAIN q.delegatedNFT)
          /\ q.zeroed = {} => q.total = Cardinality(DOMAIN q.delegatedNFT)
      BY <1>1, <1>6, <2>1 DEF Sound
    <2> QED
      BY <1>6, <2>2, <2>3 DEF Sound
  <1>9. Ready(q, w, d, list.token)
    BY <1>5, <1>6 DEF Ready
  <1> QED
    BY <1>6, <1>8, <1>9 DEF Agreeing

\* The loops, each a recursive function whose values stay among them.
LEMMA RevokedListAgrees ==
    ASSUME NEW r \in Agreeing, NEW w \in Wallets, NEW list, SerialList(list)
    PROVE  RevokedList(r, w, list) \in Agreeing
  <1> DEFINE n == Len(list.serials)
             T == Agreeing
             Step(q, k) == RevokedOne(q, w, <<list.token, list.serials[k]>>)
             G == [p \in T \X (1..n) |-> Step(p[1], p[2])]
             first == r
             Eq(f) == f = [k \in 0..n |-> IF k = 0 THEN first ELSE Step(f[k-1], k)]
             Sol == CHOOSE f : Eq(f)
  <1>1. RevokedList(r, w, list) = Sol[n]
    BY Zenon DEF RevokedList
  <1>2. n \in Nat /\ first \in T
    BY DEF SerialList
  <1>3. \A q \in T, k \in 1..n : Step(q, k) \in T
    <2>1. \A k \in 1..n : <<list.token, list.serials[k]>> \in Items
      BY DEF SerialList, Items
    <2> HIDE DEF n
    <2> QED
      BY <2>1, RevokedOneAgrees
  <1>4. StepsOn(G, T, n)
    <2> HIDE DEF T, n, Step
    <2> QED
      BY <1>3 DEF StepsOn
  <1> HIDE DEF first
  <1>5. PICK f : Follows(f, G, T, n, first)
    <2> HIDE DEF T, n, G
    <2> QED
      BY <1>2, <1>4, RecursionExists
  <1>6. Eq(f)
    <2> HIDE DEF T, n, Step
    <2>1. \A k \in 1..n : f[k-1] \in T
      BY <1>2, <1>5 DEF Follows
    <2>2. \A k \in 1..n : f[k] = Step(f[k-1], k)
      BY <1>5, <2>1 DEF Follows
    <2> QED
      BY <1>2, <1>5, <2>2 DEF Follows
  <1>7. Eq(Sol)
    <2> HIDE DEF Eq
    <2> QED
      BY <1>6
  <1>8. Sol[0] = first /\ \A k \in 1..n : Sol[k] = Step(Sol[k-1], k)
    <2> HIDE DEF Sol, n, Step
    <2> QED
      BY <1>2, <1>7
  <1>9. Sol[n] \in T
    <2> HIDE DEF Sol, T, n, Step
    <2>1. \A k \in 1..n : Sol[k-1] \in T => Sol[k] \in T
      BY <1>3, <1>8
    <2>2. \A k \in 0..n : Sol[k] \in T
      BY <1>2, <1>8, <2>1, InductionUpTo
    <2> QED
      BY <1>2, <2>2
  <1> QED
    BY <1>1, <1>9

LEMMA DelegatedListAgrees ==
    ASSUME NEW r \in Agreeing, NEW w \in Wallets, NEW d \in Addresses,
           NEW list, SerialList(list)
    PROVE  DelegatedList(r, w, d, list) \in Agreeing
  <1> DEFINE n == Len(list.serials)
             T == {q \in Agreeing : Ready(q, w, d, list.token)}
             Step(q, k) == Delegated(q, w, d, <<list.token, list.serials[k]>>)
             G == [p \in T \X (1..n) |-> Step(p[1], p[2])]
             first == [r EXCEPT !.tokens = @ \cup {list.token},
                                !.tokensBy[w] = @ \cup {list.token},
                                !.tokensTo[d] = @ \cup {list.token}]
             Eq(f) == f = [k \in 0..n |-> IF k = 0 THEN first ELSE Step(f[k-1], k)]
             Sol == CHOOSE f : Eq(f)
  <1>1. DelegatedList(r, w, d, list) = Sol[n]
    BY Zenon DEF DelegatedList
  <1>2. n \in Nat /\ first \in T
    <2>1. n \in Nat
      BY DEF SerialList
    <2> HIDE DEF n
    <2>2. first \in Agreeing /\ Ready(first, w, d, list.token)
      BY ListingAgrees
    <2> QED
      BY <2>1, <2>2
  <1>3. \A q \in T, k \in 1..n : Step(q, k) \in T
    <2> SUFFICES ASSUME NEW q \in T, NEW k \in 1..n PROVE Step(q, k) \in T
      OBVIOUS
    <2> DEFINE x == <<list.token, list.serials[k]>>
    <2>1. x \in Items /\ x[1] = list.token
      BY DEF SerialList, Items
    <2> HIDE DEF x
    <2>2. Delegated(q, w, d, x) \in Agreeing /\ Ready(Delegated(q, w, d, x), w, d, x[1])
      BY <2>1, DelegatedAgrees
    <2> QED
      BY <2>1, <2>2 DEF x
  <1>4. StepsOn(G, T, n)
    <2> HIDE DEF T, n, Step
    <2> QED
      BY <1>3 DEF StepsOn
  <1> HIDE DEF first
  <1>5. PICK f : Follows(f, G, T, n, first)
    <2> HIDE DEF T, n, G
    <2> QED
      BY <1>2, <1>4, RecursionExists
  <1>6. Eq(f)
    <2> HIDE DEF T, n, Step
    <2>1. \A k \in 1..n : f[k-1] \in T
      BY <1>2, <1>5 DEF Follows
    <2>2. \A k \in 1..n : f[k] = Step(f[k-1], k)
      BY <1>5, <2>1 DEF Follows
    <2> QED
      BY <1>2, <1>5, <2>2 DEF Follows
  <1>7. Eq(Sol)
    <2> HIDE DEF Eq
    <2> QED
      BY <1>6
  <1>8. Sol[0] = first /\ \A k \in 1..n : Sol[k] = Step(Sol[k-1], k)
    <2> HIDE DEF Sol, n, Step
    <2> QED
      BY <1>2, <1>7
  <1>9. Sol[n] \in T
    <2> HIDE DEF Sol, T, n, Step
    <2>1. \A k \in 1..n : Sol[k-1] \in T => Sol[k] \in T
      BY <1>3, <1>8
    <2>2. \A k \in 0..n : Sol[k] \in T
      BY <1>2, <1>8, <2>1, InductionUpTo
    <2> QED
      BY <1>2, <2>2
  <1> QED
    BY <1>1, <1>9

LEMMA DelegationsAgree ==
    ASSUME registry \in Agreeing, NEW w \in Wallets, NEW d \in Addresses,
           NEW lists, Len(lists) \in Nat, \A i \in 1..Len(lists) : SerialList(lists[i]),
           delegateNFTs(w, d, lists)
    PROVE  registry' \in Agreeing
  <1> DEFINE n == Len(lists)
             T == Agreeing
             Step(q, k) == DelegatedList(q, w, d, lists[k])
             G == [p \in T \X (1..n) |-> Step(p[1], p[2])]
             first == registry
             Eq(f) == f = [k \in 0..n |-> IF k = 0 THEN first ELSE Step(f[k-1], k)]
             Sol == CHOOSE f : Eq(f)
  <1>1. registry' = Sol[n]
    BY Zenon DEF delegateNFTs
  <1>2. n \in Nat /\ first \in T
    OBVIOUS
  <1>3. \A q \in T, k \in 1..n : Step(q, k) \in T
    BY DelegatedListAgrees
  <1>4. StepsOn(G, T, n)
    <2> HIDE DEF T, n, Step
    <2> QED
      BY <1>3 DEF StepsOn
  <1> HIDE DEF first
  <1>5. PICK f : Follows(f, G, T, n, first)
    <2> HIDE DEF T, n, G
    <2> QED
      BY <1>2, <1>4, RecursionExists
  <1>6. Eq(f)
    <2> HIDE DEF T, n, Step
    <2>1. \A k \in 1..n : f[k-1] \in T
      BY <1>2, <1>5 DEF Follows
    <2>2. \A k \in 1..n : f[k] = Step(f[k-1], k)
      BY <1>5, <2>1 DEF Follows
    <2> QED
      BY <1>2, <1>5, <2>2 DEF Follows
  <1>7. Eq(Sol)
    <2> HIDE DEF Eq
    <2> QED
      BY <1>6
  <1>8. Sol[0] = first /\ \A k \in 1..n : Sol[k] = Step(Sol[k-1], k)
    <2> HIDE DEF Sol, n, Step
    <2> QED
      BY <1>2, <1>7
  <1>9. Sol[n] \in T
    <2> HIDE DEF Sol, T, n, Step
    <2>1. \A k \in 1..n : Sol[k-1] \in T => Sol[k] \in T
      BY <1>3, <1>8
    <2>2. \A k \in 0..n : Sol[k] \in T
      BY <1>2, <1>8, <2>1, InductionUpTo
    <2> QED
      BY <1>2, <2>2
  <1> QED
    BY <1>1, <1>9

LEMMA RevocationsAgree ==
    ASSUME registry \in Agreeing, NEW w \in Wallets,
           NEW lists, Len(lists) \in Nat, \A i \in 1..Len(lists) : SerialList(lists[i]),
           revokeDelegateNFTs(w, lists)
    PROVE  registry' \in Agreeing
  <1> DEFINE n == Len(lists)
             T == Agreeing
             Step(q, k) == RevokedList(q, w, lists[k])
             G == [p \in T \X (1..n) |-> Step(p[1], p[2])]
             first == registry
             Eq(f) == f = [k \in 0..n |-> IF k = 0 THEN first ELSE Step(f[k-1], k)]
             Sol == CHOOSE f : Eq(f)
  <1>1. registry' = Sol[n]
    BY Zenon DEF revokeDelegateNFTs
  <1>2. n \in Nat /\ first \in T
    OBVIOUS
  <1>3. \A q \in T, k \in 1..n : Step(q, k) \in T
    BY RevokedListAgrees
  <1>4. StepsOn(G, T, n)
    <2> HIDE DEF T, n, Step
    <2> QED
      BY <1>3 DEF StepsOn
  <1> HIDE DEF first
  <1>5. PICK f : Follows(f, G, T, n, first)
    <2> HIDE DEF T, n, G
    <2> QED
      BY <1>2, <1>4, RecursionExists
  <1>6. Eq(f)
    <2> HIDE DEF T, n, Step
    <2>1. \A k \in 1..n : f[k-1] \in T
      BY <1>2, <1>5 DEF Follows
    <2>2. \A k \in 1..n : f[k] = Step(f[k-1], k)
      BY <1>5, <2>1 DEF Follows
    <2> QED
      BY <1>2, <1>5, <2>2 DEF Follows
  <1>7. Eq(Sol)
    <2> HIDE DEF Eq
    <2> QED
      BY <1>6
  <1>8. Sol[0] = first /\ \A k \in 1..n : Sol[k] = Step(Sol[k-1], k)
    <2> HIDE DEF Sol, n, Step
    <2> QED
      BY <1>2, <1>7
  <1>9. Sol[n] \in T
    <2> HIDE DEF Sol, T, n, Step
    <2>1. \A k \in 1..n : Sol[k-1] \in T => Sol[k] \in T
      BY <1>3, <1>8
    <2>2. \A k \in 0..n : Sol[k] \in T
      BY <1>2, <1>8, <2>1, InductionUpTo
    <2> QED
      BY <1>2, <2>2
  <1> QED
    BY <1>1, <1>9


LEMMA SerialListsType ==
    ASSUME NEW list \in SerialLists
    PROVE  SerialList(list)
  <1>1. list.token \in Collections /\ list.serials \in SeqOf(Serials, 2)
    BY DEF SerialLists
  <1>2. PICK n \in 0..2 : list.serials \in [1..n -> Serials]
    BY <1>1 DEF SeqOf
  <1>3. list.serials \in Seq(Serials)
    BY <1>2
  <1> QED
    BY <1>1, <1>3 DEF SerialList

LEMMA RegistryInitSound == RegistryInit => RegistryInv
  <1> SUFFICES ASSUME RegistryInit PROVE RegistryInv
    OBVIOUS
  <1>1. Nobody \in Addresses
    BY DEF Addresses
  <1>2. holder \in [Items -> Wallets] /\ WalletSound
    BY <1>1 DEF RegistryInit, WalletSound
  <1> DEFINE map == [x \in {} |-> Nobody]
             delegator == [x \in Items |-> Nobody]
             serials == [h \in Addresses \X Collections |-> {}]
             none == [a \in Addresses |-> {}]
             last == [x \in Items |-> <<>>]
  <1>3. registry = [delegatedNFT |-> map, delegator |-> delegator, serials |-> serials,
                    tokensTo |-> none, tokensBy |-> none, tokens |-> {}, total |-> 0,
                    last |-> last, renewed |-> {}, zeroed |-> {}]
    BY DEF RegistryInit
  <1>4. map \in UNION {[S -> Addresses] : S \in SUBSET Items} /\ DOMAIN map = {}
    <2>1. map \in [{} -> Addresses] /\ {} \in SUBSET Items
      OBVIOUS
    <2> HIDE DEF map
    <2> QED
      BY <2>1
  <1>5. /\ delegator \in [Items -> Addresses]
        /\ serials \in [Addresses \X Collections -> SUBSET Serials]
        /\ none \in [Addresses -> SUBSET Collections]
        /\ last \in [Items -> {<<>>} \cup (Wallets \X Addresses)]
    BY <1>1
  <1>6. \A x \in Items, a \in Addresses : serials[a, x[1]] = {}
    BY DEF Items
  <1>7. \A x \in Items : last[x] = <<>>
    OBVIOUS
  <1> HIDE DEF map, delegator, serials, none, last
  <1>8. registry \in RegistryState
    <2> DEFINE Maps == UNION {[S -> Addresses] : S \in SUBSET Items}
               Delegators == [Items -> Addresses]
               Listed == [Addresses \X Collections -> SUBSET Serials]
               Sets == [Addresses -> SUBSET Collections]
               Lasts == [Items -> {<<>>} \cup (Wallets \X Addresses)]
    <2>1. map \in Maps /\ delegator \in Delegators /\ serials \in Listed /\ none \in Sets
             /\ last \in Lasts
      BY <1>4, <1>5
    <2>2. RegistryState = [delegatedNFT : Maps, delegator : Delegators, serials : Listed,
                           tokensTo : Sets, tokensBy : Sets, tokens : SUBSET Collections,
                           total : Int, last : Lasts,
                           renewed : SUBSET Items, zeroed : SUBSET Items]
      BY Zenon DEF RegistryState
    <2> HIDE DEF Maps, Delegators, Listed, Sets, Lasts
    <2> QED
      BY <1>3, <2>1, <2>2
  <1>9. Sound(registry)
    <2>1. /\ registry.delegatedNFT = map /\ registry.serials = serials
          /\ registry.last = last /\ registry.total = 0
      BY <1>3
    <2>2. IsFiniteSet({}) /\ Cardinality({}) = 0
      BY FS_EmptySet
    <2>3. \A x \in Items, a \in Addresses : x[2] \notin registry.serials[a, x[1]]
      BY <1>6, <2>1
    <2>4. DOMAIN registry.delegatedNFT = {}
      BY <1>4, <2>1
    <2>5. \A x \in Items : registry.last[x] = <<>>
      BY <1>7, <2>1
    <2>6. registry.total = Cardinality(DOMAIN registry.delegatedNFT)
      BY <2>1, <2>2, <2>4
    <2>7. registry.total >= Cardinality(DOMAIN registry.delegatedNFT)
      BY <2>1, <2>2, <2>4
    <2>8. IsFiniteSet(DOMAIN registry.delegatedNFT)
      BY <2>2, <2>4
    <2>9. \A x \in Items \ registry.zeroed, a \in Addresses :
             x[2] \in registry.serials[a, x[1]]
                => x \in DOMAIN registry.delegatedNFT /\ a \in Sides(registry, x)
      BY <2>3
    <2>10. \A x \in Items \ DOMAIN registry.delegatedNFT : registry.last[x] = <<>>
      BY <2>5
    <2> QED
      BY <2>4, <2>6, <2>7, <2>8, <2>9, <2>10, Zenon DEF Sound
  <1> QED
    BY <1>2, <1>8, <1>9 DEF RegistryInv

LEMMA RegistryNext ==
    ASSUME RegistryInv, [Registering]_registryVars
    PROVE  RegistryInv'
  <1>0. registry \in Agreeing
    BY DEF RegistryInv, Agreeing
  <1> DEFINE Shape == [delegate : [Wallets -> Addresses],
                       delegatedTo : [Addresses -> SUBSET Wallets], with : SUBSET Wallets]
  <1>1. ASSUME NEW w \in Wallets, NEW d \in Addresses, delegateWalletTo(w, d)
        PROVE  RegistryInv'
    <2>1. UNCHANGED <<holder, registry>>
      BY <1>1 DEF delegateWalletTo
    <2>2. WalletSound'
      <3>1. wallet \in Shape
        BY DEF RegistryInv, WalletSound
      <3> DEFINE delegate == [wallet.delegate EXCEPT ![w] = d]
                 to == [wallet.delegatedTo EXCEPT ![d] = wallet.delegatedTo[d] \cup {w}]
                 with == wallet.with \cup {w}
      <3>2. wallet' = [wallet EXCEPT !.delegate = delegate, !.delegatedTo = to, !.with = with]
        BY <1>1, <3>1 DEF delegateWalletTo
      <3>3. /\ wallet' \in Shape
            /\ wallet'.delegate = delegate /\ wallet'.delegatedTo = to /\ wallet'.with = with
        <4>1. /\ delegate \in [Wallets -> Addresses] /\ to \in [Addresses -> SUBSET Wallets]
              /\ with \in SUBSET Wallets
          BY <3>1
        <4> HIDE DEF delegate, to, with
        <4> QED
          BY <3>1, <3>2, <4>1
      <3> QED
        BY <3>1, <3>3 DEF RegistryInv, WalletSound
    <2> QED
      BY <2>1, <2>2 DEF RegistryInv, Sound, Sides, Renewed
  <1>2. ASSUME NEW w \in Wallets, revokeDelegateWallet(w) PROVE RegistryInv'
    <2> DEFINE d == wallet.delegate[w]
    <2>1. UNCHANGED <<holder, registry>>
      BY <1>2 DEF revokeDelegateWallet
    <2>2. WalletSound'
      <3>1. wallet \in Shape /\ d \in Addresses
        BY DEF RegistryInv, WalletSound
      <3>2. CASE d = Nobody
        BY <1>2, <3>2 DEF revokeDelegateWallet, RegistryInv, WalletSound
      <3>3. CASE d # Nobody
        <4> DEFINE delegate == [wallet.delegate EXCEPT ![w] = Nobody]
                   to == [wallet.delegatedTo EXCEPT ![d] = wallet.delegatedTo[d] \ {w}]
                   with == wallet.with \ {w}
        <4>1. wallet' = [wallet EXCEPT !.delegate = delegate, !.delegatedTo = to, !.with = with]
          BY <1>2, <3>1, <3>3 DEF revokeDelegateWallet
        <4>2. /\ wallet' \in Shape
              /\ wallet'.delegate = delegate /\ wallet'.delegatedTo = to /\ wallet'.with = with
          <5>1. /\ delegate \in [Wallets -> Addresses] /\ to \in [Addresses -> SUBSET Wallets]
                /\ with \in SUBSET Wallets
            BY <3>1 DEF Addresses
          <5> HIDE DEF delegate, to, with
          <5> QED
            BY <3>1, <4>1, <5>1
        <4> QED
          BY <3>1, <4>2 DEF RegistryInv, WalletSound
      <3> QED
        BY <3>2, <3>3
    <2> QED
      BY <2>1, <2>2 DEF RegistryInv, Sound, Sides, Renewed
  <1>3. ASSUME registry' \in Agreeing, UNCHANGED <<holder, wallet>> PROVE RegistryInv'
    BY <1>3 DEF RegistryInv, WalletSound, Agreeing, Sound, Sides, Renewed
  <1>4. ASSUME NEW list \in SerialLists
        PROVE  Len(<<list>>) \in Nat /\ \A i \in 1..Len(<<list>>) : SerialList((<<list>>)[i])
    BY SerialListsType
  <1>5. ASSUME NEW w \in Wallets, NEW d \in Addresses, NEW list \in SerialLists,
               delegateNFTs(w, d, <<list>>)
        PROVE  RegistryInv'
    <2>1. registry' \in Agreeing
      BY <1>0, <1>4, <1>5, DelegationsAgree
    <2>2. UNCHANGED <<holder, wallet>>
      BY <1>5 DEF delegateNFTs
    <2> QED
      BY <1>3, <2>1, <2>2
  <1>6. ASSUME NEW w \in Wallets, NEW list \in SerialLists, revokeDelegateNFTs(w, <<list>>)
        PROVE  RegistryInv'
    <2>1. registry' \in Agreeing
      BY <1>0, <1>4, <1>6, RevocationsAgree
    <2>2. UNCHANGED <<holder, wallet>>
      BY <1>6 DEF revokeDelegateNFTs
    <2> QED
      BY <1>3, <2>1, <2>2
  <1>7. ASSUME NEW x \in Items, NEW w \in Wallets, ChangesHands(x, w) PROVE RegistryInv'
    <2>1. UNCHANGED <<wallet, registry>> /\ holder' \in [Items -> Wallets]
      BY <1>7 DEF ChangesHands, RegistryInv
    <2> QED
      BY <2>1 DEF RegistryInv, WalletSound, Sound, Sides, Renewed
  <1>8. CASE UNCHANGED registryVars
    BY <1>8 DEF registryVars, RegistryInv, WalletSound, Sound, Sides, Renewed
  <1> QED
    BY <1>1, <1>2, <1>5, <1>6, <1>7, <1>8 DEF Registering

\* The inductive invariant of the registry: every list holds what was
\* delegated and nothing else, however serials are delegated, sold, delegated
\* anew and revoked.
THEOREM RegistryInvariance == RegistrySpec => []RegistryInv
  BY RegistryInitSound, RegistryNext, PTL DEF RegistrySpec

LEMMA SoundAuthority ==
    ASSUME RegistryInv
    PROVE  OnlyTheOwnersDelegates
  <1> SUFFICES ASSUME NEW x \in Items, NEW d \in Wallets
               PROVE  checkDelegateToken(d, x) <=>
                         \/ d \in {holder[x], wallet.delegate[holder[x]]}
                         \/ registry.last[x] = <<holder[x], d>>
    BY DEF OnlyTheOwnersDelegates
  <1>1. CASE x \in DOMAIN registry.delegatedNFT
    <2>1. registry.last[x] = <<registry.delegator[x], registry.delegatedNFT[x]>>
      BY <1>1 DEF RegistryInv, Sound
    <2> QED
      BY <1>1, <2>1 DEF checkDelegateToken, checkNFTDelegationIsValid
  <1>2. CASE x \notin DOMAIN registry.delegatedNFT
    <2>1. registry.last[x] = <<>>
      BY <1>2 DEF RegistryInv, Sound
    <2> QED
      BY <1>2, <2>1 DEF checkDelegateToken
  <1> QED
    BY <1>1, <1>2

LEMMA SoundLists ==
    ASSUME RegistryInv
    PROVE  ListsAgree
  <1> DEFINE map == registry.delegatedNFT
             sides == [x \in DOMAIN map |-> {map[x], registry.delegator[x]}]
  <1>1. ASSUME NEW w \in Wallets, NEW token \in Collections, NEW s \in Serials,
               NEW x, x = <<token, s>>
        PROVE  /\ x \in DOMAIN map /\ w \in sides[x] => s \in registry.serials[w, token]
               /\ s \in registry.serials[w, token] /\ x \notin registry.zeroed =>
                     x \in DOMAIN map /\ w \in sides[x]
    <2>1. x \in Items /\ x[1] = token /\ x[2] = s /\ w \in Addresses
      BY <1>1 DEF Items, Addresses
    <2>2. x \in DOMAIN map /\ w \in Sides(registry, x) => s \in registry.serials[w, token]
      BY <2>1 DEF RegistryInv, Sound
    <2>3. s \in registry.serials[w, token] /\ x \notin registry.zeroed =>
             x \in DOMAIN map /\ w \in Sides(registry, x)
      BY <2>1 DEF RegistryInv, Sound
    <2>4. x \in DOMAIN map => sides[x] = Sides(registry, x)
      BY DEF Sides
    <2> QED
      BY <2>2, <2>3, <2>4
  <1>2. /\ registry.total >= Cardinality(DOMAIN map)
        /\ registry.zeroed = {} => registry.total = Cardinality(DOMAIN map)
    BY DEF RegistryInv, Sound
  <1> QED
    BY <1>1, <1>2 DEF ListsAgree

LEMMA SoundFinds ==
    ASSUME RegistryInv
    PROVE  DelegationsAreFound
  <1>1. ASSUME NEW x \in DOMAIN registry.delegatedNFT
        PROVE  /\ x[1] \in registry.tokens
               /\ x[2] \in getSerialsDelegatedBy(registry.delegator[x], x[1])
               /\ (\A y \in registry.renewed : y[1] # x[1]) =>
                     x[2] \in getSerialsDelegatedTo(registry.delegatedNFT[x], x[1])
    <2>1. /\ x[1] \in registry.tokens /\ x[1] \in registry.tokensBy[registry.delegator[x]]
          /\ Renewed(registry, x[1]) \/ x[1] \in registry.tokensTo[registry.delegatedNFT[x]]
          /\ x[2] \in registry.serials[registry.delegator[x], x[1]]
          /\ x[2] \in registry.serials[registry.delegatedNFT[x], x[1]]
      BY DEF RegistryInv, Sound, Sides
    <2> QED
      BY <2>1 DEF getSerialsDelegatedBy, getSerialsDelegatedTo, Renewed
  <1>2. \A w \in Wallets :
           wallet.delegate[w] # Nobody =>
              w \in wallet.delegatedTo[wallet.delegate[w]] \cap wallet.with
    BY DEF RegistryInv, WalletSound
  <1> QED
    BY <1>1, <1>2 DEF DelegationsAreFound

\* Whoever owns, sells, delegates and revokes in whatever order: a stranger
\* acts for an NFT exactly when its owner of the moment named him last, every
\* list agrees with what stands, and what stands is found from both sides.
THEOREM RegistryAgreesHolds == RegistrySpec => []RegistryAgrees
  <1>1. RegistryInv => RegistryAgrees
    BY SoundAuthority, SoundLists, SoundFinds DEF RegistryAgrees
  <1> QED
    BY <1>1, RegistryInvariance, PTL

-----------------------------------------------------------------------------
(* Trade scripts.                                                            *)

Listings == [seller : Accounts \cup {NoOne}, buyer : Accounts \cup {NoOne}, hbar : Nat, lazy : Nat]

Purchasing == {"isTradeValid", "setLazyAllowance", "balance", "associate", "setHopAllowance",
               "submitPurchase"}
Spending == Purchasing \cup {"areAdvancedTradesFree", "setNFTAllowance", "setListingAllowance",
                             "submitListing"}

Runs == [pc : Spending \cup {"idle", "submitCancel", "thrown", "revokeHbar"},
         nfts : SUBSET NFTs, buyer : Accounts \cup {NoOne}, price : Nat \X Nat,
         hbar : Nat, lazy : Nat, standing : Nat, sound : BOOLEAN]

LedgerTypeOK ==
    /\ listing \in [NFTs -> Listings] /\ ownerOf \in [NFTs -> Accounts]
    /\ hbar \in [Accounts -> Nat] /\ lazy \in [Accounts -> Nat]
    /\ lazyAllowed \in [Accounts -> Nat] /\ cost \in Nat

\* What executeTrade has read is so, and what its steps so far have checked or
\* set still stands.
Checked(a) ==
    LET r == run[a]
    IN r.sound =>
          /\ r.pc \in Purchasing
          /\ \A n \in r.nfts : /\ listing[n].seller # a
                               /\ listing[n].hbar = r.hbar /\ listing[n].lazy = r.lazy
                               /\ r.pc # "isTradeValid" => TradeValid(a, n)
          /\ r.pc = "setLazyAllowance" => r.lazy > 0
          /\ r.pc \notin {"isTradeValid", "setLazyAllowance"} /\ r.lazy > 0 =>
                lazy[a] >= r.lazy /\ lazyAllowed[a] >= r.lazy
          /\ r.pc \in {"associate", "setHopAllowance", "submitPurchase"} => hbar[a] >= r.hbar
          /\ r.pc \in {"setHopAllowance", "submitPurchase"} => a \in associated
          /\ r.pc = "submitPurchase" => a \in hopAllowed

\* What the gas station may draw: no more than what was confirmed, or what it
\* could draw before the script began.
WithinStanding(a) ==
    /\ run[a].pc \in Spending => lazyAllowed[a] <= GreaterOf(run[a].lazy, run[a].standing)
    /\ run[a].pc = "areAdvancedTradesFree" => run[a].lazy = 0

ScriptsInv ==
    /\ LedgerTypeOK
    /\ run \in [Accounts -> Runs]
    /\ \A a \in Accounts : Checked(a) /\ WithinStanding(a)

LEMMA ScriptsInitInv == ScriptsInit => ScriptsInv
  <1> SUFFICES ASSUME ScriptsInit PROVE ScriptsInv
    OBVIOUS
  <1>1. NoListing \in Listings
    BY DEF NoListing, Listings
  <1>2. LedgerTypeOK
    <2>1. listing \in [NFTs -> Listings]
      BY <1>1 DEF ScriptsInit
    <2>2. cost \in Nat
      BY ScriptsAssumption DEF ScriptsInit
    <2> QED
      BY <2>1, <2>2, ScriptsAssumption DEF ScriptsInit, LedgerTypeOK
  <1>3. NoRun \in Runs /\ NoRun.pc = "idle" /\ NoRun.sound = FALSE
    BY DEF NoRun, Runs, Spending
  <1>4. run \in [Accounts -> Runs] /\ \A a \in Accounts : run[a] = NoRun
    BY <1>3 DEF ScriptsInit
  <1> QED
    BY <1>2, <1>3, <1>4 DEF ScriptsInv, Checked, WithinStanding, Spending, Purchasing

\* A step of one account on the ledger: everybody else's run is unsound now,
\* and nobody else's allowance has changed.
LEMMA LedgerStep ==
    ASSUME ScriptsInv, NEW a \in Accounts, NEW r \in Runs, ChangesTheLedger(a, r),
           LedgerTypeOK', \A b \in Accounts \ {a} : lazyAllowed'[b] = lazyAllowed[b],
           run'[a] = r => Checked(a)' /\ WithinStanding(a)'
    PROVE  ScriptsInv'
  <1>1. \A b \in Accounts : /\ Disturbed(run[b]) \in Runs
                            /\ Disturbed(run[b]).sound = FALSE
                            /\ Disturbed(run[b]).pc = run[b].pc
                            /\ Disturbed(run[b]).lazy = run[b].lazy
                            /\ Disturbed(run[b]).standing = run[b].standing
    BY DEF ScriptsInv, Runs, Disturbed
  <1>2. /\ run' \in [Accounts -> Runs] /\ run'[a] = r
        /\ \A b \in Accounts \ {a} : run'[b] = Disturbed(run[b])
    BY <1>1 DEF ChangesTheLedger
  <1>3. \A b \in Accounts \ {a} : Checked(b)' /\ WithinStanding(b)'
    BY <1>1, <1>2 DEF ScriptsInv, Checked, WithinStanding
  <1> QED
    BY <1>2, <1>3 DEF ScriptsInv

\* A step that only changes what one run knows.
LEMMA ReadStep ==
    ASSUME ScriptsInv, NEW a \in Accounts, NEW r \in Runs, OnlyReads(a, r), Unchanged,
           run'[a] = r => Checked(a)' /\ WithinStanding(a)'
    PROVE  ScriptsInv'
  <1>1. /\ run' \in [Accounts -> Runs] /\ run'[a] = r
        /\ \A b \in Accounts \ {a} : run'[b] = run[b]
    BY DEF ScriptsInv, OnlyReads
  <1>2. LedgerTypeOK'
    BY DEF Unchanged, marketVars, allowanceVars, termVars, LedgerTypeOK, ScriptsInv
  <1>3. \A b \in Accounts \ {a} : Checked(b)' /\ WithinStanding(b)'
    BY <1>1 DEF Unchanged, marketVars, allowanceVars, termVars, ScriptsInv,
                Checked, WithinStanding, TradeValid, Deliverable
  <1> QED
    BY <1>1, <1>2, <1>3 DEF ScriptsInv

LEMMA NoRunIsARun ==
    NoRun \in Runs /\ NoRun.pc = "idle" /\ NoRun.sound = FALSE /\ NoRun.nfts = {}
  BY DEF NoRun, Runs, Spending

\* A run that is neither a purchase nor a listing has nothing to fit.
LEMMA OthersFit ==
    ASSUME NEW a \in Accounts, NEW r, r.sound = FALSE, r.pc \notin Spending, run'[a] = r
    PROVE  Checked(a)' /\ WithinStanding(a)'
  BY DEF Checked, WithinStanding, Spending

LEMMA EndKeeps ==
    ASSUME ScriptsInv, NEW a \in Accounts, End(a), Unchanged
    PROVE  ScriptsInv'
  <1>1. NoRun \in Runs /\ NoRun.sound = FALSE /\ NoRun.pc \notin Spending
    BY NoRunIsARun DEF Spending, Purchasing
  <1>2. OnlyReads(a, NoRun)
    BY DEF End
  <1> QED
    BY <1>1, <1>2, ReadStep, OthersFit

\* A step on the ledger that ends the script.
LEMMA DoneKeeps ==
    ASSUME ScriptsInv, NEW a \in Accounts, ChangesTheLedger(a, NoRun), LedgerTypeOK',
           \A b \in Accounts \ {a} : lazyAllowed'[b] = lazyAllowed[b]
    PROVE  ScriptsInv'
  <1>1. NoRun \in Runs /\ NoRun.sound = FALSE /\ NoRun.pc \notin Spending
    BY NoRunIsARun DEF Spending, Purchasing
  <1> QED
    BY <1>1, LedgerStep, OthersFit

\* What a listing costs is covered, and so is a purchase.
LEMMA ListKeepsTypes ==
    ASSUME ScriptsInv, NEW a \in Accounts, NEW n \in NFTs, NEW buyer \in Accounts \cup {NoOne},
           NEW price \in Nat \X Nat, AcceptsListing(a, n, buyer, price),
           List(a, n, buyer, price), UNCHANGED termVars
    PROVE  /\ LedgerTypeOK' /\ \A b \in Accounts \ {a} : lazyAllowed'[b] = lazyAllowed[b]
           /\ hbar'[a] = hbar[a]
           /\ lazy[a] - lazy'[a] <= lazyAllowed[a]
  <1> DEFINE fee == IF buyer = NoOne /\ a \notin holders THEN cost ELSE 0
             new == [seller |-> a, buyer |-> buyer, hbar |-> price[1], lazy |-> price[2]]
  <1>1. fee \in Nat /\ fee <= lazy[a] /\ fee <= lazyAllowed[a]
    BY DEF AcceptsListing, ScriptsInv, LedgerTypeOK
  <1>2. new \in Listings
    BY DEF Listings
  <1>3. /\ listing' = [listing EXCEPT ![n] = new]
        /\ lazy' = [lazy EXCEPT ![a] = lazy[a] - fee]
        /\ lazyAllowed' = [lazyAllowed EXCEPT ![a] = lazyAllowed[a] - fee]
        /\ UNCHANGED <<ownerOf, hbar, cost>>
    BY DEF List, Draw, termVars
  <1> HIDE DEF fee, new
  <1>4. /\ listing' \in [NFTs -> Listings]
        /\ lazy' \in [Accounts -> Nat] /\ lazyAllowed' \in [Accounts -> Nat]
    BY <1>1, <1>2, <1>3 DEF ScriptsInv, LedgerTypeOK
  <1> QED
    BY <1>1, <1>3, <1>4 DEF ScriptsInv, LedgerTypeOK

LEMMA BuyKeepsTypes ==
    ASSUME ScriptsInv, NEW a \in Accounts, NEW n \in NFTs, NEW value \in Nat,
           AcceptsPurchase(a, n, value), Buy(a, n), UNCHANGED termVars
    PROVE  /\ LedgerTypeOK' /\ \A b \in Accounts \ {a} : lazyAllowed'[b] = lazyAllowed[b]
           /\ hbar[a] - hbar'[a] <= value
           /\ lazy[a] - lazy'[a] <= lazyAllowed[a]
  <1> DEFINE s == listing[n].seller
             h == listing[n].hbar
             l == listing[n].lazy
  <1>1. s \in Accounts /\ s # a /\ h \in Nat /\ l \in Nat
    BY DEF AcceptsPurchase, TradeValid, ScriptsInv, LedgerTypeOK, Listings
  <1>2. h <= value /\ h <= hbar[a] /\ (l > 0 => l <= lazy[a] /\ l <= lazyAllowed[a])
    BY <1>1 DEF AcceptsPurchase, ScriptsInv, LedgerTypeOK
  <1>3. /\ hbar' = [hbar EXCEPT ![a] = @ - h, ![s] = @ + h]
        /\ lazy' = [lazy EXCEPT ![a] = @ - l, ![s] = @ + l]
        /\ lazyAllowed' = [lazyAllowed EXCEPT ![a] = @ - l]
        /\ ownerOf' = [ownerOf EXCEPT ![n] = a]
        /\ listing' = [listing EXCEPT ![n] = NoListing]
        /\ cost' = cost
    BY DEF Buy, Draw, termVars
  <1> HIDE DEF s, h, l
  <1>4. NoListing \in Listings
    BY DEF NoListing, Listings
  <1>5. listing' \in [NFTs -> Listings] /\ ownerOf' \in [NFTs -> Accounts]
    BY <1>3, <1>4 DEF ScriptsInv, LedgerTypeOK
  <1>6. /\ hbar' \in [Accounts -> Nat] /\ hbar'[a] = hbar[a] - h
    BY <1>1, <1>2, <1>3 DEF ScriptsInv, LedgerTypeOK
  <1>7. /\ lazy' \in [Accounts -> Nat] /\ lazy'[a] = lazy[a] - l
    BY <1>1, <1>2, <1>3 DEF ScriptsInv, LedgerTypeOK
  <1>8. /\ lazyAllowed' \in [Accounts -> Nat]
        /\ \A b \in Accounts \ {a} : lazyAllowed'[b] = lazyAllowed[b]
    BY <1>1, <1>2, <1>3 DEF ScriptsInv, LedgerTypeOK
  <1> QED
    BY <1>1, <1>2, <1>3, <1>5, <1>6, <1>7, <1>8 DEF ScriptsInv, LedgerTypeOK

LEMMA BeganIsARun ==
    ASSUME NEW a \in Accounts, lazyAllowed[a] \in Nat
    PROVE  /\ Began(a) \in Runs /\ Began(a).sound = FALSE /\ Began(a).lazy = 0
           /\ Began(a).standing = lazyAllowed[a]
  <1>1. NoRun.lazy = 0
    BY DEF NoRun
  <1> QED
    BY <1>1, NoRunIsARun DEF Began, Runs

LEMMA CreatingKeeps ==
    ASSUME ScriptsInv, NEW a \in Accounts, Creating(a)
    PROVE  ScriptsInv'
  <1> DEFINE now == run[a]
  <1>0. now \in Runs /\ Checked(a) /\ WithinStanding(a) /\ lazyAllowed[a] \in Nat /\ cost \in Nat
    BY DEF ScriptsInv, LedgerTypeOK
  <1>1. ASSUME NEW n \in NFTs, NEW buyer \in Accounts \cup {NoOne}, NEW price \in Prices,
               StartCreateTrade(a, n, buyer, price)
        PROVE  ScriptsInv'
    <2> DEFINE pc == IF buyer = NoOne THEN "areAdvancedTradesFree" ELSE "setNFTAllowance"
               began == [Began(a) EXCEPT !.nfts = {n}, !.buyer = buyer, !.price = price]
               r == [began EXCEPT !.pc = pc]
    <2>1. OnlyReads(a, r) /\ Unchanged
      BY <1>1 DEF StartCreateTrade
    <2>2. price \in Nat \X Nat /\ {n} \in SUBSET NFTs /\ pc \in Spending
      BY ScriptsAssumption DEF Spending
    <2>3. /\ began \in Runs /\ began.sound = FALSE /\ began.lazy = 0
          /\ began.standing = lazyAllowed[a]
      BY <1>0, <2>2, BeganIsARun DEF Runs
    <2> HIDE DEF pc, began
    <2>4. r \in Runs /\ r.sound = FALSE /\ r.standing = lazyAllowed[a] /\ r.lazy = 0
      BY <2>2, <2>3 DEF Runs
    <2> HIDE DEF r
    <2>5. run'[a] = r => Checked(a)' /\ WithinStanding(a)'
      BY <1>0, <2>1, <2>4 DEF Checked, WithinStanding, Unchanged, allowanceVars, GreaterOf
    <2> QED
      BY <2>1, <2>4, <2>5, ReadStep
  <1>2. ASSUME ReadCost(a) PROVE ScriptsInv'
    <2>1. now.pc = "areAdvancedTradesFree" /\ now.sound = FALSE /\ Unchanged
      BY <1>0, <1>2 DEF ReadCost, At, Checked, Purchasing
    <2>2. PICK c \in {now.lazy, cost} :
             OnlyReads(a, [now EXCEPT !.pc = "setNFTAllowance", !.lazy = c])
                /\ (c = now.lazy \/ c = cost)
      <3>1. CASE a \in holders
        <4>1. [now EXCEPT !.pc = "setNFTAllowance"]
                 = [now EXCEPT !.pc = "setNFTAllowance", !.lazy = now.lazy]
          BY <1>0 DEF Runs
        <4> QED
          BY <1>2, <3>1, <4>1 DEF ReadCost
      <3>2. CASE a \notin holders
        BY <1>2, <3>2 DEF ReadCost
      <3> QED
        BY <3>1, <3>2
    <2> DEFINE r == [now EXCEPT !.pc = "setNFTAllowance", !.lazy = c]
    <2>3. /\ r \in Runs /\ r.sound = FALSE /\ r.lazy = c /\ r.standing = now.standing
          /\ r.pc = "setNFTAllowance"
      BY <1>0, <2>1 DEF Runs, Spending
    <2>4. now.lazy = 0 /\ now.standing \in Nat /\ lazyAllowed[a] <= GreaterOf(0, now.standing)
      BY <1>0, <2>1 DEF WithinStanding, Spending, Runs
    <2>5. c \in Nat
      BY <1>0, <2>2, <2>4
    <2>6. OnlyReads(a, r)
      BY <2>2
    <2> HIDE DEF r
    <2>7. run'[a] = r => Checked(a)' /\ WithinStanding(a)'
      BY <1>0, <2>1, <2>3, <2>4, <2>5
         DEF Checked, WithinStanding, GreaterOf, Unchanged, allowanceVars
    <2> QED
      BY <2>1, <2>3, <2>6, <2>7, ReadStep
  <1>3. ASSUME ApproveCollection(a) PROVE ScriptsInv'
    <2> DEFINE pc == IF now.lazy > 0 THEN "setListingAllowance" ELSE "submitListing"
               r == [now EXCEPT !.pc = pc]
    <2>1. /\ now.pc = "setNFTAllowance" /\ now.sound = FALSE /\ ChangesTheLedger(a, r)
          /\ UNCHANGED <<listing, ownerOf, hbar, lazy, lazyAllowed, cost>>
      BY <1>0, <1>3 DEF ApproveCollection, At, Checked, Purchasing, marketVars, termVars
    <2>2. pc \in Spending /\ pc # "areAdvancedTradesFree"
      BY DEF Spending
    <2> HIDE DEF pc
    <2>3. /\ r \in Runs /\ r.sound = FALSE /\ r.pc = pc
          /\ r.lazy = now.lazy /\ r.standing = now.standing
      BY <1>0, <2>1, <2>2 DEF Runs
    <2> HIDE DEF r
    <2>4. LedgerTypeOK'
      BY <2>1 DEF ScriptsInv, LedgerTypeOK
    <2>5. run'[a] = r => Checked(a)' /\ WithinStanding(a)'
      BY <1>0, <2>1, <2>2, <2>3 DEF Checked, WithinStanding, Spending
    <2> QED
      BY <2>1, <2>3, <2>4, <2>5, LedgerStep
  <1>4. ASSUME AllowListing(a) PROVE ScriptsInv'
    <2> DEFINE r == [now EXCEPT !.pc = "submitListing"]
    <2>1. /\ now.pc = "setListingAllowance" /\ now.sound = FALSE /\ ChangesTheLedger(a, r)
          /\ lazyAllowed' = [lazyAllowed EXCEPT ![a] = now.lazy]
          /\ UNCHANGED <<listing, ownerOf, hbar, lazy, cost>>
      BY <1>0, <1>4 DEF AllowListing, SetFTAllowance, At, Checked, Purchasing, marketVars, termVars
    <2>2. /\ r \in Runs /\ r.sound = FALSE /\ r.pc = "submitListing"
          /\ r.lazy = now.lazy /\ r.standing = now.standing /\ r.lazy \in Nat /\ r.standing \in Nat
      BY <1>0, <2>1 DEF Runs, Spending
    <2> HIDE DEF r
    <2>3. LedgerTypeOK' /\ lazyAllowed'[a] = now.lazy
      BY <1>0, <2>1, <2>2 DEF ScriptsInv, LedgerTypeOK
    <2>4. \A b \in Accounts \ {a} : lazyAllowed'[b] = lazyAllowed[b]
      BY <2>1 DEF ScriptsInv, LedgerTypeOK
    <2>5. run'[a] = r => Checked(a)' /\ WithinStanding(a)'
      BY <2>2, <2>3 DEF Checked, WithinStanding, GreaterOf
    <2> QED
      BY <2>1, <2>2, <2>3, <2>4, <2>5, LedgerStep
  <1>5. ASSUME SubmitListing(a) PROVE ScriptsInv'
    <2>1. PICK n \in now.nfts :
             Submit(a, "submitListing", AcceptsListing(a, n, now.buyer, now.price),
                    List(a, n, now.buyer, now.price))
      BY <1>5 DEF SubmitListing
    <2>2. n \in NFTs /\ now.buyer \in Accounts \cup {NoOne} /\ now.price \in Nat \X Nat
      BY <1>0 DEF Runs
    <2>3. CASE UNCHANGED <<marketVars, allowanceVars>> /\ End(a)
      BY <2>1, <2>3, EndKeeps DEF Submit, Unchanged
    <2>4. CASE /\ AcceptsListing(a, n, now.buyer, now.price)
               /\ List(a, n, now.buyer, now.price) /\ ChangesTheLedger(a, NoRun)
      BY <2>1, <2>2, <2>4, ListKeepsTypes, DoneKeeps DEF Submit
    <2> QED
      BY <2>1, <2>3, <2>4 DEF Submit
  <1> QED
    BY <1>1, <1>2, <1>3, <1>4, <1>5 DEF Creating

LEMMA CancellingKeeps ==
    ASSUME ScriptsInv, NEW a \in Accounts, Cancelling(a)
    PROVE  ScriptsInv'
  <1>1. ASSUME NEW D \in SUBSET NFTs,
               OnlyReads(a, [NoRun EXCEPT !.pc = "submitCancel", !.nfts = D]), Unchanged
        PROVE  ScriptsInv'
    <2> DEFINE r == [NoRun EXCEPT !.pc = "submitCancel", !.nfts = D]
    <2>1. r \in Runs /\ r.sound = FALSE /\ r.pc \notin Spending
      BY DEF NoRun, Runs, Spending, Purchasing
    <2> QED
      BY <1>1, <2>1, ReadStep, OthersFit
  <1>2. ASSUME NEW n \in NFTs, StartCancelTrade(a, n) PROVE ScriptsInv'
    BY <1>1, <1>2 DEF StartCancelTrade
  <1>3. ASSUME NEW D \in SUBSET NFTs, StartCancelTrades(a, D) PROVE ScriptsInv'
    BY <1>1, <1>3 DEF StartCancelTrades
  <1>4. ASSUME SubmitCancel(a) PROVE ScriptsInv'
    <2>1. CASE UNCHANGED <<marketVars, allowanceVars>> /\ End(a)
      BY <1>4, <2>1, EndKeeps DEF SubmitCancel, Submit, Unchanged
    <2>2. CASE CancelAll(run[a].nfts) /\ ChangesTheLedger(a, NoRun)
      <3>1. NoListing \in Listings
        BY DEF NoListing, Listings
      <3>2. /\ listing' \in [NFTs -> Listings]
            /\ UNCHANGED <<ownerOf, hbar, lazy, lazyAllowed, cost>>
        BY <1>4, <2>2, <3>1
           DEF CancelAll, SubmitCancel, Submit, allowanceVars, termVars, ScriptsInv, LedgerTypeOK
      <3>3. LedgerTypeOK'
        BY <3>2 DEF ScriptsInv, LedgerTypeOK
      <3> QED
        BY <2>2, <3>2, <3>3, DoneKeeps
    <2> QED
      BY <1>4, <2>1, <2>2 DEF SubmitCancel, Submit
  <1> QED
    BY <1>2, <1>3, <1>4 DEF Cancelling

LEMMA BrokenKeeps ==
    ASSUME ScriptsInv, NEW a \in Accounts, Broken(a)
    PROVE  ScriptsInv'
  <1> DEFINE r == [NoRun EXCEPT !.pc = "thrown"]
  <1>1. r \in Runs /\ r.sound = FALSE /\ r.pc \notin Spending
    BY DEF NoRun, Runs, Spending, Purchasing
  <1>2. OnlyReads(a, r) /\ Unchanged
    BY DEF Broken, ExecuteTrades, CreateMultipleTrades, CreateBatchTrade, ExecuteBatchTrade,
           CancelBatchTrade, CreateBid, CancelBid, ExecuteAgainstBid, ExecuteArbitrage, Throws
  <1> QED
    BY <1>1, <1>2, ReadStep, OthersFit

LEMMA RevokingKeeps ==
    ASSUME ScriptsInv, NEW a \in Accounts, Revoking(a)
    PROVE  ScriptsInv'
  <1>1. ASSUME RevokeTokenAllowances(a) PROVE ScriptsInv'
    <2> DEFINE r == [NoRun EXCEPT !.pc = "revokeHbar"]
    <2>1. r \in Runs /\ r.sound = FALSE /\ r.pc \notin Spending
      BY DEF NoRun, Runs, Spending, Purchasing
    <2>2. /\ lazyAllowed' \in {lazyAllowed, [lazyAllowed EXCEPT ![a] = 0]}
          /\ ChangesTheLedger(a, r) /\ UNCHANGED <<listing, ownerOf, hbar, lazy, cost>>
      BY <1>1 DEF RevokeTokenAllowances, marketVars, termVars
    <2>3. LedgerTypeOK' /\ \A b \in Accounts \ {a} : lazyAllowed'[b] = lazyAllowed[b]
      BY <2>2 DEF ScriptsInv, LedgerTypeOK
    <2> QED
      BY <2>1, <2>2, <2>3, LedgerStep, OthersFit
  <1>2. ASSUME RevokeHbarAllowances(a) PROVE ScriptsInv'
    <2>1. ChangesTheLedger(a, NoRun) /\ UNCHANGED <<listing, ownerOf, hbar, lazy, cost, lazyAllowed>>
      BY <1>2 DEF RevokeHbarAllowances, marketVars, termVars
    <2>2. LedgerTypeOK'
      BY <2>1 DEF ScriptsInv, LedgerTypeOK
    <2> QED
      BY <2>1, <2>2, DoneKeeps
  <1> QED
    BY <1>1, <1>2 DEF Revoking

LEMMA OutsideKeeps ==
    ASSUME ScriptsInv, Outside
    PROVE  ScriptsInv'
  <1>1. /\ listing' = listing /\ hbar' = hbar /\ lazy' = lazy /\ lazyAllowed' = lazyAllowed
        /\ ownerOf' \in [NFTs -> Accounts] /\ cost' \in Nat
    BY ScriptsAssumption DEF Outside, Transfer, SetCost, HoldersChange, ScriptsInv, LedgerTypeOK,
                             marketVars, allowanceVars, termVars
  <1>2. \A b \in Accounts : /\ Disturbed(run[b]) \in Runs
                            /\ Disturbed(run[b]).sound = FALSE
                            /\ Disturbed(run[b]).pc = run[b].pc
                            /\ Disturbed(run[b]).lazy = run[b].lazy
                            /\ Disturbed(run[b]).standing = run[b].standing
    BY DEF ScriptsInv, Runs, Disturbed
  <1>3. run' \in [Accounts -> Runs] /\ \A b \in Accounts : run'[b] = Disturbed(run[b])
    BY <1>2 DEF Outside
  <1>4. \A b \in Accounts : Checked(b)' /\ WithinStanding(b)'
    BY <1>1, <1>2, <1>3 DEF ScriptsInv, Checked, WithinStanding
  <1> QED
    BY <1>1, <1>3, <1>4 DEF ScriptsInv, LedgerTypeOK

LEMMA ExecutingKeeps ==
    ASSUME ScriptsInv, NEW a \in Accounts, Executing(a)
    PROVE  ScriptsInv'
  <1> DEFINE now == run[a]
  <1>0. /\ now \in Runs /\ Checked(a) /\ WithinStanding(a)
        /\ lazyAllowed[a] \in Nat /\ lazy[a] \in Nat /\ hbar[a] \in Nat
    BY DEF ScriptsInv, LedgerTypeOK
  <1>1. ASSUME NEW n \in NFTs, StartExecuteTrade(a, n) PROVE ScriptsInv'
    <2> DEFINE r == [Began(a) EXCEPT !.pc = "isTradeValid", !.nfts = {n}, !.sound = TRUE,
                                     !.hbar = listing[n].hbar, !.lazy = listing[n].lazy]
    <2>1. OnlyReads(a, r) /\ Unchanged /\ listing[n].seller # a
      BY <1>1 DEF StartExecuteTrade
    <2>2. listing[n].hbar \in Nat /\ listing[n].lazy \in Nat /\ "isTradeValid" \in Spending
      BY DEF ScriptsInv, LedgerTypeOK, Listings, Spending, Purchasing
    <2>3. /\ r \in Runs /\ r.pc = "isTradeValid" /\ r.nfts = {n} /\ r.hbar = listing[n].hbar
          /\ r.lazy = listing[n].lazy /\ r.standing = lazyAllowed[a]
      BY <1>0, <2>2, BeganIsARun DEF Runs
    <2> HIDE DEF r
    <2>4. run'[a] = r => Checked(a)' /\ WithinStanding(a)'
      BY <1>0, <2>1, <2>2, <2>3 DEF Checked, WithinStanding, Unchanged, marketVars,
                                    allowanceVars, GreaterOf, Purchasing
    <2> QED
      BY <2>1, <2>3, <2>4, ReadStep
  <1>2. ASSUME CheckTradeValid(a) PROVE ScriptsInv'
    <2> DEFINE pc == IF now.lazy > 0 THEN "setLazyAllowance" ELSE "balance"
               r == [now EXCEPT !.pc = pc]
    <2>1. /\ now.pc = "isTradeValid" /\ OnlyReads(a, r) /\ Unchanged
          /\ \A n \in now.nfts : TradeValid(a, n)
      BY <1>2 DEF CheckTradeValid, At
    <2>2. /\ pc \in {"setLazyAllowance", "balance"}
          /\ pc = "setLazyAllowance" <=> now.lazy > 0
      OBVIOUS
    <2> HIDE DEF pc
    <2>3. /\ r \in Runs /\ r.pc = pc /\ r.nfts = now.nfts /\ r.sound = now.sound
          /\ r.hbar = now.hbar /\ r.lazy = now.lazy /\ r.standing = now.standing
      BY <1>0, <2>2 DEF Runs, Spending, Purchasing
    <2> HIDE DEF r
    <2>4. run'[a] = r => Checked(a)' /\ WithinStanding(a)'
      BY <1>0, <2>1, <2>2, <2>3 DEF Checked, WithinStanding, Unchanged, marketVars, allowanceVars,
                                    Purchasing, Spending, TradeValid, Deliverable
    <2> QED
      BY <2>1, <2>3, <2>4, ReadStep
  <1>3. ASSUME AllowPurchase(a) PROVE ScriptsInv'
    <2>1. PICK allowance \in MirrorAllowance(a) :
             /\ IF allowance < now.lazy THEN SetFTAllowance(a, now.lazy) ELSE UNCHANGED lazyAllowed
             /\ ChangesTheLedger(a, [now EXCEPT
                   !.pc = "balance", !.sound = @ /\ allowance \in {lazyAllowed[a], 0}])
      BY <1>3 DEF AllowPurchase
    <2> DEFINE sound == now.sound /\ allowance \in {lazyAllowed[a], 0}
               r == [now EXCEPT !.pc = "balance", !.sound = sound]
    <2>2. /\ now.pc = "setLazyAllowance" /\ ChangesTheLedger(a, r)
          /\ UNCHANGED <<listing, ownerOf, hbar, lazy, approved, associated, hopAllowed, cost>>
      BY <1>0, <1>3, <2>1 DEF AllowPurchase, At, marketVars, termVars, Runs
    <2>3. lazy[a] >= now.lazy
      BY <1>0, <1>3 DEF AllowPurchase, Covers, CheckMirrorBalance, Answer, Null
    <2>4. sound \in BOOLEAN /\ (sound => now.sound /\ allowance \in {lazyAllowed[a], 0})
      BY <1>0 DEF Runs
    <2>5. \/ lazyAllowed' = [lazyAllowed EXCEPT ![a] = now.lazy]
          \/ lazyAllowed' = lazyAllowed /\ ~(allowance < now.lazy)
      BY <2>1 DEF SetFTAllowance
    <2> HIDE DEF sound
    <2>6. /\ r \in Runs /\ r.pc = "balance" /\ r.nfts = now.nfts /\ r.sound = sound
          /\ r.hbar = now.hbar /\ r.lazy = now.lazy /\ r.standing = now.standing
      BY <1>0, <2>4 DEF Runs, Spending, Purchasing
    <2> HIDE DEF r
    <2>7. now.lazy \in Nat /\ now.standing \in Nat
             /\ lazyAllowed[a] <= GreaterOf(now.lazy, now.standing)
      BY <1>0, <2>2 DEF Runs, WithinStanding, Spending, Purchasing
    <2>8. /\ LedgerTypeOK' /\ \A b \in Accounts \ {a} : lazyAllowed'[b] = lazyAllowed[b]
          /\ lazyAllowed'[a] \in {now.lazy, lazyAllowed[a]}
      BY <2>2, <2>5, <2>7 DEF ScriptsInv, LedgerTypeOK
    <2>9. sound /\ now.lazy > 0 => lazyAllowed'[a] >= now.lazy
      BY <1>0, <2>4, <2>5, <2>7 DEF ScriptsInv, LedgerTypeOK
    <2>10. lazyAllowed'[a] <= GreaterOf(now.lazy, now.standing)
      BY <1>0, <2>7, <2>8 DEF GreaterOf
    <2>11. run'[a] = r => Checked(a)' /\ WithinStanding(a)'
      BY <1>0, <2>2, <2>3, <2>4, <2>6, <2>9, <2>10
         DEF Checked, WithinStanding, Purchasing, TradeValid, Deliverable
    <2> QED
      BY <2>2, <2>6, <2>8, <2>11, LedgerStep
  <1>4. ASSUME CheckHbarBalance(a) PROVE ScriptsInv'
    <2> DEFINE r == [now EXCEPT !.pc = "associate"]
    <2>1. /\ now.pc = "balance" /\ OnlyReads(a, r) /\ Unchanged
      BY <1>4 DEF CheckHbarBalance, At
    <2>2. hbar[a] >= now.hbar + GasBuffer
      BY <1>4 DEF CheckHbarBalance, Covers, CheckMirrorHbarBalance, Answer, Null
    <2>3. hbar[a] >= now.hbar
      BY <1>0, <2>2, ScriptsAssumption DEF Runs
    <2>4. /\ r \in Runs /\ r.pc = "associate" /\ r.nfts = now.nfts /\ r.sound = now.sound
          /\ r.hbar = now.hbar /\ r.lazy = now.lazy /\ r.standing = now.standing
      BY <1>0 DEF Runs, Spending, Purchasing
    <2> HIDE DEF r
    <2>5. run'[a] = r => Checked(a)' /\ WithinStanding(a)'
      BY <1>0, <2>1, <2>3, <2>4 DEF Checked, WithinStanding, Unchanged, marketVars, allowanceVars,
                                    Purchasing, Spending, TradeValid, Deliverable
    <2> QED
      BY <2>1, <2>4, <2>5, ReadStep
  <1>5. ASSUME AssociateToken(a) PROVE ScriptsInv'
    <2> DEFINE r == [now EXCEPT !.pc = "setHopAllowance"]
    <2>1. /\ now.pc = "associate" /\ ChangesTheLedger(a, r) /\ a \in associated'
          /\ UNCHANGED <<listing, ownerOf, hbar, lazy, approved, lazyAllowed, hopAllowed, cost>>
      BY <1>5 DEF AssociateToken, At, marketVars, termVars
    <2>2. /\ r \in Runs /\ r.pc = "setHopAllowance" /\ r.nfts = now.nfts /\ r.sound = now.sound
          /\ r.hbar = now.hbar /\ r.lazy = now.lazy /\ r.standing = now.standing
      BY <1>0 DEF Runs, Spending, Purchasing
    <2> HIDE DEF r
    <2>3. LedgerTypeOK'
      BY <2>1 DEF ScriptsInv, LedgerTypeOK
    <2>4. run'[a] = r => Checked(a)' /\ WithinStanding(a)'
      BY <1>0, <2>1, <2>2 DEF Checked, WithinStanding, Purchasing, Spending, TradeValid, Deliverable
    <2> QED
      BY <2>1, <2>2, <2>3, <2>4, LedgerStep
  <1>6. ASSUME AllowHop(a) PROVE ScriptsInv'
    <2> DEFINE r == [now EXCEPT !.pc = "submitPurchase"]
    <2>1. /\ now.pc = "setHopAllowance" /\ ChangesTheLedger(a, r) /\ a \in hopAllowed'
          /\ UNCHANGED <<listing, ownerOf, hbar, lazy, approved, lazyAllowed, associated, cost>>
      BY <1>6 DEF AllowHop, SetHopAllowance, At, marketVars, termVars
    <2>2. /\ r \in Runs /\ r.pc = "submitPurchase" /\ r.nfts = now.nfts /\ r.sound = now.sound
          /\ r.hbar = now.hbar /\ r.lazy = now.lazy /\ r.standing = now.standing
      BY <1>0 DEF Runs, Spending, Purchasing
    <2> HIDE DEF r
    <2>3. LedgerTypeOK'
      BY <2>1 DEF ScriptsInv, LedgerTypeOK
    <2>4. run'[a] = r => Checked(a)' /\ WithinStanding(a)'
      BY <1>0, <2>1, <2>2 DEF Checked, WithinStanding, Purchasing, Spending, TradeValid, Deliverable
    <2> QED
      BY <2>1, <2>2, <2>3, <2>4, LedgerStep
  <1>7. ASSUME SubmitPurchase(a) PROVE ScriptsInv'
    <2>1. PICK n \in now.nfts :
             Submit(a, "submitPurchase", AcceptsPurchase(a, n, now.hbar), Buy(a, n))
      BY <1>7 DEF SubmitPurchase
    <2>2. n \in NFTs /\ now.hbar \in Nat
      BY <1>0 DEF Runs
    <2>3. CASE UNCHANGED <<marketVars, allowanceVars>> /\ End(a)
      BY <2>1, <2>3, EndKeeps DEF Submit, Unchanged
    <2>4. CASE AcceptsPurchase(a, n, now.hbar) /\ Buy(a, n) /\ ChangesTheLedger(a, NoRun)
      BY <2>1, <2>2, <2>4, BuyKeepsTypes, DoneKeeps DEF Submit
    <2> QED
      BY <2>1, <2>3, <2>4 DEF Submit
  <1> QED
    BY <1>1, <1>2, <1>3, <1>4, <1>5, <1>6, <1>7 DEF Executing

LEMMA ScriptsNextInv ==
    ASSUME ScriptsInv, [ScriptsNext]_scriptVars
    PROVE  ScriptsInv'
  <1>1. ASSUME NEW a \in Accounts, Abort(a) PROVE ScriptsInv'
    BY <1>1, EndKeeps DEF Abort, Unchanged
  <1>2. CASE UNCHANGED scriptVars
    BY <1>2 DEF scriptVars, ScriptsInv, LedgerTypeOK, Checked, WithinStanding, TradeValid, Deliverable
  <1> QED
    BY <1>1, <1>2, OutsideKeeps, CreatingKeeps, ExecutingKeeps, CancellingKeeps, BrokenKeeps,
       RevokingKeeps DEF ScriptsNext

\* The inductive invariant of the scripts: what the steps of a running script
\* have checked or set still stands while nobody else changes the ledger, and
\* the gas station may draw no more than was confirmed or stood before.
THEOREM ScriptsInvariance == ScriptsSpec => []ScriptsInv
  BY ScriptsInitInv, ScriptsNextInv, PTL DEF ScriptsSpec

\* Where what executeTrade has read is still so, the contract accepts the
\* purchase it submits, whatever the prices, the balances and the number of
\* accounts, and whatever ran before.
THEOREM ChecksSufficeHolds == ScriptsSpec => []ChecksSuffice
  <1>1. ScriptsInv => ChecksSuffice
    <2> SUFFICES ASSUME ScriptsInv, NEW a \in Accounts, NEW n \in run[a].nfts,
                        run[a].pc = "submitPurchase", run[a].sound
                 PROVE  AcceptsPurchase(a, n, run[a].hbar)
      BY DEF ChecksSuffice
    <2>1. /\ Checked(a) /\ run[a] \in Runs /\ n \in NFTs
          /\ run[a].hbar \in Nat /\ run[a].lazy \in Nat
      BY DEF ScriptsInv, Runs
    <2> QED
      BY <2>1 DEF Checked, AcceptsPurchase
  <1> QED
    BY <1>1, ScriptsInvariance, PTL

\* What a step of somebody else leaves of a script: where it is.
LEMMA LedgerTurn ==
    ASSUME ScriptsInv, NEW a \in Accounts, NEW r, ChangesTheLedger(a, r)
    PROVE  \A b \in Accounts \ {a} : run'[b].pc = run[b].pc
  BY DEF ScriptsInv, Runs, ChangesTheLedger, Disturbed

LEMMA ReadTurn ==
    ASSUME ScriptsInv, NEW a \in Accounts, NEW r, OnlyReads(a, r)
    PROVE  \A b \in Accounts \ {a} : run'[b].pc = run[b].pc
  BY DEF ScriptsInv, OnlyReads

\* Of the steps of a script, the two submissions alone can cost its user.
Costless(a) == hbar'[a] = hbar[a] /\ lazy'[a] = lazy[a]
Submits(a) ==
    \E n \in run[a].nfts :
       \/ /\ AcceptsListing(a, n, run[a].buyer, run[a].price)
          /\ List(a, n, run[a].buyer, run[a].price)
          /\ run[a].pc = "submitListing"
       \/ /\ AcceptsPurchase(a, n, run[a].hbar) /\ Buy(a, n)
          /\ run[a].pc = "submitPurchase"

LEMMA OwnTurns ==
    ASSUME ScriptsInv, NEW a \in Accounts,
           Creating(a) \/ Executing(a) \/ Cancelling(a) \/ Broken(a) \/ Revoking(a) \/ Abort(a)
    PROVE  /\ \A b \in Accounts \ {a} : run'[b].pc = run[b].pc
           /\ Costless(a) \/ (Submits(a) /\ UNCHANGED termVars)
  <1> USE DEF Costless
  <1>1. CASE Creating(a)
    <2>1. ASSUME NEW n \in NFTs, NEW buyer \in Accounts \cup {NoOne}, NEW price \in Prices,
                 StartCreateTrade(a, n, buyer, price)
          PROVE  (\A b \in Accounts \ {a} : run'[b].pc = run[b].pc) /\ Costless(a)
      BY <2>1, ReadTurn DEF StartCreateTrade, Unchanged, marketVars
    <2>2. ASSUME ReadCost(a)
          PROVE  (\A b \in Accounts \ {a} : run'[b].pc = run[b].pc) /\ Costless(a)
      BY <2>2, ReadTurn DEF ReadCost, Unchanged, marketVars
    <2>3. ASSUME ApproveCollection(a) \/ AllowListing(a)
          PROVE  (\A b \in Accounts \ {a} : run'[b].pc = run[b].pc) /\ Costless(a)
      BY <2>3, LedgerTurn DEF ApproveCollection, AllowListing, marketVars
    <2>4. ASSUME SubmitListing(a)
          PROVE  /\ \A b \in Accounts \ {a} : run'[b].pc = run[b].pc
                 /\ Costless(a) \/ (Submits(a) /\ UNCHANGED termVars)
      BY <2>4, LedgerTurn, ReadTurn DEF SubmitListing, Submit, Submits, End, At, marketVars
    <2> QED
      BY <1>1, <2>1, <2>2, <2>3, <2>4 DEF Creating
  <1>2. CASE Executing(a)
    <2>1. ASSUME NEW n \in NFTs, StartExecuteTrade(a, n)
          PROVE  (\A b \in Accounts \ {a} : run'[b].pc = run[b].pc) /\ Costless(a)
      BY <2>1, ReadTurn DEF StartExecuteTrade, Unchanged, marketVars
    <2>2. ASSUME CheckTradeValid(a) \/ CheckHbarBalance(a)
          PROVE  (\A b \in Accounts \ {a} : run'[b].pc = run[b].pc) /\ Costless(a)
      BY <2>2, ReadTurn DEF CheckTradeValid, CheckHbarBalance, Unchanged, marketVars
    <2>3. ASSUME AllowPurchase(a) \/ AssociateToken(a) \/ AllowHop(a)
          PROVE  (\A b \in Accounts \ {a} : run'[b].pc = run[b].pc) /\ Costless(a)
      BY <2>3, LedgerTurn DEF AllowPurchase, AssociateToken, AllowHop, marketVars
    <2>4. ASSUME SubmitPurchase(a)
          PROVE  /\ \A b \in Accounts \ {a} : run'[b].pc = run[b].pc
                 /\ Costless(a) \/ (Submits(a) /\ UNCHANGED termVars)
      BY <2>4, LedgerTurn, ReadTurn DEF SubmitPurchase, Submit, Submits, End, At, marketVars
    <2> QED
      BY <1>2, <2>1, <2>2, <2>3, <2>4 DEF Executing
  <1>3. CASE Cancelling(a)
    BY <1>3, LedgerTurn, ReadTurn
       DEF Cancelling, StartCancelTrade, StartCancelTrades, SubmitCancel, Submit, CancelAll, End,
           Unchanged, marketVars
  <1>4. CASE Broken(a)
    BY <1>4, ReadTurn
       DEF Broken, ExecuteTrades, CreateMultipleTrades, CreateBatchTrade, ExecuteBatchTrade,
           CancelBatchTrade, CreateBid, CancelBid, ExecuteAgainstBid, ExecuteArbitrage, Throws,
           Unchanged, marketVars
  <1>5. CASE Revoking(a)
    BY <1>5, LedgerTurn DEF Revoking, RevokeTokenAllowances, RevokeHbarAllowances, marketVars
  <1>6. CASE Abort(a)
    BY <1>6, ReadTurn DEF Abort, End, marketVars
  <1> QED
    BY <1>1, <1>2, <1>3, <1>4, <1>5, <1>6

\* The bill of one step of a script.
Bill(a) == /\ hbar[a] - hbar'[a] <= run[a].hbar
           /\ lazy[a] - lazy'[a] <= GreaterOf(run[a].lazy, run[a].standing)

LEMMA CostlessBill ==
    ASSUME ScriptsInv, NEW a \in Accounts, Costless(a)
    PROVE  Bill(a)
  BY DEF ScriptsInv, LedgerTypeOK, Runs, Costless, Bill, GreaterOf

LEMMA SubmitsBill ==
    ASSUME ScriptsInv, NEW a \in Accounts, Submits(a), UNCHANGED termVars
    PROVE  Bill(a)
  <1>1. /\ run[a] \in Runs /\ run[a].pc \in Spending /\ WithinStanding(a)
        /\ lazy[a] \in Nat /\ hbar[a] \in Nat /\ lazyAllowed[a] \in Nat
    BY DEF ScriptsInv, LedgerTypeOK, Submits, Spending, Purchasing
  <1>2. /\ run[a].hbar \in Nat /\ run[a].buyer \in Accounts \cup {NoOne}
        /\ run[a].price \in Nat \X Nat /\ run[a].nfts \in SUBSET NFTs
        /\ run[a].lazy \in Nat /\ run[a].standing \in Nat
    BY <1>1 DEF Runs
  <1>3. /\ LedgerTypeOK' /\ hbar[a] - hbar'[a] <= run[a].hbar
        /\ lazy[a] - lazy'[a] <= lazyAllowed[a]
    <2>1. PICK n \in run[a].nfts :
             \/ /\ AcceptsListing(a, n, run[a].buyer, run[a].price)
                /\ List(a, n, run[a].buyer, run[a].price)
             \/ AcceptsPurchase(a, n, run[a].hbar) /\ Buy(a, n)
      BY DEF Submits
    <2>2. n \in NFTs
      BY <1>2
    <2>3. CASE AcceptsPurchase(a, n, run[a].hbar) /\ Buy(a, n)
      BY <1>2, <2>2, <2>3, BuyKeepsTypes
    <2>4. CASE /\ AcceptsListing(a, n, run[a].buyer, run[a].price)
               /\ List(a, n, run[a].buyer, run[a].price)
      <3>1. /\ LedgerTypeOK' /\ hbar'[a] = hbar[a] /\ lazy[a] - lazy'[a] <= lazyAllowed[a]
        BY <1>2, <2>2, <2>4, ListKeepsTypes
      <3> QED
        BY <1>1, <1>2, <3>1
    <2> QED
      BY <2>1, <2>3, <2>4
  <1>4. lazy'[a] \in Nat
    BY <1>3 DEF LedgerTypeOK
  <1> QED
    BY <1>1, <1>2, <1>3, <1>4 DEF Bill, WithinStanding, GreaterOf

\* Nobody pays more HBAR than the price he was shown, nor more $LAZY than he
\* was shown or had left allowed, however listings, costs, exemptions and
\* balances change between the steps of his script.
THEOREM SpendsWhatWasConfirmedHolds == ScriptsSpec => SpendsWhatWasConfirmed
  <1>1. ASSUME ScriptsInv, [ScriptsNext]_scriptVars
        PROVE  [\A a \in Accounts : run[a].pc # "idle" /\ run'[a].pc = "idle" =>
                   /\ hbar[a] - hbar'[a] <= run[a].hbar
                   /\ lazy[a] - lazy'[a] <= GreaterOf(run[a].lazy, run[a].standing)]_scriptVars
    <2> SUFFICES ASSUME ScriptsNext, NEW a \in Accounts, run[a].pc # "idle", run'[a].pc = "idle"
                 PROVE  Bill(a)
      BY <1>1 DEF Bill
    <2>1. CASE Outside
      <3>1. Costless(a)
        BY <2>1 DEF Outside, Transfer, SetCost, HoldersChange, marketVars, Costless
      <3> QED
        BY <1>1, <3>1, CostlessBill
    <2>2. ASSUME NEW b \in Accounts,
                 Creating(b) \/ Executing(b) \/ Cancelling(b) \/ Broken(b) \/ Revoking(b) \/ Abort(b)
          PROVE  Bill(a)
      <3>1. /\ \A c \in Accounts \ {b} : run'[c].pc = run[c].pc
            /\ Costless(b) \/ (Submits(b) /\ UNCHANGED termVars)
        BY <1>1, <2>2, OwnTurns
      <3>2. b = a
        BY <3>1
      <3> QED
        BY <1>1, <3>1, <3>2, CostlessBill, SubmitsBill
    <2> QED
      BY <2>1, <2>2 DEF ScriptsNext
  <1> QED
    BY <1>1, ScriptsInvariance, PTL DEF ScriptsSpec, SpendsWhatWasConfirmed

-----------------------------------------------------------------------------
(* Lists in transactions and in pages.                                       *)

\* Where the first m parts of a list end, when a part has size items.
EndOf(items, size, m) == LesserOf(m * size, Len(items))

\* c is the first m parts of a list, none of them empty but for the list.
Parts(c, items, size, m) ==
    /\ c = [b \in 1 .. m |-> SubSeq(items, (b - 1) * size + 1, EndOf(items, size, b))]
    /\ \A b \in 1 .. m : (b - 1) * size <= Len(items)

\* Put together, they are the beginning of the list.
LEMMA PartsFlatten ==
    ASSUME NEW T, NEW items \in Seq(T), NEW size \in Nat, NEW m \in Nat, NEW c,
           Parts(c, items, size, m)
    PROVE  FlattenSeq(c) = SubSeq(items, 1, EndOf(items, size, m))
  <1> DEFINE EndAt(b) == EndOf(items, size, b)
             g == [b \in 1 .. m |-> SubSeq(items, 1, EndAt(b))]
             Eq(f) == f = [b \in 1 .. m |-> IF b = 1 THEN c[b] ELSE f[b-1] \o c[b]]
             Sol == CHOOSE f : Eq(f)
  <1>1. Len(c) = m
    <2>1. c = [b \in 1 .. m |-> c[b]]
      BY DEF Parts
    <2> QED
      BY <2>1, ListLength
  <1>2. CASE m = 0
    <2>1. FlattenSeq(c) = c /\ c = <<>>
      <3>1. c = <<>>
        BY <1>2 DEF Parts
      <3> QED
        BY <1>1, <1>2, <3>1 DEF FlattenSeq
    <2>2. EndAt(m) = 0
      BY <1>2 DEF EndOf, LesserOf
    <2> QED
      BY <2>1, <2>2
  <1>3. CASE m # 0
    <2>1. FlattenSeq(c) = Sol[m]
      BY <1>1, <1>3, Zenon DEF FlattenSeq
    <2>2. ASSUME NEW b \in 1 .. m
          PROVE  /\ c[b] = SubSeq(items, (b - 1) * size + 1, EndAt(b))
                 /\ (b - 1) * size \in 0 .. Len(items) /\ EndAt(b) \in (b - 1) * size .. Len(items)
                 /\ b # 1 => b - 1 \in 1 .. m /\ EndAt(b - 1) = (b - 1) * size
      <3> DEFINE p == (b - 1) * size
                 q == b * size
      <3>1. p \in Nat /\ q \in Nat /\ q = p + size
        OBVIOUS
      <3>2. p <= Len(items)
        BY DEF Parts
      <3>3. EndAt(b) = LesserOf(q, Len(items)) /\ EndAt(b - 1) = LesserOf(p, Len(items))
        BY DEF EndOf
      <3>4. c[b] = SubSeq(items, p + 1, EndAt(b))
        BY DEF Parts
      <3> HIDE DEF p, q
      <3>5. EndAt(b) \in p .. Len(items) /\ EndAt(b - 1) = p /\ p \in 0 .. Len(items)
        BY <3>1, <3>2, <3>3 DEF LesserOf
      <3> QED
        BY <3>4, <3>5 DEF p
    <2>3. ASSUME NEW b \in 1 .. m, b # 1 PROVE g[b] = g[b-1] \o c[b]
      <3> DEFINE p == (b - 1) * size
                 q == EndAt(b)
      <3>1. /\ c[b] = SubSeq(items, p + 1, q) /\ p \in 0 .. Len(items) /\ q \in p .. Len(items)
            /\ b - 1 \in 1 .. m /\ EndAt(b - 1) = p
        BY <2>2, <2>3
      <3>2. g[b] = SubSeq(items, 1, q) /\ g[b-1] = SubSeq(items, 1, p)
        BY <3>1
      <3> HIDE DEF p, q
      <3>3. SubSeq(items, 1, p) \o SubSeq(items, p + 1, q) = SubSeq(items, 1, q)
        <4>1. 1 \in 1 .. Len(items) + 1 /\ p \in 1 - 1 .. Len(items) /\ q \in p .. Len(items)
          BY <3>1
        <4> QED
          BY <4>1, ConcatAdjacentSubSeq
      <3> QED
        BY <3>1, <3>2, <3>3
    <2>4. g[1] = c[1]
      <3>1. 1 \in 1 .. m /\ (1 - 1) * size + 1 = 1
        BY <1>3
      <3> QED
        BY <2>2, <3>1
    <2> HIDE DEF End
    <2>5. Eq(g)
      <3>1. g = [b \in 1 .. m |-> g[b]]
        OBVIOUS
      <3> HIDE DEF g
      <3> QED
        BY <2>3, <2>4, <3>1
    <2>6. Eq(Sol)
      <3> HIDE DEF Eq, g
      <3> QED
        BY <2>5
    <2> HIDE DEF Sol
    <2>7. \A b \in 1 .. m : b # 1 => b - 1 \in 1 .. m
      OBVIOUS
    <2> DEFINE Same(b) == b \in 1 .. m => Sol[b] = g[b]
               S == {b \in Nat : Same(b)}
    <2>8. 0 \in S
      OBVIOUS
    <2>9. ASSUME NEW b \in Nat, b \in S PROVE b + 1 \in S
      <3> SUFFICES ASSUME b + 1 \in 1 .. m PROVE Sol[b+1] = g[b+1]
        OBVIOUS
      <3>1. CASE b = 0
        BY <2>4, <2>6, <3>1
      <3>2. CASE b # 0
        <4>1. b \in 1 .. m /\ b + 1 # 1 /\ (b + 1) - 1 = b
          BY <3>2
        <4>2. Sol[b] = g[b]
          BY <2>9, <4>1
        <4>3. Sol[b+1] = Sol[b] \o c[b+1]
          BY <2>6, <4>1
        <4>4. g[b+1] = g[b] \o c[b+1]
          <5> HIDE DEF g
          <5> QED
            BY <2>3, <4>1
        <4> QED
          BY <4>2, <4>3, <4>4
      <3> QED
        BY <3>1, <3>2
    <2>10. Nat \subseteq S
      <3> HIDE DEF S
      <3> QED
        BY <2>8, <2>9, InductiveSet
    <2>11. Sol[m] = g[m]
      <3>1. m \in 1 .. m /\ m \in S
        <4> HIDE DEF S
        <4> QED
          BY <1>3, <2>10
      <3> QED
        BY <3>1
    <2>12. g[m] = SubSeq(items, 1, EndAt(m))
      <3>1. m \in 1 .. m
        BY <1>3
      <3> QED
        BY <3>1
    <2> HIDE DEF g
    <2> QED
      BY <2>1, <2>11, <2>12 DEF End
  <1> QED
    BY <1>2, <1>3

LEMMA LesserType ==
    ASSUME NEW a \in Nat, NEW b \in Nat
    PROVE  LesserOf(a, b) \in Nat /\ LesserOf(a, b) <= a /\ LesserOf(a, b) <= b
  BY DEF LesserOf

\* As many parts as it takes: the last is not empty, and ends where the list does.
LEMMA PartsCount ==
    ASSUME NEW n \in Nat, NEW size \in Nat, size > 0
    PROVE  /\ (n + size - 1) \div size \in Nat
           /\ n <= ((n + size - 1) \div size) * size
           /\ \A b \in 1 .. (n + size - 1) \div size : (b - 1) * size < n
  <1> DEFINE a == n + size - 1
             m == a \div size
  <1>1. a \in Nat /\ a = n + size - 1
    OBVIOUS
  <1> HIDE DEF a
  <1>2. m \in Nat /\ m * size <= a /\ a < m * size + size
    BY <1>1, FloorFacts
  <1> HIDE DEF m
  <1>3. m * size \in Nat
    BY <1>2
  <1>4. n <= m * size
    BY <1>1, <1>2, <1>3
  <1>5. ASSUME NEW b \in 1 .. m PROVE (b - 1) * size < n
    <2>1. PICK k \in Nat : m = b + k
      <3>1. m - b \in Nat /\ m = b + (m - b)
        BY <1>2
      <3> QED
        BY <3>1
    <2>2. m * size = (b - 1) * size + size + k * size
      BY <2>1
    <2>3. k * size \in Nat /\ (b - 1) * size \in Nat
      OBVIOUS
    <2> QED
      BY <1>1, <1>2, <1>3, <2>2, <2>3
  <1> QED
    BY <1>2, <1>4, <1>5 DEF m, a

LEMMA BatchesAreParts ==
    ASSUME NEW T, NEW items \in Seq(T), NEW size \in Nat, size > 0
    PROVE  /\ Len(Batches(items, size)) \in Nat
           /\ \A m \in 0 .. Len(Batches(items, size)) :
                  Parts(SubSeq(Batches(items, size), 1, m), items, size, m)
           /\ EndOf(items, size, Len(Batches(items, size))) = Len(items)
           /\ \A m \in 1 .. Len(Batches(items, size)) : (m - 1) * size < Len(items)
           /\ \A b \in DOMAIN Batches(items, size) : Len(Batches(items, size)[b]) \in 1 .. size
  <1> DEFINE n == Len(items)
             m == (n + size - 1) \div size
             part(b) == SubSeq(items, (b - 1) * size + 1, EndOf(items, size, b))
             bs == Batches(items, size)
  <1>1. n \in Nat /\ m \in Nat /\ n <= m * size /\ \A b \in 1 .. m : (b - 1) * size < n
    BY PartsCount
  <1>2. \A b \in 1 .. m : IF b * size < n THEN b * size = EndOf(items, size, b)
                                          ELSE n = EndOf(items, size, b)
    <2> SUFFICES ASSUME NEW b \in 1 .. m
                 PROVE  IF b * size < n THEN b * size = EndOf(items, size, b)
                                        ELSE n = EndOf(items, size, b)
      OBVIOUS
    <2> DEFINE q == b * size
    <2>1. q \in Nat /\ EndOf(items, size, b) = LesserOf(q, n)
      BY <1>1 DEF EndOf
    <2> HIDE DEF q
    <2>2. IF q < n THEN q = LesserOf(q, n) ELSE n = LesserOf(q, n)
      BY <1>1, <2>1 DEF LesserOf
    <2> QED
      BY <2>1, <2>2 DEF q
  <1>3. bs = [b \in 1 .. m |-> part(b)]
    <2>1. bs = [b \in 1 .. m |-> SubSeq(items, (b - 1) * size + 1,
                                        IF b * size < n THEN b * size ELSE n)]
      BY DEF Batches
    <2> HIDE DEF bs, m, n
    <2>2. \A b \in 1 .. m : (IF b * size < n THEN b * size ELSE n) = EndOf(items, size, b)
      BY <1>2
    <2> QED
      BY <2>1, <2>2
  <1>4. Len(bs) = m /\ DOMAIN bs = 1 .. m
    <2> HIDE DEF part, m
    <2>1. bs = [b \in 1 .. m |-> bs[b]]
      BY <1>3
    <2> HIDE DEF bs
    <2> QED
      BY <1>1, <2>1, ListLength
  <1> HIDE DEF m, part, n
  <1>5. ASSUME NEW k \in 0 .. m PROVE Parts(SubSeq(bs, 1, k), items, size, k)
    <2>1. \A b \in 1 .. k : b \in 1 .. m
      BY <1>1
    <2>2. SubSeq(bs, 1, k) = [b \in 1 .. k |-> part(b)]
      <3>1. bs \in Seq({part(b) : b \in 1 .. m})
        BY <1>1, <1>3
      <3> HIDE DEF bs
      <3>2. SubSeq(bs, 1, k) = [b \in 1 .. k |-> bs[b]]
        BY <1>1, <1>4, <3>1
      <3>3. \A b \in 1 .. k : bs[b] = part(b)
        BY <1>3, <2>1 DEF bs
      <3> QED
        BY <3>2, <3>3
    <2>3. \A b \in 1 .. k : (b - 1) * size <= n
      <3> SUFFICES ASSUME NEW b \in 1 .. k PROVE (b - 1) * size <= n
        OBVIOUS
      <3> DEFINE p == (b - 1) * size
      <3>1. p < n /\ p \in Int
        BY <1>1, <2>1
      <3> HIDE DEF p
      <3>2. p <= n
        BY <1>1, <3>1
      <3> QED
        BY <3>2 DEF p
    <2> HIDE DEF bs
    <2> QED
      BY <2>2, <2>3 DEF Parts, part, n
  <1>6. EndOf(items, size, m) = n
    <2> DEFINE q == m * size
    <2>1. q \in Nat /\ n <= q
      BY <1>1
    <2> HIDE DEF q
    <2>2. LesserOf(q, n) = n
      BY <1>1, <2>1 DEF LesserOf
    <2> QED
      BY <2>2 DEF EndOf, q, n
  <1>7. ASSUME NEW b \in 1 .. m PROVE Len(bs[b]) \in 1 .. size
    <2> DEFINE p == (b - 1) * size
               q == b * size
    <2>1. p \in Nat /\ q = p + size /\ q \in Nat /\ p < n
      BY <1>1
    <2>2. bs[b] = SubSeq(items, p + 1, LesserOf(q, n))
      <3> HIDE DEF bs
      <3> QED
        BY <1>3 DEF part, EndOf, bs, n
    <2> HIDE DEF p, q, bs
    <2>3. LesserOf(q, n) \in p + 1 .. n /\ LesserOf(q, n) <= p + size
      BY <1>1, <2>1 DEF LesserOf
    <2>4. Len(SubSeq(items, p + 1, LesserOf(q, n))) = LesserOf(q, n) - p
      BY <1>1, <2>1, <2>3 DEF n
    <2>5. LesserOf(q, n) - p \in 1 .. size
      BY <1>1, <2>1, <2>3
    <2> QED
      BY <2>2, <2>4, <2>5
  <1> QED
    BY <1>1, <1>4, <1>5, <1>6, <1>7 DEF n

-----------------------------------------------------------------------------
(* What a helper tells of what it has submitted.                             *)

\* The first transaction that is not confirmed, or the one after the last.
LEMMA FirstUnconfirmedExists ==
    ASSUME NEW batches, Len(batches) \in Nat, NEW net
    PROVE  /\ FirstUnconfirmed(batches, net) \in 1 .. Len(batches) + 1
           /\ FirstUnconfirmed(batches, net) <= Len(batches)
                  => ~Confirmed(FirstUnconfirmed(batches, net), net)
  <1> DEFINE n == Len(batches)
             Out == {b \in 1 .. n + 1 : b <= n => ~Confirmed(b, net)}
  <1>1. Out \in SUBSET Nat /\ n + 1 \in Out
    OBVIOUS
  <1>2. PICK x \in Out : \A y \in Out : x <= y
    <2> HIDE DEF Out
    <2> QED
      BY <1>1, LeastElement
  <1>3. x \in 1 .. n + 1 /\ (x <= n => ~Confirmed(x, net))
    OBVIOUS
  <1>4. \A earlier \in 1 .. x - 1 : Confirmed(earlier, net)
    <2> SUFFICES ASSUME NEW earlier \in 1 .. x - 1, ~Confirmed(earlier, net) PROVE FALSE
      OBVIOUS
    <2>1. earlier \in 1 .. n + 1 /\ ~(x <= earlier)
      BY <1>3
    <2>2. earlier \in Out
      BY <2>1
    <2> HIDE DEF Out
    <2> QED
      BY <1>2, <2>1, <2>2
  <1>5. \E b \in 1 .. n + 1 : /\ b <= n => ~Confirmed(b, net)
                              /\ \A earlier \in 1 .. b - 1 : Confirmed(earlier, net)
    BY <1>3, <1>4
  <1> QED
    BY <1>5 DEF FirstUnconfirmed

\* The first items of a list.
Beginning(part, items) == \E k \in 0 .. Len(items) : part = SubSeq(items, 1, k)

LEMMA BeginningType ==
    ASSUME NEW T, NEW items \in Seq(T), NEW part, Beginning(part, items)
    PROVE  /\ part \in Seq(T) /\ Len(part) \in 0 .. Len(items)
           /\ \A i \in 1 .. Len(part) : part[i] = items[i]
           /\ IsPrefix(part, items)
           /\ Len(part) = Len(items) => part = items
  <1>1. PICK k \in 0 .. Len(items) : part = SubSeq(items, 1, k)
    BY DEF Beginning
  <1>2. part \in Seq(T) /\ Len(part) = k /\ \A i \in 1 .. k : part[i] = items[i]
    BY <1>1
  <1>3. SubSeq(part, 1, k) = part /\ SubSeq(items, 1, Len(items)) = items
    BY <1>2
  <1>4. IsPrefix(part, items)
    BY <1>1, <1>2, <1>3 DEF IsPrefix
  <1>5. Len(part) = Len(items) => part = items
    BY <1>1, <1>2, <1>3
  <1> QED
    BY <1>1, <1>2, <1>4, <1>5

\* Whatever becomes of the transactions, in a list of any length and batches of
\* any size.
LEMMA SubmissionsTellTheTruth ==
    ASSUME NEW T, NEW items \in Seq(T), NEW size \in Nat, size > 0, NEW net,
           NEW refusal, refusal # "SUCCESS"
    PROVE  /\ TellsTheTruth(SubmitInOrder(Batches(items, size), net, refusal), items, net)
           /\ Beginning(SubmitInOrder(Batches(items, size), net, refusal).applied, items)
  <1> DEFINE bs == Batches(items, size)
             stop == FirstUnconfirmed(bs, net)
             m == IF stop <= Len(bs) /\ stop \in net.applied THEN stop ELSE stop - 1
             end == EndOf(items, size, m)
             result == SubmitInOrder(bs, net, refusal)
  <1>1. /\ Len(bs) \in Nat
        /\ \A k \in 0 .. Len(bs) : Parts(SubSeq(bs, 1, k), items, size, k)
        /\ EndOf(items, size, Len(bs)) = Len(items)
        /\ \A k \in 1 .. Len(bs) : (k - 1) * size < Len(items)
    BY BatchesAreParts
  <1> HIDE DEF bs
  <1>2. stop \in 1 .. Len(bs) + 1 /\ (stop <= Len(bs) => ~Confirmed(stop, net))
    BY <1>1, FirstUnconfirmedExists
  <1>3. /\ result.applied = FlattenSeq(SubSeq(bs, 1, m))
        /\ stop > Len(bs) => result.answer = "SUCCESS"
        /\ stop <= Len(bs) => result.answer \in {refusal, "thrown"}
    <2>1. result = [applied |-> FlattenSeq(SubSeq(bs, 1, m)),
                    answer  |-> IF stop > Len(bs) THEN "SUCCESS"
                                ELSE IF stop \in net.reached THEN refusal ELSE "thrown"]
      BY Zenon DEF SubmitInOrder
    <2> HIDE DEF stop, m, result
    <2> QED
      BY <1>1, <1>2, <2>1
  <1> HIDE DEF stop, result
  <1>4. /\ m \in 0 .. Len(bs) /\ m \in Nat
        /\ stop > Len(bs) => m = Len(bs)
        /\ stop <= Len(bs) /\ stop \notin net.applied => m = stop - 1
    BY <1>1, <1>2
  <1> HIDE DEF m
  <1>5. result.applied = SubSeq(items, 1, end)
    <2>1. Parts(SubSeq(bs, 1, m), items, size, m)
      BY <1>1, <1>4
    <2>2. FlattenSeq(SubSeq(bs, 1, m)) = SubSeq(items, 1, end)
      BY <1>4, <2>1, PartsFlatten
    <2> QED
      BY <1>3, <2>2
  <1>6. end \in 0 .. Len(items)
    <2> DEFINE q == m * size
    <2>1. q \in Nat
      BY <1>4
    <2> HIDE DEF q
    <2>2. LesserOf(q, Len(items)) \in 0 .. Len(items)
      BY <2>1 DEF LesserOf
    <2> QED
      BY <2>2 DEF EndOf, q
  <1>7. stop > Len(bs) => end = Len(items)
    BY <1>1, <1>4
  <1>8. stop <= Len(bs) /\ stop \notin net.applied => end < Len(items)
    <2> SUFFICES ASSUME stop <= Len(bs), stop \notin net.applied PROVE end < Len(items)
      OBVIOUS
    <2>1. stop \in 1 .. Len(bs) /\ m = stop - 1
      BY <1>1, <1>2, <1>4
    <2>2. (stop - 1) * size < Len(items)
      BY <1>1, <2>1
    <2> DEFINE q == (stop - 1) * size
    <2>3. q \in Nat /\ q < Len(items) /\ end = LesserOf(q, Len(items))
      BY <1>4, <2>1, <2>2 DEF EndOf
    <2> HIDE DEF q, end
    <2> QED
      BY <2>3 DEF LesserOf
  <1> HIDE DEF end
  <1>9. /\ Len(SubSeq(items, 1, end)) = end
        /\ end = Len(items) => SubSeq(items, 1, end) = items
    BY <1>6
  <1>10. Beginning(result.applied, items)
    BY <1>5, <1>6 DEF Beginning
  <1>11. result.answer = "SUCCESS" => result.applied = items
    <2>1. result.answer = "SUCCESS" => stop > Len(bs)
      BY <1>1, <1>2, <1>3
    <2> QED
      BY <1>5, <1>7, <1>9, <2>1
  <1>12. ASSUME NoAnswerLost(net), result.applied = items PROVE result.answer = "SUCCESS"
    <2>1. CASE stop > Len(bs)
      BY <1>3, <2>1
    <2>2. CASE stop <= Len(bs) /\ stop \notin net.applied
      BY <1>5, <1>6, <1>8, <1>9, <1>12, <2>2
    <2>3. CASE stop <= Len(bs) /\ stop \in net.applied
      BY <1>2, <1>12, <2>3 DEF NoAnswerLost, Confirmed
    <2> QED
      BY <1>1, <1>2, <2>1, <2>2, <2>3
  <1>13. IsPrefix(result.applied, items)
    BY <1>10, BeginningType
  <1>14. TellsTheTruth(result, items, net)
    BY <1>11, <1>12, <1>13 DEF TellsTheTruth
  <1> QED
    BY <1>10, <1>14 DEF result, bs

\* One transaction for a list of one item.
LEMMA SubmissionOfOne ==
    ASSUME NEW x, NEW net, NEW refusal, refusal # "SUCCESS"
    PROVE  /\ TellsTheTruth(SubmitAtOnce(<<x>>, net, refusal), <<x>>, net)
           /\ Beginning(SubmitAtOnce(<<x>>, net, refusal).applied, <<x>>)
  <1> DEFINE items == <<x>>
  <1>1. items \in Seq({x}) /\ Len(items) = 1
    OBVIOUS
  <1> HIDE DEF items
  <1>2. SubSeq(items, 1, 1) = items
    BY <1>1
  <1>3. Batches(items, 1) = <<items>>
    <2>1. (1 + 1 - 1) \div 1 = 1
      OBVIOUS
    <2>2. Batches(items, 1) = [b \in 1 .. 1 |-> SubSeq(items, (b - 1) * 1 + 1,
                                                       IF b * 1 < 1 THEN b * 1 ELSE 1)]
      BY <1>1, <2>1 DEF Batches
    <2>3. \A b \in 1 .. 1 : SubSeq(items, (b - 1) * 1 + 1, IF b * 1 < 1 THEN b * 1 ELSE 1) = items
      <3>1. \A b \in 1 .. 1 : (b - 1) * 1 + 1 = 1 /\ (IF b * 1 < 1 THEN b * 1 ELSE 1) = 1
        OBVIOUS
      <3> QED
        BY <1>2, <3>1
    <2>4. <<items>> = [b \in 1 .. 1 |-> items]
      OBVIOUS
    <2> QED
      BY <2>2, <2>3, <2>4
  <1>4. /\ TellsTheTruth(SubmitInOrder(<<items>>, net, refusal), items, net)
        /\ Beginning(SubmitInOrder(<<items>>, net, refusal).applied, items)
    BY <1>1, <1>3, SubmissionsTellTheTruth
  <1> QED
    BY <1>4, Zenon DEF items, SubmitAtOnce

\* The numbers 1 .. n in order.
Count(n) == [i \in 1 .. n |-> i]

LEMMA CountType ==
    ASSUME NEW n \in Nat
    PROVE  Count(n) \in Seq(Nat) /\ Len(Count(n)) = n /\ \A i \in 1 .. n : Count(n)[i] = i
  BY DEF Count

\* What a list mentions twice is cleared once.
LEMMA FirstMentionsOfTwice ==
    ASSUME NEW n \in Nat
    PROVE  FirstMentions(Count(n) \o Count(n)) = Count(n)
  <1> DEFINE list == Count(n) \o Count(n)
             N == Len(list)
             Step(f, k) == IF Contains(f[k-1], list[k]) THEN f[k-1] ELSE Append(f[k-1], list[k])
             Eq(f) == f = [k \in 0 .. N |-> IF k = 0 THEN <<>> ELSE Step(f, k)]
             Sol == CHOOSE f : Eq(f)
             g == [k \in 0 .. N |-> SubSeq(Count(n), 1, LesserOf(k, n))]
  <1>1. FirstMentions(list) = Sol[N]
    BY Zenon DEF FirstMentions
  <1>2. /\ Count(n) \in Seq(Nat) /\ Len(Count(n)) = n /\ \A i \in 1 .. n : Count(n)[i] = i
    BY CountType
  <1>3. /\ N = n + n /\ N \in Nat
        /\ \A k \in 1 .. n : list[k] = k
        /\ \A k \in n + 1 .. N : list[k] = k - n
    BY <1>2
  <1> HIDE DEF list, N
  <1>4. ASSUME NEW k \in 0 .. n
        PROVE  /\ Len(SubSeq(Count(n), 1, k)) = k /\ SubSeq(Count(n), 1, k) \in Seq(Nat)
               /\ \A i \in 1 .. k : SubSeq(Count(n), 1, k)[i] = i
    BY <1>2
  <1>5. ASSUME NEW k \in 1 .. N PROVE g[k] = Step(g, k)
    <2>1. k - 1 \in 0 .. N /\ k \in 0 .. N
      BY <1>3
    <2>2. g[k-1] = SubSeq(Count(n), 1, LesserOf(k - 1, n)) /\ g[k] = SubSeq(Count(n), 1, LesserOf(k, n))
      BY <2>1
    <2> HIDE DEF g
    <2>3. CASE k <= n
      <3>1. LesserOf(k - 1, n) = k - 1 /\ LesserOf(k, n) = k /\ k \in 1 .. n /\ k - 1 \in 0 .. n
        BY <2>3 DEF LesserOf
      <3>2. list[k] = k /\ Count(n)[k] = k
        BY <1>2, <1>3, <3>1
      <3>3. ~Contains(g[k-1], list[k])
        <4>1. Len(g[k-1]) = k - 1 /\ \A i \in 1 .. k - 1 : g[k-1][i] = i
          BY <1>4, <2>2, <3>1
        <4>2. \A i \in 1 .. k - 1 : i # k
          OBVIOUS
        <4> QED
          BY <3>2, <4>1, <4>2 DEF Contains
      <3>4. Append(SubSeq(Count(n), 1, k - 1), Count(n)[k]) = SubSeq(Count(n), 1, k)
        BY <1>2, <3>1, SubSeqByOne
      <3> QED
        BY <2>2, <3>1, <3>2, <3>3, <3>4
    <2>4. CASE ~(k <= n)
      <3>1. LesserOf(k - 1, n) = n /\ LesserOf(k, n) = n /\ k \in n + 1 .. N /\ k - n \in 1 .. n
            /\ n \in 0 .. n
        BY <1>3, <2>4 DEF LesserOf
      <3>2. list[k] = k - n
        BY <1>3, <3>1
      <3>3. Len(g[k-1]) = n /\ g[k-1][k-n] = k - n
        BY <1>4, <2>2, <3>1
      <3>4. Contains(g[k-1], list[k])
        BY <3>1, <3>2, <3>3 DEF Contains
      <3> QED
        BY <2>2, <3>1, <3>4
    <2> QED
      BY <2>3, <2>4
  <1>6. \A k \in 0 .. N : k # 0 => k \in 1 .. N
    BY <1>3
  <1>7. g[0] = <<>> /\ g[N] = Count(n)
    <2>1. LesserOf(0, n) = 0 /\ LesserOf(N, n) = n /\ 0 \in 0 .. N /\ N \in 0 .. N
      BY <1>3 DEF LesserOf
    <2>2. SubSeq(Count(n), 1, 0) = <<>> /\ SubSeq(Count(n), 1, n) = Count(n)
      BY <1>2
    <2> QED
      BY <2>1, <2>2
  <1>8. g = [k \in 0 .. N |-> g[k]]
    OBVIOUS
  <1> HIDE DEF g
  <1>9. Eq(g)
    <2> HIDE DEF Step
    <2> QED
      BY <1>5, <1>6, <1>7, <1>8
  <1>10. Eq(Sol)
    <2> HIDE DEF Eq
    <2> QED
      BY <1>9
  <1> HIDE DEF Sol
  <1> DEFINE S == {k \in Nat : k <= N => Sol[k] = g[k]}
  <1>11. 0 \in S
    <2>1. 0 \in 0 .. N
      BY <1>3
    <2>2. Sol[0] = <<>>
      BY <1>10, <2>1
    <2> QED
      BY <1>7, <2>2
  <1>12. ASSUME NEW k \in Nat, k \in S PROVE k + 1 \in S
    <2> SUFFICES ASSUME k + 1 <= N PROVE Sol[k+1] = g[k+1]
      OBVIOUS
    <2>1. k + 1 \in 1 .. N /\ k + 1 \in 0 .. N /\ k + 1 # 0 /\ k <= N /\ (k + 1) - 1 = k
      BY <1>3
    <2>2. Sol[k] = g[k]
      BY <1>12, <2>1
    <2>3. Sol[k+1] = Step(Sol, k + 1)
      <3> HIDE DEF Step
      <3> QED
        BY <1>10, <2>1
    <2>4. g[k+1] = Step(g, k + 1)
      <3> HIDE DEF Step
      <3> QED
        BY <1>5, <2>1
    <2> QED
      BY <2>1, <2>2, <2>3, <2>4
  <1>13. Nat \subseteq S
    <2> HIDE DEF S
    <2> QED
      BY <1>11, <1>12, InductiveSet
  <1>14. Sol[N] = g[N]
    <2>1. N \in S
      <3> HIDE DEF S
      <3> QED
        BY <1>3, <1>13
    <2> QED
      BY <1>3, <2>1
  <1> QED
    BY <1>1, <1>7, <1>14 DEF list

\* No fee that is offered is one the SDK takes for a negative number.
LEMMA FeesAlwaysAccepted == FeesAreAccepted
  <1> SUFFICES ASSUME NEW configured \in 0 .. 1000 PROVE ~RefusedBySDK(MaxTxFee(configured))
    BY DEF FeesAreAccepted
  <1>1. 2^24 = 16777216 /\ 2^23 = 8388608
    BY SMTT(20)
  <1>2. ~RefusedBySDK(DefaultFee)
    BY <1>1, SMTT(20) DEF RefusedBySDK, DefaultFee
  <1> HIDE DEF DefaultFee
  <1> QED
    BY <1>2 DEF MaxTxFee

\* A token and its serials: the list is in two parts, and the first part is
\* submitted before the second.
LEMMA TwoPartsTellTheTruth ==
    ASSUME NEW T, NEW x \in T, NEW items \in Seq(T), NEW net, NEW later,
           NoAnswerLost(net) => NoAnswerLost(later),
           NEW first, TellsTheTruth(first, <<x>>, net), Beginning(first.applied, <<x>>),
           NEW second, TellsTheTruth(second, items, later), Beginning(second.applied, items)
    PROVE  TellsTheTruth(IF first.answer # "SUCCESS" THEN first
                         ELSE [applied |-> first.applied \o second.applied,
                               answer  |-> second.answer],
                         <<x>> \o items, net)
  <1> DEFINE all == <<x>> \o items
             both == first.applied \o second.applied
  <1>1. /\ all \in Seq(T) /\ Len(all) = Len(items) + 1 /\ all[1] = x
        /\ \A i \in 1 .. Len(items) : all[i + 1] = items[i]
    OBVIOUS
  <1>2. /\ <<x>> \in Seq(T) /\ Len(<<x>>) = 1 /\ <<x>>[1] = x
        /\ Len(items) \in Nat
    OBVIOUS
  <1>3. /\ first.applied \in Seq(T) /\ Len(first.applied) \in 0 .. 1
        /\ \A i \in 1 .. Len(first.applied) : first.applied[i] = <<x>>[i]
        /\ Len(first.applied) = 1 => first.applied = <<x>>
    <2> DEFINE one == <<x>>
    <2>1. one \in Seq(T) /\ Len(one) = 1 /\ Beginning(first.applied, one)
      BY <1>2
    <2> HIDE DEF one
    <2>2. /\ first.applied \in Seq(T) /\ Len(first.applied) \in 0 .. 1
          /\ \A i \in 1 .. Len(first.applied) : first.applied[i] = one[i]
          /\ Len(first.applied) = 1 => first.applied = one
      BY <2>1, BeginningType
    <2> QED
      BY <2>2, Zenon DEF one
  <1>4. /\ second.applied \in Seq(T) /\ Len(second.applied) \in 0 .. Len(items)
        /\ \A i \in 1 .. Len(second.applied) : second.applied[i] = items[i]
        /\ Len(second.applied) = Len(items) => second.applied = items
    BY BeginningType
  <1> HIDE DEF all
  <1>5. CASE first.answer # "SUCCESS"
    <2>1. IsPrefix(first.applied, all)
      <3>1. \A i \in 1 .. Len(first.applied) : i = 1 /\ first.applied[i] = all[i]
        BY <1>1, <1>2, <1>3
      <3>2. Len(first.applied) <= Len(all)
        BY <1>1, <1>2, <1>3
      <3>3. SubSeq(all, 1, Len(first.applied)) = first.applied
        BY <1>1, <1>3, <3>1, <3>2
      <3>4. SubSeq(first.applied, 1, Len(first.applied)) = first.applied
        BY <1>3
      <3> QED
        BY <3>2, <3>3, <3>4 DEF IsPrefix
    <2>2. ~(NoAnswerLost(net) /\ first.applied = all)
      <3> SUFFICES ASSUME NoAnswerLost(net), first.applied = all PROVE FALSE
        OBVIOUS
      <3>1. first.applied = <<x>>
        BY <1>1, <1>2, <1>3
      <3> QED
        BY <1>5, <3>1 DEF TellsTheTruth
    <2>3. TellsTheTruth(first, all, net)
      BY <1>5, <2>1, <2>2 DEF TellsTheTruth
    <2> QED
      BY <1>5, <2>3 DEF all
  <1>6. CASE first.answer = "SUCCESS"
    <2> DEFINE result == [applied |-> both, answer |-> second.answer]
    <2>1. first.applied = <<x>>
      BY <1>6 DEF TellsTheTruth
    <2>2. /\ both \in Seq(T) /\ Len(both) = Len(second.applied) + 1 /\ both[1] = x
          /\ \A i \in 1 .. Len(second.applied) : both[i + 1] = second.applied[i]
      BY <1>2, <1>4, <2>1
    <2>3. result.applied = both /\ result.answer = second.answer
      OBVIOUS
    <2>4. second.applied = items => both = all
      BY <2>1 DEF all
    <2> HIDE DEF both
    <2>5. IsPrefix(both, all)
      <3>1. Len(both) <= Len(all)
        BY <1>1, <1>2, <1>4, <2>2
      <3>2. ASSUME NEW i \in 1 .. Len(both) PROVE both[i] = all[i]
        <4>1. CASE i = 1
          BY <1>1, <2>2, <4>1
        <4>2. CASE i # 1
          <5>1. i - 1 \in 1 .. Len(second.applied) /\ i - 1 \in 1 .. Len(items) /\ (i - 1) + 1 = i
            BY <1>2, <1>4, <2>2, <4>2
          <5> QED
            BY <1>1, <1>4, <2>2, <5>1
        <4> QED
          BY <4>1, <4>2
      <3>3. SubSeq(all, 1, Len(both)) = both
        BY <1>1, <2>2, <3>1, <3>2
      <3>4. SubSeq(both, 1, Len(both)) = both
        BY <2>2
      <3> QED
        BY <3>1, <3>3, <3>4 DEF IsPrefix
    <2>6. both = all => second.applied = items
      BY <1>1, <1>2, <1>4, <2>2
    <2> HIDE DEF result
    <2>7. TellsTheTruth(result, all, net)
      <3>1. result.answer = "SUCCESS" => result.applied = all
        BY <2>3, <2>4 DEF TellsTheTruth
      <3>2. NoAnswerLost(net) /\ result.applied = all => result.answer = "SUCCESS"
        BY <2>3, <2>6 DEF TellsTheTruth
      <3> QED
        BY <2>3, <2>5, <3>1, <3>2 DEF TellsTheTruth
    <2> QED
      BY <1>6, <2>7 DEF all, both, result
  <1> QED
    BY <1>5, <1>6

\* What may become of transactions, however many.
Nets == [applied : SUBSET Nat, reached : SUBSET Nat, heard : SUBSET Nat]

LEMMA MintTellsTheTruth ==
    ASSUME NEW n \in Nat, NEW net \in Nets
    PROVE  TellsTheTruth(MintNFT(n, net), <<0>> \o Count(n), net)
  <1> DEFINE create == SubmitAtOnce(<<0>>, net, "thrown")
             mint == SubmitInOrder(Batches(Count(n), TransferBatch), AfterTheFirst(net), "thrown")
  <1>1. TransferBatch \in Nat /\ TransferBatch > 0 /\ "thrown" # "SUCCESS"
    BY HelpersAssumption
  <1>2. Count(n) \in Seq(Nat) /\ 0 \in Nat
    BY CountType
  <1>3. TellsTheTruth(create, <<0>>, net) /\ Beginning(create.applied, <<0>>)
    BY <1>1, SubmissionOfOne
  <1>4. TellsTheTruth(mint, Count(n), AfterTheFirst(net)) /\ Beginning(mint.applied, Count(n))
    BY <1>1, <1>2, SubmissionsTellTheTruth
  <1>5. NoAnswerLost(net) => NoAnswerLost(AfterTheFirst(net))
    BY DEF AfterTheFirst, NoAnswerLost, Nets
  <1>6. MintNFT(n, net) = IF create.answer # "SUCCESS" THEN create
                          ELSE [applied |-> create.applied \o mint.applied, answer |-> mint.answer]
    BY Zenon DEF MintNFT, Count
  <1> HIDE DEF create, mint
  <1> QED
    BY <1>2, <1>3, <1>4, <1>5, <1>6, TwoPartsTellTheTruth

\* TRUE of lists of any length.
LEMMA HelpersTellTheTruthOfAnyList ==
    ASSUME NEW n \in Nat, NEW net \in Nets
    PROVE  HelpersTellTheTruth(n, net)
  <1>1. TransferBatch \in Nat /\ TransferBatch > 0 /\ AllowanceBatch \in Nat /\ AllowanceBatch > 0
    BY HelpersAssumption
  <1>2. Count(n) \in Seq(Nat)
    BY CountType
  <1>3. "FAILED" # "SUCCESS" /\ "thrown" # "SUCCESS"
    OBVIOUS
  <1>4. \A size \in {TransferBatch, AllowanceBatch} :
            \A b \in DOMAIN Batches(Count(n), size) : Len(Batches(Count(n), size)[b]) \in 1 .. size
    BY <1>1, <1>2, BatchesAreParts
  <1>5. TellsTheTruth(SendNFT(Count(n), net), Count(n), net)
    BY <1>1, <1>2, <1>3, SubmissionsTellTheTruth DEF SendNFT
  <1>6. TellsTheTruth(MintNFT(n, net), <<0>> \o Count(n), net)
    BY MintTellsTheTruth
  <1>7. /\ TellsTheTruth(SetNFTAllowanceAll(Count(n), net), Count(n), net)
        /\ TellsTheTruth(ClearNFTAllowances(Count(n), net), Count(n), net)
        /\ TellsTheTruth(ClearHbarAllowances(Count(n), net), Count(n), net)
    BY <1>1, <1>2, <1>3, SubmissionsTellTheTruth
       DEF SetNFTAllowanceAll, ClearNFTAllowances, ClearHbarAllowances
  <1>8. TellsTheTruth(ClearFTAllowances(Count(n) \o Count(n), net), Count(n), net)
    <2>1. FirstMentions(Count(n) \o Count(n)) = Count(n)
      BY FirstMentionsOfTwice
    <2> QED
      BY <1>1, <1>2, <1>3, <2>1, SubmissionsTellTheTruth DEF ClearFTAllowances
  <1> QED
    BY <1>4, <1>5, <1>6, <1>7, <1>8, Zenon DEF HelpersTellTheTruth, Count

-----------------------------------------------------------------------------
(* What the mirror node tells.                                               *)

\* Page after page, the serials are all there are.
LEMMA AllPagesAreRead ==
    ASSUME NEW T, NEW serials \in Seq(T)
    PROVE  FlattenSeq([p \in PagesRead(serials) |-> PageOf(serials, p)]) = serials
  <1> DEFINE n == Len(serials)
             k == (n + MirrorPage - 1) \div MirrorPage
             m == PageCount(serials)
             c == [p \in PagesRead(serials) |-> PageOf(serials, p)]
  <1>1. n \in Nat /\ MirrorPage \in Nat /\ MirrorPage > 0
    BY HelpersAssumption
  <1>2. k \in Nat /\ n <= k * MirrorPage /\ \A b \in 1 .. k : (b - 1) * MirrorPage < n
    BY <1>1, PartsCount
  <1>3. m = GreaterOf(1, k) /\ PagesRead(serials) = 1 .. m
    BY DEF PageCount, PagesRead
  <1>4. c = [b \in 1 .. m |-> SubSeq(serials, (b - 1) * MirrorPage + 1, EndOf(serials, MirrorPage, b))]
    BY <1>3 DEF PageOf, EndOf
  <1> HIDE DEF k, m, c
  <1>5. m \in Nat /\ (m = k \/ (m = 1 /\ k = 0))
    BY <1>2, <1>3 DEF GreaterOf
  <1>6. \A b \in 1 .. m : (b - 1) * MirrorPage <= n
    <2> SUFFICES ASSUME NEW b \in 1 .. m PROVE (b - 1) * MirrorPage <= n
      OBVIOUS
    <2> DEFINE q == (b - 1) * MirrorPage
    <2>1. q \in Nat
      BY <1>1, <1>5
    <2>2. CASE m = k
      <3>1. q < n
        BY <1>2, <2>2
      <3> HIDE DEF q, n
      <3>2. q <= n
        BY <1>1, <2>1, <3>1
      <3> QED
        BY <3>2 DEF q
    <2>3. CASE m = 1
      <3>1. b - 1 = 0
        BY <2>3
      <3>2. q = 0
        BY <1>1, <3>1
      <3> QED
        BY <1>1, <3>2
    <2> QED
      BY <1>5, <2>2, <2>3
  <1>7. EndOf(serials, MirrorPage, m) = n
    <2> DEFINE q == m * MirrorPage
    <2>1. q \in Nat /\ n <= q
      <3>1. CASE m = k
        BY <1>1, <1>2, <1>5, <3>1
      <3>2. CASE m = 1 /\ k = 0
        <4>1. n = 0
          BY <1>1, <1>2, <3>2
        <4> QED
          BY <1>1, <1>5, <4>1
      <3> QED
        BY <1>5, <3>1, <3>2
    <2> HIDE DEF q, n
    <2>2. LesserOf(q, n) = n
      BY <1>1, <2>1 DEF LesserOf
    <2> QED
      BY <2>2 DEF EndOf, q, n
  <1>8. Parts(c, serials, MirrorPage, m)
    BY <1>4, <1>6 DEF Parts
  <1>9. FlattenSeq(c) = SubSeq(serials, 1, EndOf(serials, MirrorPage, m))
    BY <1>1, <1>5, <1>8, PartsFlatten
  <1>10. SubSeq(serials, 1, n) = serials
    OBVIOUS
  <1> QED
    BY <1>7, <1>9, <1>10 DEF c

\* An event found by its name is the newest of that name.
LEMMA FoundIsNewest ==
    ASSUME NEW log \in Seq(LogEvents), NEW name, NEW depth \in 1 .. Len(log) + 1, NEW ok,
           NEW found \in FindLastEventByName(log, name, depth, ok)
    PROVE  \E i \in DOMAIN log :
               log[i] = found /\ \A j \in i + 1 .. Len(log) : log[j].name # name
  <1> DEFINE n == Len(log)
             events == GetDecodedEventsFromMirror(log, depth, ok)
             named == {k \in 1 .. Len(events) : events[k].name = name}
             d == LesserOf(depth, n)
  <1>1. found \in IF named = {} THEN {} ELSE {events[Min(named)]}
    BY DEF FindLastEventByName, Null
  <1>2. n \in Nat /\ d \in 0 .. n /\ DOMAIN log = 1 .. n
    BY DEF LesserOf
  <1>3. /\ Reverse(log) \in Seq(LogEvents) /\ Len(Reverse(log)) = n
        /\ \A k \in 1 .. n : Reverse(log)[k] = log[(n - k) + 1]
    <2>1. Reverse(log) = [k \in 1 .. n |-> log[(n - k) + 1]]
      BY DEF Reverse
    <2>2. \A k \in 1 .. n : log[(n - k) + 1] \in LogEvents
      BY <1>2
    <2> HIDE DEF n
    <2> QED
      BY <1>2, <2>1, <2>2
  <1>4. \/ Len(events) = 0
        \/ Len(events) = d /\ \A k \in 1 .. d : events[k] = log[(n - k) + 1]
    <2>1. events = <<>> \/ events = Newest(log, depth)
      BY DEF GetDecodedEventsFromMirror
    <2>2. Newest(log, depth) = SubSeq(Reverse(log), 1, d)
      BY DEF Newest
    <2> HIDE DEF events, d, n
    <2>3. /\ Len(SubSeq(Reverse(log), 1, d)) = d
          /\ \A k \in 1 .. d : SubSeq(Reverse(log), 1, d)[k] = Reverse(log)[k]
      BY <1>2, <1>3
    <2>4. \A k \in 1 .. d : k \in 1 .. n
      BY <1>2
    <2>5. CASE events = <<>>
      BY <2>5
    <2>6. CASE events = SubSeq(Reverse(log), 1, d)
      BY <1>3, <2>3, <2>4, <2>6
    <2> QED
      BY <2>1, <2>2, <2>5, <2>6
  <1> HIDE DEF events, d, n
  <1>5. named # {} /\ found = events[Min(named)]
    BY <1>1
  <1>6. Len(events) = d /\ \A k \in 1 .. d : events[k] = log[(n - k) + 1]
    BY <1>4, <1>5
  <1>7. named \in SUBSET Nat
    OBVIOUS
  <1>8. Min(named) \in named /\ \A y \in named : Min(named) <= y
    <2> HIDE DEF named
    <2>1. \E x \in named : \A y \in named : x <= y
      BY <1>5, <1>7, LeastElement
    <2> QED
      BY <2>1 DEF Min
  <1>9. PICK k \in 1 .. d : k = Min(named) /\ events[k].name = name
    BY <1>6, <1>8
  <1>10. ASSUME NEW j \in (n - k) + 2 .. n PROVE log[j].name # name
    <2>1. (n - j) + 1 \in 1 .. d /\ ~(k <= (n - j) + 1) /\ (n - ((n - j) + 1)) + 1 = j
      BY <1>2
    <2>2. events[(n - j) + 1] = log[j]
      BY <1>6, <2>1
    <2>3. (n - j) + 1 \notin named
      <3> HIDE DEF named
      <3> QED
        BY <1>8, <1>9, <2>1
    <2> QED
      BY <1>6, <2>1, <2>2, <2>3
  <1>11. (n - k) + 1 \in 1 .. n /\ log[(n - k) + 1] = found
    BY <1>2, <1>5, <1>6, <1>9
  <1>12. ((n - k) + 1) + 1 = (n - k) + 2
    BY <1>2
  <1> QED
    BY <1>2, <1>10, <1>11, <1>12 DEF n

\* The spender of a serial is the one it has, where each serial has one entry.
LEMMA SpenderIsTheOne ==
    ASSUME NEW n \in Nat, NEW i \in 1 .. n, NEW ok,
           NEW nfts, nfts = [s \in 1 .. n |-> [serial |-> s, spender |-> s]]
    PROVE  CheckMirrorNFTAllowance(nfts, i, ok) \in {{i}, Null}
  <1> DEFINE k == IF Len(nfts) < MirrorPage THEN Len(nfts) ELSE MirrorPage
             page == FirstPage(nfts)
             found == {j \in 1 .. Len(page) : page[j].serial = i}
  <1>1. /\ nfts \in Seq([serial : Nat, spender : Nat]) /\ Len(nfts) = n
        /\ \A s \in 1 .. n : nfts[s].serial = s /\ nfts[s].spender = s
    OBVIOUS
  <1>2. MirrorPage \in Nat
    BY HelpersAssumption
  <1>3. k \in 0 .. n
    BY <1>1, <1>2
  <1>4. page = SubSeq(nfts, 1, k)
    BY DEF FirstPage
  <1> HIDE DEF k, page
  <1>5. Len(page) = k /\ \A s \in 1 .. k : page[s].serial = s /\ page[s].spender = s
    <2>1. Len(page) = k /\ \A s \in 1 .. k : page[s] = nfts[s]
      BY <1>1, <1>3, <1>4
    <2>2. \A s \in 1 .. k : s \in 1 .. n
      BY <1>3
    <2> QED
      BY <1>1, <2>1, <2>2
  <1>6. CheckMirrorNFTAllowance(nfts, i, ok)
            = IF ~ok \/ found = {} THEN Null ELSE {page[Max(found)].spender}
    BY DEF CheckMirrorNFTAllowance, page
  <1>7. CASE found = {}
    BY <1>6, <1>7
  <1>8. CASE found # {}
    <2>1. found = {i} /\ i \in 1 .. k
      BY <1>5, <1>8
    <2>2. Max({i}) = i
      BY DEF Max
    <2>3. page[Max(found)].spender = i
      BY <1>5, <2>1, <2>2
    <2> HIDE DEF found
    <2> QED
      BY <1>6, <2>3
  <1> QED
    BY <1>7, <1>8

\* TRUE of any number of pages and any log.
LEMMA MirrorNeverMisleads ==
    ASSUME NEW n \in Nat, NEW log \in Seq(LogEvents), NEW name
    PROVE  NeverMisleads(Count(n), log, name)
  <1>1. Count(n) \in Seq(Nat) /\ Len(Count(n)) = n /\ DOMAIN Count(n) = 1 .. n
    BY CountType DEF Count
  <1>2. \A down : GetSerialsOwned(Count(n), down) \in {{Count(n)}, Null}
    BY <1>1, AllPagesAreRead DEF GetSerialsOwned
  <1>3. GetSerialsOwned(Count(n), {}) = {Count(n)}
    BY <1>1, AllPagesAreRead DEF GetSerialsOwned
  <1>4. \A ok \in BOOLEAN, depth \in 1 .. Len(log) + 1 :
          \A found \in FindLastEventByName(log, name, depth, ok) :
             \E i \in DOMAIN log :
                 log[i] = found /\ \A j \in i + 1 .. Len(log) : log[j].name # name
    BY FoundIsNewest
  <1>5. ASSUME NEW ok \in BOOLEAN, NEW i \in 1 .. n
        PROVE  LET nfts == [s \in DOMAIN Count(n) |-> [serial |-> Count(n)[s], spender |-> s]]
               IN CheckMirrorNFTAllowance(nfts, Count(n)[i], ok) \in {{i}, Null}
    <2> DEFINE nfts == [s \in DOMAIN Count(n) |-> [serial |-> Count(n)[s], spender |-> s]]
    <2>1. nfts = [s \in 1 .. n |-> [serial |-> s, spender |-> s]] /\ Count(n)[i] = i
      BY <1>1 DEF Count
    <2> HIDE DEF nfts
    <2>2. CheckMirrorNFTAllowance(nfts, i, ok) \in {{i}, Null}
      BY <2>1, SpenderIsTheOne
    <2> QED
      BY <2>1, <2>2 DEF nfts
  <1> QED
    BY <1>1, <1>2, <1>3, <1>4, <1>5 DEF NeverMisleads

Probes ==
    [kind : {"none"}] \cup [kind : {"send"}, length : Nat, net : Nets]
        \cup [kind : {"read"}, length : Nat, log : Seq(LogEvents)]

ProbeTypeOK == probe \in Probes

\* The helpers of hederaHelpers.js say what the ledger did, and those of
\* hederaMirrorHelpers.js nothing that is not so, for lists, logs and numbers
\* of pages of any length, whatever is refused or fails and whichever answer is lost.
THEOREM HelpersNeverMisleadHolds == ProbeSpec => []HelpersNeverMislead
  <1>1. probe = NoProbe => ProbeTypeOK
    BY DEF NoProbe, Probes, ProbeTypeOK
  <1>2. ProbeTypeOK /\ [Probing]_probe => ProbeTypeOK'
    <2> SUFFICES ASSUME probe \in Probes, [Probing]_probe PROVE probe' \in Probes
      BY DEF ProbeTypeOK
    <2>1. SendLengths \subseteq Nat /\ ReadLengths \subseteq Nat /\ TransferBatch \in Nat \ {0}
          /\ \A log \in EventLogs : log \in Seq(LogEvents)
      BY HelpersAssumption
    <2>2. ASSUME NEW n \in SendLengths, SendList(n) PROVE probe' \in Probes
      <3>1. PICK net \in Fates(2 + n \div TransferBatch) :
                probe' = [kind |-> "send", length |-> n, net |-> net]
        BY <2>2 DEF SendList
      <3>2. net \in Nets
        <4> DEFINE m == 2 + n \div TransferBatch
        <4> HIDE DEF m
        <4>1. 1 .. m \subseteq Nat
          OBVIOUS
        <4>2. Fates(m) \subseteq Nets
          BY <4>1 DEF Fates, Nets
        <4> QED
          BY <4>2 DEF m
      <3> QED
        BY <2>1, <3>1, <3>2 DEF Probes
    <2>3. ASSUME NEW n \in ReadLengths, ReadList(n) PROVE probe' \in Probes
      BY <2>1, <2>3 DEF ReadList, Probes
    <2>4. ASSUME NEW log \in EventLogs, ReadLog(log) PROVE probe' \in Probes
      BY <2>1, <2>4 DEF ReadLog, Probes
    <2>5. CASE UNCHANGED probe
      BY <2>5
    <2> QED
      BY <2>2, <2>3, <2>4, <2>5 DEF Probing
  <1>3. ProbeTypeOK => HelpersNeverMislead
    <2> SUFFICES ASSUME probe \in Probes PROVE HelpersNeverMislead
      BY DEF ProbeTypeOK
    <2>1. probe.kind = "send" => probe.length \in Nat /\ probe.net \in Nets
      BY DEF Probes
    <2>2. probe.kind = "read" => probe.length \in Nat /\ probe.log \in Seq(LogEvents)
      BY DEF Probes
    <2>3. probe.kind = "send" => HelpersTellTheTruth(probe.length, probe.net) /\ FeesAreAccepted
      BY <2>1, HelpersTellTheTruthOfAnyList, FeesAlwaysAccepted
    <2>4. probe.kind = "read" =>
              \A name \in EventNames : NeverMisleads(Count(probe.length), probe.log, name)
      BY <2>2, MirrorNeverMisleads
    <2> QED
      BY <2>3, <2>4 DEF HelpersNeverMislead, Count
  <1> QED
    BY <1>1, <1>2, <1>3, PTL DEF ProbeSpec

=============================================================================
