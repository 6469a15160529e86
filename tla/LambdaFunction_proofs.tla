----------------------- MODULE LambdaFunction_proofs -----------------------
(***************************************************************************)
(* Proofs about the aws_lambda_function resource, for every set of         *)
(* configurations, zip contents and S3 objects.                            *)
(***************************************************************************)
EXTENDS LambdaFunction, TLAPS

(* The read-back at the end of Create and Update, from a well-typed state  *)
(* and a configuration and hash of their types, saves values of their      *)
(* types and reports ok or error.                                          *)
LEMMA ReadBackType ==
  ASSUME LambdaTypeOK, NEW ex, NEW code, NEW conf \in Confs,
         NEW h \in Contents \cup {None},
         ReadBack(ex, code, conf, h)
  PROVE  /\ stConf' \in Confs
         /\ stHash' \in Contents \cup {None}
         /\ stUpdate' \in BOOLEAN
         /\ outcome' \in {"ok", "error"}
BY DEF ReadBack, LambdaTypeOK

(* The read-back reports success only for a zip-sourced function that      *)
(* exists, and then saves the function's configuration, the zip's hash and *)
(* whether the function's code differs from the zip.                       *)
LEMMA ReadBackOk ==
  ASSUME NEW ex, NEW code, NEW conf, NEW h,
         ReadBack(ex, code, conf, h), outcome' = "ok"
  PROVE  /\ ex /\ cfg.code = "file"
         /\ stConf' = conf /\ stHash' = file /\ stUpdate' = (code # file)
BY DEF ReadBack

(* The code a configuration asks for is a zip content or an S3 object.     *)
LEMMA DesiredCodeType ==
  ASSUME LambdaTypeOK
  PROVE  DesiredCode \in Contents \cup Objects
BY DEF DesiredCode, LambdaTypeOK, Sources

(* Every step keeps the variables in their types.                          *)
LEMMA TypeStep == LambdaTypeOK /\ [Next]_vars => LambdaTypeOK'
<1> SUFFICES ASSUME LambdaTypeOK, [Next]_vars PROVE LambdaTypeOK'
  OBVIOUS
<1>1. CASE Create
  <2>1. DesiredCode \in Contents \cup Objects
    BY DesiredCodeType
  <2>2. (IF cfg.code = "file" THEN file ELSE None) \in Contents \cup {None}
    BY DEF LambdaTypeOK
  <2>3. QED
    BY <1>1, <2>1, <2>2, ReadBackType DEF Create, LambdaTypeOK
<1>2. CASE Read
  BY <1>2 DEF Read, LambdaTypeOK
<1>3. CASE Update
  <2>1. cfg.code \in Objects \/ cfg.code = "file"
    BY DEF LambdaTypeOK, Sources
  <2>2. QED
    BY <1>3, <2>1, ReadBackType DEF Update, ZipSent, LambdaTypeOK
<1>4. CASE Delete
  BY <1>4, LambdaAssumption DEF Delete, LambdaTypeOK
<1>5. CASE ModifyOutOfBand
  BY <1>5 DEF ModifyOutOfBand, LambdaTypeOK
<1>6. CASE DeleteOutOfBand
  BY <1>6 DEF DeleteOutOfBand, LambdaTypeOK
<1>7. CASE EditFile
  BY <1>7 DEF EditFile, LambdaTypeOK
<1>8. CASE ChangeConfig
  <2>1. cfg' \in [present : BOOLEAN, code : Sources, conf : Confs]
    BY <1>8 DEF ChangeConfig
  <2>2. QED
    BY <1>8, <2>1 DEF ChangeConfig, LambdaTypeOK
<1>9. CASE UNCHANGED vars
  BY <1>9 DEF vars, LambdaTypeOK
<1>10. QED
  BY <1>1, <1>2, <1>3, <1>4, <1>5, <1>6, <1>7, <1>8, <1>9 DEF Next

(* The initial states are well typed.                                     *)
LEMMA InitTypeOK == Init => LambdaTypeOK
BY DEF Init, LambdaTypeOK, Sources

(* Type correctness of the Lambda function resource.                       *)
THEOREM TypeCorrect == Spec => []LambdaTypeOK
BY InitTypeOK, TypeStep, PTL DEF Spec

-----------------------------------------------------------------------------
(* Between a successful refresh and the next apply step the state holds a *)
(* zip-sourced function with source_code_hash set.                         *)
FreshZip == fresh => tracked /\ stCode = "file" /\ stHash \in Contents

(* The inductive invariant: typing, what a successful refresh read, and    *)
(* what it leaves for the apply that follows it.                           *)
IInv == LambdaTypeOK /\ RefreshedAccurate /\ FreshZip

(* Only a successful refresh reports "refreshed", and it reads the         *)
(* function as it is; every other step reports something else.             *)
LEMMA RefreshedStep == IInv /\ [Next]_vars => RefreshedAccurate'
<1> SUFFICES ASSUME IInv, [Next]_vars, outcome' = "refreshed"
             PROVE  /\ exists' /\ tracked' /\ stCode' = "file"
                    /\ stConf' = remoteConf' /\ stHash' = file'
                    /\ stUpdate' = (remoteCode' # file')
  BY DEF RefreshedAccurate
<1>1. CASE Create
  BY <1>1 DEF Create, ReadBack
<1>2. CASE Read
  BY <1>2 DEF Read
<1>3. CASE Update
  BY <1>3 DEF Update, ReadBack
<1>4. CASE Delete \/ ModifyOutOfBand \/ DeleteOutOfBand \/ EditFile \/ ChangeConfig
  BY <1>4 DEF Delete, ModifyOutOfBand, DeleteOutOfBand, EditFile, ChangeConfig
<1>5. CASE UNCHANGED vars
  BY <1>5 DEF vars, IInv, RefreshedAccurate
<1>6. QED
  BY <1>1, <1>2, <1>3, <1>4, <1>5 DEF Next

(* Only a successful refresh sets fresh, and the steps outside an apply   *)
(* that keep it change neither the code source nor source_code_hash.      *)
LEMMA FreshStep == IInv /\ [Next]_vars => FreshZip'
<1> SUFFICES ASSUME IInv, [Next]_vars, fresh'
             PROVE  tracked' /\ stCode' = "file" /\ stHash' \in Contents
  BY DEF FreshZip
<1>1. CASE Create \/ Update \/ Delete
  BY <1>1 DEF Create, Update, Delete
<1>2. CASE Read
  BY <1>2 DEF Read, IInv, LambdaTypeOK
<1>3. CASE ModifyOutOfBand \/ DeleteOutOfBand \/ EditFile \/ ChangeConfig
  BY <1>3 DEF ModifyOutOfBand, DeleteOutOfBand, EditFile, ChangeConfig, IInv, FreshZip
<1>4. CASE UNCHANGED vars
  BY <1>4 DEF vars, IInv, FreshZip
<1>5. QED
  BY <1>1, <1>2, <1>3, <1>4 DEF Next

(* The inductive invariant holds in every reachable state.                 *)
LEMMA Invariant == Spec => []IInv
<1>1. Init => IInv
  BY InitTypeOK DEF Init, IInv, RefreshedAccurate, FreshZip
<1>2. IInv /\ [Next]_vars => IInv'
  BY TypeStep, RefreshedStep, FreshStep DEF IInv
<1>3. QED
  BY <1>1, <1>2, PTL DEF Spec

(***************************************************************************)
(* No silent drift, for every set of configurations, contents and objects: *)
(* a refresh that leaves nothing to plan for a declared, untainted         *)
(* function found Lambda running the configured code and configuration.    *)
(***************************************************************************)
THEOREM NoDrift == Spec => []NoSilentDrift
<1>1. IInv => NoSilentDrift
  BY DEF IInv, RefreshedAccurate, NoSilentDrift, Planned, DesiredCode
<1>2. QED
  BY <1>1, Invariant, PTL

-----------------------------------------------------------------------------
(* An Update that reports success, from a state that records the          *)
(* function's configuration as it is, leaves the zip's contents and the   *)
(* configured configuration on Lambda: the zip is sent because the refresh *)
(* set source_code_hash, and a configuration that was not sent already     *)
(* matched the function.                                                   *)
LEMMA UpdateOk ==
  ASSUME IInv, Update, outcome' = "ok", stConf = remoteConf
  PROVE  exists' /\ remoteCode' = DesiredCode' /\ remoteConf' = cfg'.conf
<1>1. stHash \in Contents
  BY DEF Update, IInv, FreshZip
<1>2. ZipSent
  BY <1>1, LambdaAssumption DEF ZipSent
<1>3. /\ remoteCode' = IF ZipSent THEN file ELSE cfg.code
      /\ remoteConf' = IF stConf # cfg.conf THEN cfg.conf ELSE remoteConf
      /\ ReadBack(exists, remoteCode', remoteConf', stHash)
      /\ UNCHANGED <<exists, file, cfg>>
  BY <1>2 DEF Update
<1>4. cfg.code = "file" /\ exists
  BY <1>3, ReadBackOk
<1>5. QED
  BY <1>2, <1>3, <1>4 DEF DesiredCode

(* Every step that reports success and keeps the function tracked has      *)
(* deployed the configured code and configuration.                         *)
LEMMA AppliedStep ==
  IInv /\ [Next]_vars =>
    [outcome' = "ok" /\ tracked' /\ stConf = remoteConf =>
       /\ exists'
       /\ remoteCode' = DesiredCode'
       /\ remoteConf' = cfg'.conf]_vars
<1> SUFFICES ASSUME IInv, Next, outcome' = "ok", tracked', stConf = remoteConf
             PROVE  exists' /\ remoteCode' = DesiredCode' /\ remoteConf' = cfg'.conf
  BY DEF vars
<1>1. CASE Create
  <2>1. cfg.code = "file"
    BY <1>1, ReadBackOk DEF Create
  <2>2. QED
    BY <1>1, <2>1 DEF Create, DesiredCode
<1>2. CASE Update
  BY <1>2, UpdateOk
<1>3. CASE Delete
  BY <1>3 DEF Delete
<1>4. CASE Read \/ ModifyOutOfBand \/ DeleteOutOfBand \/ EditFile \/ ChangeConfig
  BY <1>4 DEF Read, ModifyOutOfBand, DeleteOutOfBand, EditFile, ChangeConfig
<1>5. QED
  BY <1>1, <1>2, <1>3, <1>4 DEF Next

(***************************************************************************)
(* For every set of configurations, contents and objects, an apply that    *)
(* starts from a state recording the function's configuration as it is,   *)
(* reports success and keeps the function in the state has left the        *)
(* configured code and configuration on Lambda, however the zip changed   *)
(* since the refresh.                                                      *)
(***************************************************************************)
THEOREM Applied == Spec => ConfiguredApplied
<1>1. Spec => [][IInv /\ [Next]_vars]_vars
  BY Invariant, PTL DEF Spec
<1>2. QED
  BY <1>1, AppliedStep, PTL DEF ConfiguredApplied
=============================================================================
