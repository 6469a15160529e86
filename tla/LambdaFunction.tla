--------------------------- MODULE LambdaFunction ---------------------------
(***************************************************************************)
(* The aws_lambda_function resource (builtin/providers/aws/                *)
(* resource_aws_lambda_function.go) against Lambda.  Lambda holds at most  *)
(* one function of the configured name, with its code and its             *)
(* configuration (description, handler, memory, role and timeout, taken   *)
(* together); the code comes from a local zip file or from an S3 object.  *)
(* Terraform's state records whether it tracks the function, the code     *)
(* source, source_code_hash, update_code, the configuration and whether    *)
(* the resource is tainted.  Each CRUD function runs to completion as one  *)
(* step; its API calls may fail, and the step takes the branch the code    *)
(* takes on that failure.  The framework's choice of function is the guard *)
(* of each action; what it saves when a function returns an error follows  *)
(* d.Partial/SetPartial.  function_name, runtime and vpc_config are fixed  *)
(* (ForceNew), and so is the file name; the ARN and last_modified are      *)
(* not modelled.                                                           *)
(***************************************************************************)
CONSTANTS
  Confs,     \* the configurations a function may have
  Contents,  \* the contents the local zip file may have
  Objects,   \* the S3 objects (bucket, key and version) code may come from
  None       \* source_code_hash not set

ASSUME LambdaAssumption ==
  /\ Contents \cap Objects = {}
  /\ None \notin Contents
  /\ "file" \notin Objects

VARIABLES
  exists,      \* Lambda holds the function
  remoteCode,  \* the code it runs: the contents of a zip file or an S3 object
  remoteConf,  \* its configuration
  file,        \* the contents of the local zip file
  tracked,     \* d.Id() is set in Terraform's state
  stCode,      \* the code source saved: "file" (filename) or the S3 object
  stHash,      \* source_code_hash: the local zip's hash read last, or None
  stUpdate,    \* update_code: the last read found the code differs from the zip
  stConf,      \* the configuration saved in the state
  tainted,     \* the state marks the resource for replacement
  cfg,         \* the configuration: present, code source, function configuration
  outcome,     \* "ok", "error", "refreshed", "refresh_error" or "none"
  fresh        \* the state was refreshed in this run and nothing applied since

vars == <<exists, remoteCode, remoteConf, file, tracked, stCode, stHash,
          stUpdate, stConf, tainted, cfg, outcome, fresh>>

Sources == {"file"} \cup Objects

(* Mutant: the code sent is the configured source, not the zip it names.  *)
DesiredCodeSource == cfg.code

(* The code a configuration asks for: the zip file's contents or the object. *)
DesiredCode == IF cfg.code = "file" THEN file ELSE cfg.code

(***************************************************************************)
(* The diff the framework plans from the refreshed state: a changed code   *)
(* source or configuration, or update_code read as true where the          *)
(* configuration leaves it at its default false.                           *)
(***************************************************************************)
Planned == stCode # cfg.code \/ stConf # cfg.conf \/ stUpdate

(***************************************************************************)
(* resourceAwsLambdaFunctionRead at the end of Create and Update, for a    *)
(* function that exists when ex, with code and conf, and source_code_hash  *)
(* h so far.  GetFunction may fail; otherwise the configuration is set     *)
(* from the function, and loadLocalZipFile(d.Get("filename")) reads the    *)
(* zip, which fails when the code comes from S3 (the file name is empty); *)
(* then source_code_hash and update_code are set.  On an error the planned *)
(* values stay, with what Read set before it failed.                       *)
(***************************************************************************)
ReadBack(ex, code, conf, h) ==
  \E got \in BOOLEAN :
    LET ok == got /\ ex /\ cfg.code = "file" IN
    /\ stConf' = IF got /\ ex THEN conf ELSE cfg.conf
    /\ stHash' = IF ok THEN file ELSE h
    /\ stUpdate' = (ok /\ code # file)
    /\ outcome' = IF ok THEN "ok" ELSE "error"

(***************************************************************************)
(* resourceAwsLambdaFunctionCreate: loads the zip (setting                 *)
(* source_code_hash) or takes the S3 object, then calls CreateFunction     *)
(* inside resource.Retry, retrying for a minute while the role cannot yet  *)
(* be assumed (IAM propagation).  The retries end in success, in the       *)
(* timeout, or in a non-retryable error: the name is taken, the call       *)
(* failed, or the function was created but the reply was lost (the SDK's  *)
(* own retry then meets the taken name).  On an error nothing is saved.    *)
(* On success SetId, then Read; if Read fails the framework keeps the id   *)
(* and taints the resource.                                                *)
(***************************************************************************)
Create ==
  /\ cfg.present /\ ~tracked
  /\ \/ /\ outcome' = "error"
        /\ UNCHANGED <<exists, remoteCode, remoteConf, tracked, stCode, stHash,
                       stUpdate, stConf, tainted>>
     \/ /\ ~exists
        /\ exists' = TRUE
        /\ remoteCode' = DesiredCode
        /\ remoteConf' = cfg.conf
        /\ outcome' = "error"
        /\ UNCHANGED <<tracked, stCode, stHash, stUpdate, stConf, tainted>>
     \/ /\ ~exists
        /\ exists' = TRUE
        /\ remoteCode' = DesiredCode
        /\ remoteConf' = cfg.conf
        /\ tracked' = TRUE
        /\ stCode' = cfg.code
        /\ ReadBack(TRUE, DesiredCode, cfg.conf,
                    IF cfg.code = "file" THEN file ELSE None)
        /\ tainted' = (outcome' = "error")
  /\ fresh' = FALSE
  /\ UNCHANGED <<file, cfg>>

(* Mutant: refresh leaves the saved configuration as it was.               *)
ReadKeepsConf ==
  /\ tracked
  /\ \/ /\ exists /\ stCode = "file"
        /\ stHash' = file
        /\ stUpdate' = (remoteCode # file)
        /\ outcome' = "refreshed"
        /\ fresh' = TRUE
        /\ UNCHANGED stConf
     \/ /\ outcome' = "refresh_error"
        /\ fresh' = FALSE
        /\ UNCHANGED <<stConf, stHash, stUpdate>>
  /\ UNCHANGED <<exists, remoteCode, remoteConf, file, tracked, stCode, tainted, cfg>>

(***************************************************************************)
(* resourceAwsLambdaFunctionRead during refresh, from the saved code      *)
(* source: GetFunction fails for a function that is gone as for any other *)
(* error, and loading the zip fails for S3 code; either fails the refresh. *)
(***************************************************************************)
Read ==
  /\ tracked
  /\ \/ /\ exists /\ stCode = "file"
        /\ stConf' = remoteConf
        /\ stHash' = file
        /\ stUpdate' = (remoteCode # file)
        /\ outcome' = "refreshed"
        /\ fresh' = TRUE
     \/ /\ outcome' = "refresh_error"
        /\ fresh' = FALSE
        /\ UNCHANGED <<stConf, stHash, stUpdate>>
  /\ UNCHANGED <<exists, remoteCode, remoteConf, file, tracked, stCode, tainted, cfg>>

(* Mutant: the zip is sent only when its hash differs from the saved one. *)
ZipSentIfHashChanged == stHash # None /\ stHash # file

(* The zip is loaded and sent whenever source_code_hash is set.            *)
ZipSent == stHash # None

(***************************************************************************)
(* resourceAwsLambdaFunctionUpdate, under d.Partial(true).  The code part: *)
(* the zip is loaded from the configured file name, which fails for S3    *)
(* code; a changed S3 source is SetPartial and sent as bucket, key and    *)
(* version (empty ones when the configuration now names a file).  Lambda   *)
(* refuses a request with both a zip and an S3 source or an empty one.    *)
(* The configuration part: a changed configuration is SetPartial and then *)
(* sent.  A call fails when the function is gone or the call fails, ending *)
(* Update with what was SetPartial saved; otherwise Partial(false) and     *)
(* Read.                                                                   *)
(***************************************************************************)
Update ==
  LET zip     == ZipSent
      s3      == stCode # cfg.code
      codeReq == zip \/ s3
      valid   == (zip # s3) /\ (s3 => cfg.code \in Objects)
      confReq == stConf # cfg.conf
  IN
  /\ cfg.present /\ tracked /\ ~tainted /\ fresh /\ Planned
  /\ \/ /\ zip /\ cfg.code # "file"
        /\ outcome' = "error"
        /\ UNCHANGED <<remoteCode, remoteConf, stCode, stHash, stUpdate, stConf>>
     \/ /\ zip => cfg.code = "file"
        /\ stCode' = cfg.code
        /\ \/ /\ codeReq
              /\ outcome' = "error"
              /\ UNCHANGED <<remoteCode, remoteConf, stHash, stUpdate, stConf>>
           \/ /\ codeReq => valid /\ exists
              /\ remoteCode' = IF ~codeReq THEN remoteCode
                               ELSE IF zip THEN file ELSE cfg.code
              /\ \/ /\ confReq
                    /\ outcome' = "error"
                    /\ stConf' = cfg.conf
                    /\ UNCHANGED <<remoteConf, stHash, stUpdate>>
                 \/ /\ confReq => exists
                    /\ remoteConf' = IF confReq THEN cfg.conf ELSE remoteConf
                    /\ ReadBack(exists, remoteCode', remoteConf', stHash)
  /\ fresh' = FALSE
  /\ UNCHANGED <<exists, file, tracked, tainted, cfg>>

(***************************************************************************)
(* resourceAwsLambdaFunctionDelete, for a function no longer declared or  *)
(* tainted: DeleteFunction, whose error (the function is gone, or the     *)
(* call failed) is returned.                                               *)
(***************************************************************************)
Delete ==
  /\ tracked /\ (~cfg.present \/ tainted) /\ fresh
  /\ \/ /\ exists
        /\ exists' = FALSE
        /\ tracked' = FALSE
        /\ tainted' = FALSE
        /\ stHash' = None
        /\ stUpdate' = FALSE
        /\ outcome' = "ok"
     \/ /\ outcome' = "error"
        /\ UNCHANGED <<exists, tracked, tainted, stHash, stUpdate>>
  /\ fresh' = FALSE
  /\ UNCHANGED <<remoteCode, remoteConf, file, stCode, stConf, cfg>>

(* Someone changes the function's configuration outside Terraform.         *)
ModifyOutOfBand ==
  /\ exists
  /\ \E c \in Confs : remoteConf' = c
  /\ outcome' = "none"
  /\ UNCHANGED <<exists, remoteCode, file, tracked, stCode, stHash, stUpdate,
                 stConf, tainted, cfg, fresh>>

(* Someone deletes the function outside Terraform.                         *)
DeleteOutOfBand ==
  /\ exists
  /\ exists' = FALSE
  /\ outcome' = "none"
  /\ UNCHANGED <<remoteCode, remoteConf, file, tracked, stCode, stHash, stUpdate,
                 stConf, tainted, cfg, fresh>>

(* The user rebuilds the local zip file.                                    *)
EditFile ==
  /\ \E f \in Contents : file' = f
  /\ outcome' = "none"
  /\ UNCHANGED <<exists, remoteCode, remoteConf, tracked, stCode, stHash, stUpdate,
                 stConf, tainted, cfg, fresh>>

(* The user edits the configuration.                                       *)
ChangeConfig ==
  /\ \E p \in BOOLEAN, s \in Sources, c \in Confs :
       cfg' = [present |-> p, code |-> s, conf |-> c]
  /\ outcome' = "none"
  /\ UNCHANGED <<exists, remoteCode, remoteConf, file, tracked, stCode, stHash,
                 stUpdate, stConf, tainted, fresh>>

Init ==
  /\ exists = FALSE
  /\ remoteCode \in Contents
  /\ remoteConf \in Confs
  /\ file \in Contents
  /\ tracked = FALSE
  /\ stCode = "file"
  /\ stHash = None
  /\ stUpdate = FALSE
  /\ stConf \in Confs
  /\ tainted = FALSE
  /\ cfg \in [present : BOOLEAN, code : Sources, conf : Confs]
  /\ outcome = "none"
  /\ fresh = FALSE

Next ==
  \/ Create \/ Read \/ Update \/ Delete
  \/ ModifyOutOfBand \/ DeleteOutOfBand \/ EditFile \/ ChangeConfig

Spec == Init /\ [][Next]_vars

-----------------------------------------------------------------------------
(* Every variable holds a value of its type.                               *)
LambdaTypeOK ==
  /\ exists \in BOOLEAN /\ tracked \in BOOLEAN /\ tainted \in BOOLEAN
  /\ remoteCode \in Contents \cup Objects
  /\ remoteConf \in Confs /\ stConf \in Confs
  /\ file \in Contents
  /\ stCode \in Sources
  /\ stHash \in Contents \cup {None}
  /\ stUpdate \in BOOLEAN
  /\ cfg \in [present : BOOLEAN, code : Sources, conf : Confs]
  /\ outcome \in {"none", "ok", "error", "refreshed", "refresh_error"}
  /\ fresh \in BOOLEAN

(***************************************************************************)
(* No silent drift: when a refresh leaves nothing to plan for a declared,  *)
(* untainted function, Lambda runs the configured code and configuration,  *)
(* whatever code or configuration update failed part way before, whatever *)
(* was changed outside Terraform and however the zip was rebuilt.         *)
(***************************************************************************)
NoSilentDrift ==
  outcome = "refreshed" /\ cfg.present /\ ~tainted /\ ~Planned =>
    /\ exists
    /\ remoteCode = DesiredCode
    /\ remoteConf = cfg.conf

(***************************************************************************)
(* An apply that starts from a state recording the function's             *)
(* configuration as Lambda holds it, reports success and keeps the        *)
(* function in the state has deployed the configured code and             *)
(* configuration, whether it created the function or updated it, whatever *)
(* failed part way before and however the zip was rebuilt since the       *)
(* refresh (Update sends only what differs from the state, so a change    *)
(* made on Lambda after the refresh is not corrected: NoSilentDrift shows  *)
(* it at the next refresh).                                                *)
(***************************************************************************)
ConfiguredApplied ==
  [][outcome' = "ok" /\ tracked' /\ stConf = remoteConf =>
       /\ exists'
       /\ remoteCode' = DesiredCode'
       /\ remoteConf' = cfg'.conf]_vars

(***************************************************************************)
(* No orphaned function: a function Lambda holds is tracked by the state,  *)
(* so a failed create never leaves one that the next apply cannot create   *)
(* again (its name is taken) and no destroy removes.                      *)
(***************************************************************************)
NoOrphanFunction == exists => tracked

(***************************************************************************)
(* A refresh that succeeded read a zip-sourced function that exists: the   *)
(* state holds its configuration, the zip's hash and whether its code      *)
(* differs from the zip, until the next step.                              *)
(***************************************************************************)
RefreshedAccurate ==
  outcome = "refreshed" =>
    /\ exists /\ tracked /\ stCode = "file"
    /\ stConf = remoteConf /\ stHash = file
    /\ stUpdate = (remoteCode # file)

=============================================================================
