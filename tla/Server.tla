------------------------------- MODULE Server -------------------------------
(***************************************************************************)
(* The server as a whole: Bootstrap, and once it serves, the uploads of    *)
(* support bundles.  Both run in one process under one configuration; the  *)
(* vendor goes on to change the license, and the run of the informers to   *)
(* look for namespaces, while a bundle is uploaded.                        *)
(***************************************************************************)
EXTENDS Bootstrap, SupportBundle

ServerInit == Init /\ UploadInit

\* The router serves requests once the server listens.
Upload == pc = "serving" /\ UploadSupportBundle(config.airgap)

\* Bound: of all that may fail, in bootstrap and in uploads.
FewFailures == failures + faults <= MaxFailures

ServerNext ==
    /\ \/ Next /\ UNCHANGED uploadVars
       \/ (Upload \/ Handler \/ Environment) /\ UNCHANGED vars
    /\ FewFailures'

(***************************************************************************)
(* The goroutine of bootstrap goes on, and so does that of a request,      *)
(* whose calls to a silent vendor or S3 end by their timeouts.  A client   *)
(* that is silent owes nothing.                                            *)
(***************************************************************************)
ServerSpec ==
    /\ ServerInit /\ [][ServerNext]_<<vars, uploadVars>>
    /\ WF_vars(Step)
    /\ WF_uploadVars(Handler)
=============================================================================
