----------------------------- MODULE MCDeployment -----------------------------
(* Instances of Deployment for TLC.                                        *)
EXTENDS Deployment, TLC

(* Executions of one command are alike.                                    *)
Executions == Permutations(Installers) \cup Permutations(Uninstallers)

=============================================================================
