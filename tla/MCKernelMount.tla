----------------------------- MODULE MCKernelMount ----------------------------
(***************************************************************************)
(* Instances of KernelMount: the two containers of the privileged overlay, *)
(* a server and a CLI process in the one and a worker in the other, a CIFS *)
(* and an NFS share.                                                       *)
(***************************************************************************)
EXTENDS KernelMount

CONSTANTS App, Network, Cifs, Nfs, Web, Cli, Worker

\* compose.privileged.yaml gives the mountpoint to app and to worker-network.
Overlay == (Web :> App) @@ (Cli :> App) @@ (Worker :> Network)

===============================================================================
