----------------------------- MODULE MCServices -----------------------------
(* Finite instances of services that owe an answer to whoever calls them:    *)
(* closing the application, exports, driver downloads and SSH tunnels.  They *)
(* share no state.  A behaviour moves one of them, its focus, while the      *)
(* others stay in their first state, so that the instances are explored one  *)
(* after the other and not their product.                                    *)
EXTENDS Lifecycle, CsvExport, DriverLibrary, SshTunnel, Sequences, SequencesExt

VARIABLE focus

On(service) == focus = service
serviceVars == <<focus, lifecycleVars, exportVars, libraryVars, tunnelVars>>

\* Exports are interchangeable, so one order of their kinds stands for all.
KindsInOrder ==
  LET rank == [result |-> 1, primary |-> 2, console |-> 3]
      exports == SetToSeq(Export) IN
  \A i, j \in DOMAIN exports :
    i < j => rank[exportKind[exports[i]]] <= rank[exportKind[exports[j]]]

\* What a service chooses at the start is chosen for the focus only.  A
\* destination that only a foreign writer fills is tried with exports of results:
\* every kind of export reaches its destination by the same publication.
ServicesInit ==
  /\ focus \in {"closing", "exports", "library", "tunnels"}
  /\ LifecycleInit
  /\ ExportInit /\ KindsInOrder
  /\ ~On("exports") => /\ exportTarget = NoWriter
                       /\ exportKind = [e \in Export |-> "result"]
  /\ exportTarget = Foreign => \A e \in Export : exportKind[e] = "result"
  /\ LibraryInit
  /\ TunnelInit
  /\ ~On("tunnels") => localPort = [t \in Tunnel |-> CHOOSE p \in Port : TRUE]

ServicesNext ==
  /\ UNCHANGED focus
  /\ \/ On("closing") /\ LifecycleStep
     \/ ~On("closing") /\ UNCHANGED lifecycleVars
  /\ \/ On("exports") /\ ExportNext
     \/ ~On("exports") /\ UNCHANGED exportVars
  /\ \/ On("library") /\ LibraryNext
     \/ ~On("library") /\ UNCHANGED libraryVars
  /\ \/ On("tunnels") /\ TunnelNext
     \/ ~On("tunnels") /\ UNCHANGED tunnelVars

\* The fairness of each service; where a first step is always possible, in the
\* behaviours that move the service.
ServicesFairness ==
  /\ LifecycleFairness
  /\ ExportFairness
  /\ LibraryFairness
  /\ \A t \in Tunnel : WF_tunnelVars(On("tunnels") /\ OpenStep(t))

ServicesSpec == ServicesInit /\ [][ServicesNext]_serviceVars /\ ServicesFairness

(* Every variable of the four services has its type.                        *)
ServicesTypeOK == ClosingTypeOK /\ ExportTypeOK /\ LibraryTypeOK /\ TunnelTypeOK

(* Nothing is left behind: cleaning up finds no sweep of the idle worker      *)
(* running, and a tunnel that failed to open leaves no process or port (see   *)
(* Lifecycle and SshTunnel).                                                *)
ServicesEndClean == CleanupIsAlone /\ FailedOpensLeaveNothing

(* Who asks is answered: closers, cancelled exports, stopped downloads and   *)
(* tunnels being opened, each by its own service (see their modules).        *)
EveryCallIsAnswered ==
  EveryCloserIsAnswered /\ EveryCancelledExportEnds /\ EveryDownloadEnds /\ EveryOpenEnds
=============================================================================
