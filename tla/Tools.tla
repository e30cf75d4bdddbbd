-------------------------------- MODULE Tools --------------------------------
(***************************************************************************)
(* The small models beside the load balancer in one: the monitors, the     *)
(* forwarder, the two experiments, and the byte streams.  They share       *)
(* nothing, so that a behaviour is one of one program: the others stay in  *)
(* their initial states, in which nothing is enabled but their start.      *)
(***************************************************************************)
EXTENDS Eventfd, Reuseport, Forwarder, Procmon, Monitors, Framing

Init ==
  /\ EventfdInit /\ ReuseportInit /\ ForwarderInit
  /\ ProcmonInit /\ MonitorsInit /\ FramingInit

allVars == <<eventfdVars, reuseportVars, forwarderVars, procmonVars,
             monitorsVars, framingVars>>

\* The programs that have not been started.
EventfdOff == \A t \in Threads : epc[t] = "none"
ReuseportOff == parent = "off"
ForwarderOff == gpc = "off"
ProcmonOff == tickPc = "off"
MonitorsOff == prog = "none"
FramingOff == ~connected

Next ==
  \/ /\ EventfdNext
     /\ ReuseportOff /\ ForwarderOff /\ ProcmonOff /\ MonitorsOff /\ FramingOff
     /\ UNCHANGED <<reuseportVars, forwarderVars, procmonVars, monitorsVars,
                    framingVars>>
  \/ /\ ReuseportNext
     /\ EventfdOff /\ ForwarderOff /\ ProcmonOff /\ MonitorsOff /\ FramingOff
     /\ UNCHANGED <<eventfdVars, forwarderVars, procmonVars, monitorsVars,
                    framingVars>>
  \/ /\ ForwarderNext
     /\ EventfdOff /\ ReuseportOff /\ ProcmonOff /\ MonitorsOff /\ FramingOff
     /\ UNCHANGED <<eventfdVars, reuseportVars, procmonVars, monitorsVars,
                    framingVars>>
  \/ /\ ProcmonNext
     /\ EventfdOff /\ ReuseportOff /\ ForwarderOff /\ MonitorsOff /\ FramingOff
     /\ UNCHANGED <<eventfdVars, reuseportVars, forwarderVars, monitorsVars,
                    framingVars>>
  \/ /\ MonitorsNext
     /\ EventfdOff /\ ReuseportOff /\ ForwarderOff /\ ProcmonOff /\ FramingOff
     /\ UNCHANGED <<eventfdVars, reuseportVars, forwarderVars, procmonVars,
                    framingVars>>
  \/ /\ FramingNext
     /\ EventfdOff /\ ReuseportOff /\ ForwarderOff /\ ProcmonOff /\ MonitorsOff
     /\ UNCHANGED <<eventfdVars, reuseportVars, forwarderVars, procmonVars,
                    monitorsVars>>

Spec == Init /\ [][Next]_allVars

\* Each program that runs is scheduled as its own module says.
FairSpec ==
  /\ Spec
  /\ EventfdFairness /\ ReuseportFairness
  /\ ForwarderFairness /\ MonitorsFairness

TypeOK ==
  /\ EventfdTypeOK /\ ReuseportTypeOK /\ ForwarderTypeOK
  /\ ProcmonTypeOK /\ MonitorsTypeOK /\ FramingTypeOK
=============================================================================
