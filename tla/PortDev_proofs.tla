--------------------------- MODULE PortDev_proofs ---------------------------
(* Proofs about PortDev: the use count, exclusivity and the released count *)
(* for any number of ports, files, VFs and registrations.                  *)
EXTENDS PortDev, FiniteSetTheorems, TLAPS

\* The initial state, right after enumeration, satisfies the invariant.
LEMMA InitInv == Init => IInv
<1> SUFFICES ASSUME Init PROVE IInv
  OBVIOUS
<1> USE PortDevAssumption
<1>1. TypeOK
  BY DEF Init, TypeOK, NoFile, Unlocked, NULL, CtlOps, SriovOps, FileSt
<1>2. /\ \A p \in Ports : OpenFiles(p) = {} /\ ~Reserved(p)
      /\ ReleasedPorts = {}
  BY DEF Init, OpenFiles, NoFile, Reserved, ReleasedPorts, Unlocked, NULL
<1>3. CtlPhase
  BY <1>2, FS_EmptySet DEF Init, CtlPhase, CtlFree, Unlocked
<1>4. UseCountExact
  <2> SUFFICES ASSUME NEW p \in Ports
               PROVE  open_count[p] = Cardinality(OpenFiles(p)) + (IF Reserved(p) THEN 1 ELSE 0)
    BY DEF UseCountExact
  <2>1. open_count[p] = 0 /\ Cardinality(OpenFiles(p)) = 0 /\ ~Reserved(p)
    BY <1>2, FS_EmptySet DEF Init
  <2> QED
    BY <2>1
<1>5. ExclusiveUserAlone
  BY <1>2 DEF Init, ExclusiveUserAlone
<1>6. NothingLeft
  BY <1>2 DEF Init, NothingLeft
<1> QED
  BY <1>1, <1>3, <1>4, <1>5, <1>6 DEF IInv

\* Every step keeps the variables in their types.
LEMMA TypeStep == IInv /\ [Next]_vars => TypeOK'
<1> SUFFICES ASSUME IInv, [Next]_vars PROVE TypeOK'
  OBVIOUS
<1> USE PortDevAssumption DEF IInv, TypeOK, CtlOps, SriovOps, FileSt, NULL,
        fdataVars, resVars, cdevVars, pciVars
<1>1. ASSUME NEW f \in Files, NEW p \in Ports, chrdev_open(f, p) PROVE TypeOK'
  BY <1>1 DEF chrdev_open
<1>2. ASSUME NEW f \in Files, afu_open_read(f) PROVE TypeOK'
  <2>1. file[f].port \in Ports /\ dev[file[f].port] \in 0..MaxGen
    BY <1>2 DEF afu_open_read
  <2> QED
    BY <1>2, <2>1 DEF afu_open_read
<1>3. ASSUME NEW f \in Files, afu_open(f) PROVE TypeOK'
  <2>1. file[f].port \in Ports /\ file[f].excl \in BOOLEAN
    BY <1>3 DEF afu_open
  <2>2. CASE use_begin(file[f].port, file[f].excl) /\ file' = [file EXCEPT ![f].st = "open"]
    <3>1. open_count' \in [Ports -> Nat] /\ excl_open' \in [Ports -> BOOLEAN]
      BY <2>1, <2>2 DEF use_begin
    <3> QED
      BY <1>3, <2>1, <2>2, <3>1 DEF afu_open
  <2>3. CASE UNCHANGED <<open_count, excl_open>> /\ file' = [file EXCEPT ![f] = NoFile]
    BY <1>3, <2>3 DEF afu_open, NoFile
  <2> QED
    BY <1>3, <2>2, <2>3 DEF afu_open
<1>4. ASSUME NEW f \in Files, afu_ioctl_map(f) PROVE TypeOK'
  BY <1>4 DEF afu_ioctl_map
<1>5. ASSUME NEW f \in Files, afu_ioctl_set_irq(f) PROVE TypeOK'
  BY <1>5 DEF afu_ioctl_set_irq
<1>6. ASSUME NEW f \in Files, afu_release(f) PROVE TypeOK'
  BY <1>6 DEF afu_release, use_end, use_count_after_end, NoFile
<1>7. ASSUME NEW p \in Ports, afu_probe(p) PROVE TypeOK'
  BY <1>7 DEF afu_probe
<1>8. ASSUME NEW p \in Ports, afu_remove(p) PROVE TypeOK'
  BY <1>8 DEF afu_remove, afu_remove_effect
<1>9. ASSUME NEW p \in Ports, release_port(p) PROVE TypeOK'
  BY <1>9 DEF release_port, use_begin
<1>10. ASSUME NEW p \in Ports, assign_port(p) PROVE TypeOK'
  BY <1>10 DEF assign_port
<1>11. CASE release_unregister
  BY <1>11 DEF release_unregister, afu_remove_effect
<1>12. CASE release_done
  BY <1>12 DEF release_done, Unlocked
<1>13. CASE assign_add
  BY <1>13 DEF assign_add
<1>14. CASE assign_fail
  BY <1>14 DEF assign_fail, Unlocked
<1>15. CASE assign_done
  <2>1. Cardinality(ReleasedPorts) \in Nat
    BY FS_Subset, FS_CardinalityType DEF ReleasedPorts
  <2>2. released_port_num - 1 \in Nat
    BY <1>15, <2>1 DEF assign_done, CtlPhase
  <2> QED
    BY <1>15, <2>2 DEF assign_done, use_end, use_count_after_end, Unlocked
<1>16. ASSUME NEW n \in 1..MaxVfs, sriov_enable(n) PROVE TypeOK'
  BY <1>16 DEF sriov_enable
<1>17. CASE pci_enable_sriov
  BY <1>17 DEF pci_enable_sriov
<1>18. CASE pci_disable_sriov
  BY <1>18 DEF pci_disable_sriov
<1>19. CASE config_ports_pf
  BY <1>19 DEF config_ports_pf
<1>20. CASE UNCHANGED vars
  BY <1>20 DEF vars
<1> QED
  BY <1>1, <1>2, <1>3, <1>4, <1>5, <1>6, <1>7, <1>8, <1>9, <1>10, <1>11, <1>12, <1>13,
     <1>14, <1>15, <1>16, <1>17, <1>18, <1>19, <1>20 DEF Next

\* The open files of a port are finitely many.
LEMMA OpenFilesFinite ==
  ASSUME NEW p
  PROVE  /\ IsFiniteSet(OpenFiles(p)) /\ Cardinality(OpenFiles(p)) \in Nat
         /\ IsFiniteSet(OpenFiles(p))' /\ Cardinality(OpenFiles(p))' \in Nat
<1>1. OpenFiles(p) \subseteq Files /\ OpenFiles(p)' \subseteq Files
  BY DEF OpenFiles
<1> QED
  BY <1>1, PortDevAssumption, FS_Subset, FS_CardinalityType

\* What the counters say about the users of a port: a reserved or unused port
\* has no open file, and an exclusive user is alone.
LEMMA Users ==
  ASSUME IInv, NEW p \in Ports
  PROVE  /\ Reserved(p) => OpenFiles(p) = {}
         /\ open_count[p] = 0 => OpenFiles(p) = {} /\ ~Reserved(p)
         /\ excl_open[p] => \A f, g \in OpenFiles(p) : f = g
<1>1. open_count[p] = Cardinality(OpenFiles(p)) + (IF Reserved(p) THEN 1 ELSE 0)
  BY DEF IInv, UseCountExact
<1>2. /\ excl_open[p] => open_count[p] = 1
      /\ Reserved(p) => excl_open[p]
  BY DEF IInv, ExclusiveUserAlone
<1>3. Cardinality(OpenFiles(p)) = 0 <=> OpenFiles(p) = {}
  BY OpenFilesFinite, FS_EmptySet
<1>4. Cardinality(OpenFiles(p)) = 1 => \A f, g \in OpenFiles(p) : f = g
  <2>1. Cardinality(OpenFiles(p)) = 1 => \E x : OpenFiles(p) = {x}
    BY OpenFilesFinite, FS_Singleton
  <2> QED
    BY <2>1
<1>5. CASE Reserved(p)
  <2>1. Cardinality(OpenFiles(p)) = 0 /\ open_count[p] = 1
    BY <1>1, <1>2, <1>5, OpenFilesFinite
  <2> QED
    BY <1>3, <1>5, <2>1
<1>6. CASE ~Reserved(p)
  <2>1. open_count[p] = Cardinality(OpenFiles(p))
    BY <1>1, <1>6, OpenFilesFinite
  <2> QED
    BY <1>2, <1>3, <1>4, <1>6, <2>1
<1> QED
  BY <1>5, <1>6

\* A step that leaves the counters, the open files and the lock alone and sets
\* up nothing on a port without open files keeps the rest of the invariant.
LEMMA Frame ==
  ASSUME IInv,
         UNCHANGED <<dev, open_count, excl_open, released_port_num, ctl>>,
         \A p \in Ports : OpenFiles(p)' = OpenFiles(p),
         \A p \in Ports : \A f \in OpenFiles(p) : file'[f].excl = file[f].excl,
         \A p \in Ports : OpenFiles(p) = {} =>
             (regions'[p] => regions[p]) /\ (triggers'[p] => triggers[p])
  PROVE  CtlPhase' /\ UseCountExact' /\ ExclusiveUserAlone' /\ NothingLeft'
<1>1. CtlPhase'
  BY DEF IInv, CtlPhase, CtlFree, ReleasedPorts, NULL
<1>2. \A p \in Ports : Reserved(p)' <=> Reserved(p)
  BY DEF Reserved
<1>3. UseCountExact'
  BY <1>2 DEF IInv, UseCountExact
<1>4. ExclusiveUserAlone'
  BY <1>2 DEF IInv, ExclusiveUserAlone
<1>5. NothingLeft'
  BY DEF IInv, NothingLeft
<1> QED
  BY <1>1, <1>3, <1>4, <1>5

\* Steps of a file that neither become nor stop being an open file.
LEMMA FileSteps ==
  ASSUME IInv, NEW f \in Files,
         \/ \E p \in Ports : chrdev_open(f, p)
         \/ afu_open_read(f)
         \/ afu_ioctl_map(f)
         \/ afu_ioctl_set_irq(f)
         \/ afu_open(f) /\ UNCHANGED <<open_count, excl_open>> /\ file' = [file EXCEPT ![f] = NoFile]
  PROVE  CtlPhase' /\ UseCountExact' /\ ExclusiveUserAlone' /\ NothingLeft'
<1> DEFINE Goal == CtlPhase' /\ UseCountExact' /\ ExclusiveUserAlone' /\ NothingLeft'
<1>1. ASSUME NEW p \in Ports, chrdev_open(f, p) PROVE Goal
  <2>1. \A q \in Ports : OpenFiles(q)' = OpenFiles(q)
    BY <1>1 DEF chrdev_open, OpenFiles, IInv, TypeOK
  <2>2. \A q \in Ports : \A g \in OpenFiles(q) : file'[g].excl = file[g].excl
    BY <1>1 DEF chrdev_open, OpenFiles, IInv, TypeOK
  <2> QED
    BY <1>1, <2>1, <2>2, Frame DEF chrdev_open, fdataVars, resVars, cdevVars
<1>2. CASE afu_open_read(f)
  <2>1. \A q \in Ports : OpenFiles(q)' = OpenFiles(q)
    BY <1>2 DEF afu_open_read, OpenFiles, IInv, TypeOK
  <2>2. \A q \in Ports : \A g \in OpenFiles(q) : file'[g].excl = file[g].excl
    BY <1>2 DEF afu_open_read, OpenFiles, IInv, TypeOK
  <2> QED
    BY <1>2, <2>1, <2>2, Frame DEF afu_open_read, fdataVars, resVars, cdevVars
<1>3. CASE afu_ioctl_map(f) \/ afu_ioctl_set_irq(f)
  <2>1. \A q \in Ports : OpenFiles(q)' = OpenFiles(q)
    BY <1>3 DEF afu_ioctl_map, afu_ioctl_set_irq, OpenFiles
  <2>2. f \in OpenFiles(file[f].port)
    BY <1>3 DEF afu_ioctl_map, afu_ioctl_set_irq, OpenFiles
  <2>3. \A q \in Ports : OpenFiles(q) = {} =>
          (regions'[q] => regions[q]) /\ (triggers'[q] => triggers[q])
    BY <1>3, <2>2 DEF afu_ioctl_map, afu_ioctl_set_irq, IInv, TypeOK
  <2> QED
    BY <1>3, <2>1, <2>3, Frame DEF afu_ioctl_map, afu_ioctl_set_irq, fdataVars, cdevVars
<1>4. CASE afu_open(f) /\ UNCHANGED <<open_count, excl_open>> /\ file' = [file EXCEPT ![f] = NoFile]
  <2>1. \A q \in Ports : OpenFiles(q)' = OpenFiles(q)
    BY <1>4 DEF afu_open, NoFile, OpenFiles, IInv, TypeOK
  <2>2. \A q \in Ports : \A g \in OpenFiles(q) : file'[g].excl = file[g].excl
    BY <1>4 DEF afu_open, NoFile, OpenFiles, IInv, TypeOK
  <2> QED
    BY <1>4, <2>1, <2>2, Frame DEF afu_open, resVars, cdevVars
<1> QED
  BY <1>1, <1>2, <1>3, <1>4

\* A successful open adds one user, and only beside non-exclusive ones.
LEMMA OpenStep ==
  ASSUME IInv, NEW f \in Files, afu_open(f), TypeOK',
         use_begin(file[f].port, file[f].excl), file' = [file EXCEPT ![f].st = "open"]
  PROVE  CtlPhase' /\ UseCountExact' /\ ExclusiveUserAlone' /\ NothingLeft'
<1> DEFINE p == file[f].port
<1> USE DEF IInv
<1>1. p \in Ports /\ f \notin OpenFiles(p)
  BY DEF afu_open, OpenFiles, TypeOK
<1>2. OpenFiles(p)' = OpenFiles(p) \cup {f}
  BY <1>1 DEF OpenFiles, TypeOK
<1>3. \A q \in Ports : q # p => OpenFiles(q)' = OpenFiles(q)
  BY DEF OpenFiles, TypeOK
<1>4. UNCHANGED <<dev, released_port_num, ctl, regions, triggers>>
  BY DEF afu_open, cdevVars, resVars
<1>5. \A q \in Ports : Reserved(q)' <=> Reserved(q)
  BY <1>4 DEF Reserved
<1>6. ~excl_open[p] /\ ~Reserved(p)
  BY <1>1 DEF use_begin, use_begin_ok, ExclusiveUserAlone
<1>7. CtlPhase'
  BY <1>4 DEF CtlPhase, CtlFree, ReleasedPorts
<1>8. UseCountExact'
  <2>1. Cardinality(OpenFiles(p))' = Cardinality(OpenFiles(p)) + 1
    BY <1>1, <1>2, OpenFilesFinite, FS_AddElement
  <2>2. open_count'[p] = open_count[p] + 1
    BY <1>1 DEF use_begin, TypeOK
  <2>3. open_count'[p] = Cardinality(OpenFiles(p))' + (IF Reserved(p)' THEN 1 ELSE 0)
    BY <1>1, <1>5, <1>6, <2>1, <2>2, OpenFilesFinite DEF UseCountExact
  <2>4. \A q \in Ports : q # p => open_count'[q] = open_count[q]
    BY DEF use_begin, TypeOK
  <2> QED
    BY <1>3, <1>5, <2>3, <2>4 DEF UseCountExact
<1>9. ExclusiveUserAlone'
  <2>1. \A q \in Ports : q # p =>
          /\ excl_open'[q] = excl_open[q] /\ open_count'[q] = open_count[q]
          /\ \A g \in OpenFiles(q) : file'[g].excl = file[g].excl
    BY DEF use_begin, OpenFiles, TypeOK
  <2>2. excl_open'[p] = file[f].excl /\ open_count'[p] = open_count[p] + 1
    BY <1>1 DEF use_begin, TypeOK
  <2>3. excl_open'[p] => open_count'[p] = 1
    BY <2>2, <1>1 DEF use_begin, use_begin_ok, TypeOK
  <2>4. file[f].excl => OpenFiles(p) = {}
    BY <1>1, Users DEF use_begin, use_begin_ok
  <2>5. \A g \in OpenFiles(p) : g # f /\ file'[g].excl = file[g].excl /\ file[g].excl = FALSE
    BY <1>1, <1>6 DEF ExclusiveUserAlone, OpenFiles, TypeOK
  <2>6. file'[f].excl = file[f].excl
    BY DEF TypeOK
  <2>7. file[f].excl \in BOOLEAN
    BY DEF TypeOK
  <2>8. \A g \in OpenFiles(p)' : file'[g].excl = excl_open'[p]
    BY <1>2, <2>2, <2>4, <2>5, <2>6, <2>7
  <2>9. ASSUME NEW q \in Ports
        PROVE  /\ excl_open'[q] => open_count'[q] = 1
               /\ Reserved(q)' => excl_open'[q]
               /\ \A g \in OpenFiles(q)' : file'[g].excl = excl_open'[q]
    <3>1. CASE q = p
      BY <3>1, <1>5, <1>6, <2>3, <2>8
    <3>2. CASE q # p
      BY <3>2, <1>3, <1>5, <2>1 DEF ExclusiveUserAlone
    <3> QED
      BY <3>1, <3>2
  <2> QED
    BY <2>9 DEF ExclusiveUserAlone
<1>10. NothingLeft'
  BY <1>2, <1>3, <1>4 DEF NothingLeft
<1> QED
  BY <1>7, <1>8, <1>9, <1>10

\* A close removes one user; the last one leaves the port clean.
LEMMA CloseStep ==
  ASSUME IInv, NEW f \in Files, afu_release(f)
  PROVE  CtlPhase' /\ UseCountExact' /\ ExclusiveUserAlone' /\ NothingLeft'
<1>0. PICK p \in Ports : p = file[f].port
  BY DEF IInv, TypeOK, afu_release
<1> USE <1>0 DEF IInv
<1>1. f \in OpenFiles(p)
  BY DEF afu_release, OpenFiles
<1>2. OpenFiles(p)' = OpenFiles(p) \ {f}
  BY DEF afu_release, NoFile, OpenFiles, TypeOK
<1>3. \A q \in Ports : q # p => OpenFiles(q)' = OpenFiles(q)
  BY DEF afu_release, NoFile, OpenFiles, TypeOK
<1>4. UNCHANGED <<dev, released_port_num, ctl>>
  BY DEF afu_release, cdevVars
<1>5. \A q \in Ports : Reserved(q)' <=> Reserved(q)
  BY <1>4 DEF Reserved
<1>6. ~Reserved(p)
  BY <1>1, Users
<1>7. Cardinality(OpenFiles(p))' = Cardinality(OpenFiles(p)) - 1
  BY <1>1, <1>2, OpenFilesFinite, FS_RemoveElement
<1>8. open_count[p] = Cardinality(OpenFiles(p))
  BY <1>1, <1>6, OpenFilesFinite DEF UseCountExact
<1>9. open_count[p] > 0 /\ use_count_after_end(p) = open_count[p] - 1
  BY <1>7, <1>8, <1>1, OpenFilesFinite DEF use_count_after_end, TypeOK
<1>10. open_count'[p] = open_count[p] - 1
  BY <1>1, <1>9 DEF afu_release, use_end, TypeOK
<1>11. CtlPhase'
  BY <1>4 DEF CtlPhase, CtlFree, ReleasedPorts
<1>12. \A q \in Ports : q # p =>
          /\ excl_open'[q] = excl_open[q] /\ open_count'[q] = open_count[q]
          /\ regions'[q] = regions[q] /\ triggers'[q] = triggers[q]
  BY DEF afu_release, use_end, TypeOK
<1>13. UseCountExact'
  <2>1. open_count'[p] = Cardinality(OpenFiles(p))' + (IF Reserved(p)' THEN 1 ELSE 0)
    BY <1>1, <1>5, <1>6, <1>7, <1>8, <1>10, OpenFilesFinite
  <2> QED
    BY <1>3, <1>5, <1>12, <2>1 DEF UseCountExact
<1>14. ExclusiveUserAlone'
  <2>1. excl_open'[p] = FALSE
    BY <1>1 DEF afu_release, use_end, TypeOK
  <2>2. \A q \in Ports : \A g \in OpenFiles(q) : g # f => file'[g].excl = file[g].excl
    BY DEF afu_release, OpenFiles, TypeOK
  <2>3. \A g \in OpenFiles(p)' : file'[g].excl = FALSE
    <3> SUFFICES ASSUME NEW g \in OpenFiles(p)' PROVE file'[g].excl = FALSE
      OBVIOUS
    <3>1. g \in OpenFiles(p) /\ g # f
      BY <1>2
    <3>2. excl_open[p] = FALSE
      BY <3>1, <1>1, Users DEF TypeOK
    <3> QED
      BY <3>1, <3>2, <1>1, <2>2 DEF ExclusiveUserAlone
  <2>4. ASSUME NEW q \in Ports
        PROVE  /\ excl_open'[q] => open_count'[q] = 1
               /\ Reserved(q)' => excl_open'[q]
               /\ \A g \in OpenFiles(q)' : file'[g].excl = excl_open'[q]
    <3>1. CASE q = p
      BY <3>1, <1>5, <1>6, <2>1, <2>3
    <3>2. CASE q # p
      <4>1. f \notin OpenFiles(q)
        BY <3>2 DEF OpenFiles
      <4> QED
        BY <3>2, <4>1, <1>3, <1>5, <1>12, <2>2 DEF ExclusiveUserAlone
    <3> QED
      BY <3>1, <3>2
  <2> QED
    BY <2>4 DEF ExclusiveUserAlone
<1>15. NothingLeft'
  <2>1. OpenFiles(p)' = {} => use_count_after_end(p) = 0
    BY <1>7, <1>8, <1>9, FS_EmptySet
  <2>2. OpenFiles(p)' = {} => ~regions'[p] /\ ~triggers'[p]
    BY <1>1, <2>1 DEF afu_release, TypeOK
  <2> QED
    BY <1>3, <1>12, <2>2 DEF NothingLeft
<1> QED
  BY <1>11, <1>13, <1>14, <1>15

\* Binding and unbinding the driver, and SR-IOV, touch no counter.
LEMMA OtherSteps ==
  ASSUME IInv,
         \/ \E p \in Ports : afu_probe(p) \/ afu_remove(p)
         \/ \E n \in 1..MaxVfs : sriov_enable(n)
         \/ pci_enable_sriov
         \/ pci_disable_sriov
         \/ config_ports_pf
         \/ UNCHANGED vars
  PROVE  CtlPhase' /\ UseCountExact' /\ ExclusiveUserAlone' /\ NothingLeft'
<1>1. UNCHANGED <<dev, open_count, excl_open, released_port_num, ctl, file, triggers>>
  BY DEF afu_probe, afu_remove, sriov_enable, pci_enable_sriov, pci_disable_sriov,
         config_ports_pf, vars, fdataVars, resVars, cdevVars
<1>2. \A q \in Ports : OpenFiles(q)' = OpenFiles(q)
  BY <1>1 DEF OpenFiles
<1>3. \A q \in Ports : regions'[q] => regions[q]
  BY DEF afu_probe, afu_remove, afu_remove_effect, sriov_enable, pci_enable_sriov, pci_disable_sriov,
         config_ports_pf, vars, resVars, IInv, TypeOK
<1> QED
  BY <1>1, <1>2, <1>3, Frame

\* A release begins: it becomes the exclusive user of an unused port.
LEMMA ReleaseStep ==
  ASSUME IInv, NEW p \in Ports, release_port(p)
  PROVE  CtlPhase' /\ UseCountExact' /\ ExclusiveUserAlone' /\ NothingLeft'
<1> USE DEF IInv
<1>1. UNCHANGED <<dev, file, regions, triggers, released_port_num>> /\ ctl.op = "free"
  BY DEF release_port, resVars, CtlFree
<1>2. \A q \in Ports : OpenFiles(q)' = OpenFiles(q)
  BY <1>1 DEF OpenFiles
<1>3. ctl' = [op |-> "unregister", port |-> p] /\ dev[p] # NULL
  BY DEF release_port
<1>4. ctl.port = NoPort
  BY <1>1 DEF CtlPhase, CtlFree
<1>5. Reserved(p)' /\ \A q \in Ports : q # p => (Reserved(q)' <=> Reserved(q))
  BY <1>1, <1>3, <1>4, PortDevAssumption DEF Reserved
<1>6. open_count[p] = 0 /\ OpenFiles(p) = {} /\ ~Reserved(p)
  BY Users DEF release_port, use_begin, use_begin_ok
<1>7. excl_open'[p] = TRUE /\ open_count'[p] = 1
  BY <1>6 DEF release_port, use_begin, TypeOK
<1>8. \A q \in Ports : q # p => excl_open'[q] = excl_open[q] /\ open_count'[q] = open_count[q]
  BY DEF release_port, use_begin, TypeOK
<1>9. CtlPhase'
  BY <1>1, <1>3, PortDevAssumption DEF CtlPhase, CtlFree, ReleasedPorts
<1>10. UseCountExact'
  <2>1. Cardinality(OpenFiles(p))' = 0
    BY <1>2, <1>6, FS_EmptySet
  <2> QED
    BY <1>2, <1>5, <1>7, <1>8, <2>1 DEF UseCountExact
<1>11. ExclusiveUserAlone'
  <2>1. ASSUME NEW q \in Ports
        PROVE  /\ excl_open'[q] => open_count'[q] = 1
               /\ Reserved(q)' => excl_open'[q]
               /\ \A g \in OpenFiles(q)' : file'[g].excl = excl_open'[q]
    <3>1. CASE q = p
      BY <3>1, <1>2, <1>6, <1>7
    <3>2. CASE q # p
      BY <3>2, <1>1, <1>2, <1>5, <1>8 DEF ExclusiveUserAlone
    <3> QED
      BY <3>1, <3>2
  <2> QED
    BY <2>1 DEF ExclusiveUserAlone
<1>12. NothingLeft'
  BY <1>1, <1>2 DEF NothingLeft
<1> QED
  BY <1>9, <1>10, <1>11, <1>12

\* The steps inside a release or an assign that keep the port reserved and
\* the counters of the ports alone.
LEMMA ReservedSteps ==
  ASSUME IInv, release_unregister \/ release_done \/ assign_add \/ assign_fail
               \/ \E p \in Ports : assign_port(p)
  PROVE  CtlPhase' /\ UseCountExact' /\ ExclusiveUserAlone' /\ NothingLeft'
<1> USE PortDevAssumption DEF IInv
<1>1. UNCHANGED <<file, open_count, excl_open, triggers>>
  BY DEF release_unregister, release_done, assign_add, assign_fail, assign_port, resVars
<1>2. \A q \in Ports : OpenFiles(q)' = OpenFiles(q)
  BY <1>1 DEF OpenFiles
<1>3. \A q \in Ports : regions'[q] => regions[q]
  BY DEF release_unregister, afu_remove_effect, release_done, assign_add, assign_fail, assign_port,
         resVars, TypeOK
<1>4. \A q \in Ports : Reserved(q)' <=> Reserved(q)
  <2>1. CASE release_unregister \/ assign_add
    BY <2>1 DEF release_unregister, assign_add, Reserved, TypeOK
  <2>2. CASE release_done \/ assign_fail
    BY <2>2 DEF release_done, assign_fail, Reserved, Unlocked, TypeOK, CtlPhase, CtlFree, NULL
  <2>3. ASSUME NEW p \in Ports, assign_port(p)
        PROVE  \A q \in Ports : Reserved(q)' <=> Reserved(q)
    BY <2>3 DEF assign_port, Reserved, TypeOK, CtlPhase, CtlFree, NULL
  <2> QED
    BY <2>1, <2>2, <2>3
<1>5. UseCountExact' /\ ExclusiveUserAlone' /\ NothingLeft'
  <2>1. UseCountExact'
    BY <1>1, <1>2, <1>4 DEF UseCountExact
  <2>2. ExclusiveUserAlone'
    BY <1>1, <1>2, <1>4 DEF ExclusiveUserAlone
  <2>3. NothingLeft'
    BY <1>1, <1>2, <1>3 DEF NothingLeft
  <2> QED
    BY <2>1, <2>2, <2>3
<1>6. IsFiniteSet(ReleasedPorts) /\ Cardinality(ReleasedPorts) \in Nat
  BY FS_Subset, FS_CardinalityType DEF ReleasedPorts
<1>7. CtlPhase'
  <2>1. CASE release_unregister \/ assign_add
    <3>1. UNCHANGED <<dev, released_port_num>>
      BY <2>1 DEF release_unregister, assign_add
    <3>2. ctl'.port = ctl.port /\ ctl'.op # "free" /\ ctl.op # "free"
      BY <2>1 DEF release_unregister, assign_add, TypeOK
    <3>3. ctl'.op \in {"add", "use_end"} <=> ctl.op \in {"add", "use_end"}
      BY <2>1 DEF release_unregister, assign_add, TypeOK
    <3> QED
      BY <3>1, <3>2, <3>3 DEF CtlPhase, CtlFree, ReleasedPorts
  <2>2. CASE release_done
    <3>1. PICK p \in Ports : p = ctl.port
      BY <2>2 DEF release_done, TypeOK
    <3>2. ReleasedPorts' = ReleasedPorts \cup {p} /\ p \notin ReleasedPorts
      BY <2>2, <3>1 DEF release_done, ReleasedPorts, CtlPhase, CtlFree, TypeOK, NULL
    <3>3. Cardinality(ReleasedPorts') = Cardinality(ReleasedPorts) + 1
      BY <1>6, <3>2, FS_AddElement
    <3>4. released_port_num = Cardinality(ReleasedPorts)
      BY <2>2, <1>6 DEF release_done, CtlPhase
    <3> QED
      BY <2>2, <1>6, <3>3, <3>4 DEF release_done, CtlPhase, CtlFree, Unlocked
  <2>3. CASE assign_fail
    <3>1. PICK p \in Ports : p = ctl.port
      BY <2>3 DEF assign_fail, TypeOK
    <3>2. ReleasedPorts' = ReleasedPorts \cup {p} /\ p \notin ReleasedPorts
      BY <2>3, <3>1 DEF assign_fail, ReleasedPorts, CtlPhase, CtlFree, TypeOK, NULL
    <3>3. Cardinality(ReleasedPorts') = Cardinality(ReleasedPorts) + 1
      BY <1>6, <3>2, FS_AddElement
    <3>4. released_port_num = Cardinality(ReleasedPorts) + 1
      BY <2>3, <1>6 DEF assign_fail, CtlPhase
    <3> QED
      BY <2>3, <1>6, <3>3, <3>4 DEF assign_fail, CtlPhase, CtlFree, Unlocked
  <2>4. ASSUME NEW p \in Ports, assign_port(p) PROVE CtlPhase'
    <3>1. gen[p] + 1 # NULL
      BY DEF TypeOK, NULL
    <3>2. ReleasedPorts' = ReleasedPorts \ {p} /\ p \in ReleasedPorts
      BY <2>4, <3>1 DEF assign_port, ReleasedPorts, TypeOK
    <3>3. Cardinality(ReleasedPorts') = Cardinality(ReleasedPorts) - 1
      BY <1>6, <3>2, FS_RemoveElement
    <3>4. released_port_num = Cardinality(ReleasedPorts)
      BY <2>4, <1>6 DEF assign_port, CtlPhase, CtlFree
    <3>5. dev'[p] # NULL
      BY <2>4, <3>1 DEF assign_port, TypeOK
    <3> QED
      BY <2>4, <1>6, <3>3, <3>4, <3>5 DEF assign_port, CtlPhase, CtlFree
  <2> QED
    BY <2>1, <2>2, <2>3, <2>4
<1> QED
  BY <1>5, <1>7

\* The assign ends: the use of the release is given back and nobody was there.
LEMMA AssignDoneStep ==
  ASSUME IInv, assign_done
  PROVE  CtlPhase' /\ UseCountExact' /\ ExclusiveUserAlone' /\ NothingLeft'
<1> USE PortDevAssumption DEF IInv
<1>0. PICK p \in Ports : p = ctl.port
  BY DEF assign_done, TypeOK
<1>1. UNCHANGED <<dev, file, regions, triggers>> /\ ctl' = Unlocked
  BY DEF assign_done, resVars
<1>2. \A q \in Ports : OpenFiles(q)' = OpenFiles(q)
  BY <1>1 DEF OpenFiles
<1>3. dev[p] # NULL /\ Reserved(p)
  BY <1>0 DEF assign_done, CtlPhase, CtlFree, Reserved
<1>4. ~Reserved(p)' /\ \A q \in Ports : q # p => (Reserved(q)' <=> Reserved(q))
  BY <1>0, <1>1, <1>3 DEF Reserved, Unlocked
<1>5. OpenFiles(p) = {}
  BY <1>3, Users
<1>6. open_count[p] = 1
  BY <1>3 DEF ExclusiveUserAlone
<1>7. excl_open'[p] = FALSE /\ open_count'[p] = 0
  BY <1>0, <1>6 DEF assign_done, use_end, use_count_after_end, TypeOK
<1>8. \A q \in Ports : q # p => excl_open'[q] = excl_open[q] /\ open_count'[q] = open_count[q]
  BY <1>0 DEF assign_done, use_end, TypeOK
<1>9. CtlPhase'
  <2>1. Cardinality(ReleasedPorts) \in Nat
    BY FS_Subset, FS_CardinalityType DEF ReleasedPorts
  <2>2. released_port_num = Cardinality(ReleasedPorts) + 1
    BY <2>1 DEF assign_done, CtlPhase
  <2>3. ReleasedPorts' = ReleasedPorts
    BY <1>1 DEF ReleasedPorts
  <2> QED
    BY <1>1, <2>1, <2>2, <2>3 DEF assign_done, CtlPhase, CtlFree, Unlocked
<1>10. UseCountExact'
  <2>1. Cardinality(OpenFiles(p))' = 0
    BY <1>2, <1>5, FS_EmptySet
  <2> QED
    BY <1>2, <1>4, <1>7, <1>8, <2>1 DEF UseCountExact
<1>11. ExclusiveUserAlone'
  <2>1. ASSUME NEW q \in Ports
        PROVE  /\ excl_open'[q] => open_count'[q] = 1
               /\ Reserved(q)' => excl_open'[q]
               /\ \A g \in OpenFiles(q)' : file'[g].excl = excl_open'[q]
    <3>1. CASE q = p
      BY <3>1, <1>2, <1>4, <1>5, <1>7
    <3>2. CASE q # p
      BY <3>2, <1>1, <1>2, <1>4, <1>8 DEF ExclusiveUserAlone
    <3> QED
      BY <3>1, <3>2
  <2> QED
    BY <2>1 DEF ExclusiveUserAlone
<1>12. NothingLeft'
  BY <1>1, <1>2 DEF NothingLeft
<1> QED
  BY <1>9, <1>10, <1>11, <1>12

\* IInv is inductive.
LEMMA InvStep == IInv /\ [Next]_vars => IInv'
<1> SUFFICES ASSUME IInv, [Next]_vars PROVE IInv'
  OBVIOUS
<1> DEFINE Rest == CtlPhase' /\ UseCountExact' /\ ExclusiveUserAlone' /\ NothingLeft'
<1>1. TypeOK'
  BY TypeStep
<1>2. Rest
  <2>1. ASSUME NEW f \in Files, afu_open(f) PROVE Rest
    <3>1. CASE use_begin(file[f].port, file[f].excl) /\ file' = [file EXCEPT ![f].st = "open"]
      BY <1>1, <2>1, <3>1, OpenStep
    <3>2. CASE UNCHANGED <<open_count, excl_open>> /\ file' = [file EXCEPT ![f] = NoFile]
      BY <2>1, <3>2, FileSteps
    <3> QED
      BY <2>1, <3>1, <3>2 DEF afu_open
  <2>2. ASSUME NEW f \in Files,
               \/ \E p \in Ports : chrdev_open(f, p)
               \/ afu_open_read(f) \/ afu_ioctl_map(f) \/ afu_ioctl_set_irq(f)
        PROVE  Rest
    BY <2>2, FileSteps
  <2>3. ASSUME NEW f \in Files, afu_release(f) PROVE Rest
    BY <2>3, CloseStep
  <2>4. ASSUME NEW p \in Ports, release_port(p) PROVE Rest
    BY <2>4, ReleaseStep
  <2>5. CASE \/ release_unregister \/ release_done \/ assign_add \/ assign_fail
             \/ \E p \in Ports : assign_port(p)
    BY <2>5, ReservedSteps
  <2>6. CASE assign_done
    BY <2>6, AssignDoneStep
  <2>7. CASE \/ \E p \in Ports : afu_probe(p) \/ afu_remove(p)
             \/ \E n \in 1..MaxVfs : sriov_enable(n)
             \/ pci_enable_sriov \/ pci_disable_sriov \/ config_ports_pf
             \/ UNCHANGED vars
    BY <2>7, OtherSteps
  <2> QED
    BY <2>1, <2>2, <2>3, <2>4, <2>5, <2>6, <2>7 DEF Next
<1> QED
  BY <1>1, <1>2 DEF IInv

\* The inductive invariant holds for any sets of ports and files.
THEOREM Invariance == Spec => []IInv
<1>1. Init => IInv
  BY InitInv
<1>2. IInv /\ [Next]_vars => IInv'
  BY InvStep
<1> QED
  BY <1>1, <1>2, PTL DEF Spec

\* fdata->open_count is the number of open files plus the use of a release,
\* and an exclusive user (an O_EXCL open or a release) is alone.
THEOREM UseCountCorrect == Spec => []UseCountExact /\ []ExclusiveUserAlone
<1>1. IInv => UseCountExact /\ ExclusiveUserAlone
  BY DEF IInv
<1> QED
  BY <1>1, Invariance, PTL

\* cdev->released_port_num is the number of released ports whenever cdev->lock
\* is free, as config_ports_vf needs it.
THEOREM ReleasedCountCorrect == Spec => []ReleasedCountExact
<1>1. IInv => ReleasedCountExact
  <2>1. Cardinality(ReleasedPorts) \in Nat
    BY PortDevAssumption, FS_Subset, FS_CardinalityType DEF ReleasedPorts
  <2> QED
    BY <2>1 DEF IInv, CtlPhase, CtlFree, ReleasedCountExact
<1> QED
  BY <1>1, Invariance, PTL

\* A released port has no open file, no DMA region and no interrupt trigger.
THEOREM ReleasedPortIsClean == Spec => []ReleasedPortClean
<1>1. IInv => ReleasedPortClean
  <2> SUFFICES ASSUME IInv, NEW p \in ReleasedPorts
               PROVE  OpenFiles(p) = {} /\ ~regions[p] /\ ~triggers[p]
    BY DEF ReleasedPortClean
  <2>1. p \in Ports /\ Reserved(p)
    BY DEF ReleasedPorts, Reserved
  <2> QED
    BY <2>1, Users DEF IInv, NothingLeft
<1> QED
  BY <1>1, Invariance, PTL

\* A port nobody uses keeps no DMA region and no interrupt trigger.
THEOREM UnusedPortIsClean == Spec => []UnusedPortClean
<1>1. IInv => UnusedPortClean
  BY Users DEF IInv, NothingLeft, UnusedPortClean
<1> QED
  BY <1>1, Invariance, PTL

\* The access mode of a port changes only while it is released, and ports turn
\* to VF mode as many at once as VFs are about to exist.
THEOREM ModeChange == Spec => ModeChangesOnlyWhenReleased
<1> DEFINE A == \A p \in Ports : acc'[p] # acc[p] =>
                  /\ dev[p] = NULL /\ dev'[p] = NULL
                  /\ acc'[p] = "VF" => Cardinality(ReleasedPorts) = sriov'.n
<1>1. IInv /\ [Next]_vars => [A]_vars
  <2> SUFFICES ASSUME IInv, Next, NEW p \in Ports, acc'[p] # acc[p]
               PROVE  /\ dev[p] = NULL /\ dev'[p] = NULL
                      /\ acc'[p] = "VF" => Cardinality(ReleasedPorts) = sriov'.n
    OBVIOUS
  <2>1. \/ \E n \in 1..MaxVfs : sriov_enable(n)
        \/ config_ports_pf
    BY DEF Next, chrdev_open, afu_open_read, afu_open, afu_ioctl_map, afu_ioctl_set_irq, afu_release,
           afu_probe, afu_remove, release_port, assign_port, release_unregister, release_done,
           assign_add, assign_fail, assign_done, pci_enable_sriov, pci_disable_sriov, pciVars
  <2>2. ASSUME NEW n \in 1..MaxVfs, sriov_enable(n)
        PROVE  /\ dev[p] = NULL /\ dev'[p] = NULL
               /\ acc'[p] = "VF" => Cardinality(ReleasedPorts) = sriov'.n
    <3>1. p \in ReleasedPorts /\ dev' = dev /\ sriov'.n = n
      BY <2>2 DEF sriov_enable, fdataVars, IInv, TypeOK
    <3>2. Cardinality(ReleasedPorts) \in Nat
      BY PortDevAssumption, FS_Subset, FS_CardinalityType DEF ReleasedPorts
    <3>3. Cardinality(ReleasedPorts) = n
      BY <2>2, <3>1, <3>2 DEF sriov_enable, config_ports_vf_ok, IInv, CtlPhase, CtlFree
    <3> QED
      BY <3>1, <3>3 DEF ReleasedPorts
  <2>3. CASE config_ports_pf
    BY <2>3 DEF config_ports_pf, fdataVars, ReleasedPorts, IInv, TypeOK
  <2> QED
    BY <2>1, <2>2, <2>3
<1> QED
  BY <1>1, Invariance, PTL DEF Spec, ModeChangesOnlyWhenReleased
=============================================================================
