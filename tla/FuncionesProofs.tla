-------------------------- MODULE FuncionesProofs ---------------------------
(***************************************************************************)
(* Proofs about Funciones, for any processes, plans, catalogue and         *)
(* failures: the seeding that several processes run at once, and the       *)
(* backups.                                                                *)
(***************************************************************************)
EXTENDS Funciones, FiniteSetTheorems, SequenceTheorems, TLAPS

Sembrando == {"leerFunciones", "guardarFunciones"}

(* What a process i has in hand: every function of the catalogue is in the *)
(* table, or about to be stored, or of a plan it still has to look at.     *)
ReplicaBien(i, filas, funciones) ==
  /\ i.fase \in {"leerPlanes", "escuchando"} \cup Sembrando => Sembrados \subseteq filas
  /\ i.fase = "guardarFunciones" =>
       /\ i.plan \in Planes
       /\ i.missing # {} /\ i.missing \subseteq Catalogo[i.plan]
       /\ Catalogo[i.plan] \subseteq funciones[i.plan] \cup i.missing
  /\ i.fase \in Sembrando =>
       \A p \in Sembrados \ i.pendientes :
         Catalogo[p] \subseteq funciones[p] \/ (i.fase = "guardarFunciones" /\ p = i.plan)
  /\ i.fase = "escuchando" => \A p \in Sembrados : Catalogo[p] \subseteq funciones[p]

(* What a backup request i has in hand.                                    *)
TareaBien(i, guardados) ==
  /\ i.pc # "libre" => i.usuario \in Usuarios /\ i.carga \in Cargas
  /\ i.pc = "responder" =>
       /\ i.id \in DOMAIN guardados
       /\ guardados[i.id] = [usuario |-> i.usuario, payloadJson |-> i.carga]

Inv ==
  /\ TypeOK
  /\ planes # {} => Sembrados \subseteq planes
  /\ \A r \in Replicas : ReplicaBien(replica[r], planes, rel)
  /\ \A t \in Tareas : TareaBien(tarea[t], backups)
  /\ \A b \in respondidos : backups[b.id] = [usuario |-> b.usuario, payloadJson |-> b.carga]

-----------------------------------------------------------------------------
LEMMA CaidaTipo ==
  Caida \in Replica /\ \A filas, funciones : ReplicaBien(Caida, filas, funciones)
  BY DEF Caida, Replica, Fases, ReplicaBien, Sembrando

LEMMA LibreTipo == Libre \in Tarea /\ \A guardados : TareaBien(Libre, guardados)
  BY DEF Libre, Tarea, Pasos, TareaBien

(* Plans and functions are only added: what a process has in hand stays.   *)
LEMMA ReplicaSigue ==
  ASSUME NEW i, NEW filas, NEW otras, filas \subseteq otras,
         NEW funciones, NEW mas, \A p \in Planes : funciones[p] \subseteq mas[p],
         ReplicaBien(i, filas, funciones)
  PROVE  ReplicaBien(i, otras, mas)
<1>1. \A p \in Sembrados : p \in Planes
  BY FuncionesAssumption
<1> QED
  BY <1>1 DEF ReplicaBien

LEMMA Inicio == Init => Inv
<1> SUFFICES ASSUME Init PROVE Inv
  OBVIOUS
<1>1. TypeOK
  <2>1. planes \subseteq Planes /\ rel \in [Planes -> SUBSET Codigos]
    BY FuncionesAssumption DEF Init
  <2>2. replica \in [Replicas -> Replica] /\ tarea \in [Tareas -> Tarea]
    BY CaidaTipo, LibreTipo DEF Init
  <2>3. backups \in Seq(FilaBackup)
    BY DEF Init
  <2> QED
    BY <2>1, <2>2, <2>3, FuncionesAssumption DEF Init, TypeOK
<1>2. planes # {} => Sembrados \subseteq planes
  BY DEF Init
<1>3. \A r \in Replicas : ReplicaBien(replica[r], planes, rel)
  BY CaidaTipo DEF Init
<1>4. \A t \in Tareas : TareaBien(tarea[t], backups)
  BY LibreTipo DEF Init
<1>5. \A b \in respondidos : backups[b.id] = [usuario |-> b.usuario, payloadJson |-> b.carga]
  BY DEF Init
<1> QED
  BY <1>1, <1>2, <1>3, <1>4, <1>5 DEF Inv

-----------------------------------------------------------------------------
(* Process r goes on to j; the others see at most more plans and functions.*)
LEMMA SoloReplica ==
  ASSUME Inv, NEW r \in Replicas, NEW j \in Replica,
         replica' = [replica EXCEPT ![r] = j],
         UNCHANGED <<entorno, usos, fallas>>,
         planes \subseteq planes', planes' \subseteq Planes,
         planes' # {} => Sembrados \subseteq planes',
         rel' \in [Planes -> SUBSET Codigos], \A p \in Planes : rel[p] \subseteq rel'[p],
         ReplicaBien(j, planes', rel')
  PROVE  Inv'
<1>1. replica \in [Replicas -> Replica]
  BY DEF Inv, TypeOK
<1>2. TypeOK'
  <2>1. plan' \in [Usuarios -> planes' \cup {Nada}]
    BY DEF Inv, TypeOK, usos
  <2> QED
    BY <1>1, <2>1 DEF Inv, TypeOK, usos
<1>3. ASSUME NEW o \in Replicas PROVE ReplicaBien(replica'[o], planes', rel')
  <2>1. CASE o = r
    BY <1>1, <2>1
  <2>2. CASE o # r
    <3>1. replica'[o] = replica[o] /\ ReplicaBien(replica[o], planes, rel)
      BY <1>1, <2>2 DEF Inv
    <3> QED
      BY <3>1, ReplicaSigue
  <2> QED
    BY <2>1, <2>2
<1>4. \A t \in Tareas : TareaBien(tarea'[t], backups')
  BY DEF Inv, usos
<1>5. \A b \in respondidos' : backups'[b.id] = [usuario |-> b.usuario, payloadJson |-> b.carga]
  BY DEF Inv, usos
<1> QED
  BY <1>2, <1>3, <1>4, <1>5 DEF Inv

LEMMA ArrancarInv ==
  ASSUME Inv, NEW r \in Replicas, Arrancar(r) \/ Contar(r) \/ LeerPlanes(r) \/ Escuchar(r)
  PROVE  Inv'
<1> DEFINE i == replica[r]
<1>0. /\ replica \in [Replicas -> Replica] /\ i \in Replica /\ ReplicaBien(i, planes, rel)
      /\ planes \subseteq Planes /\ rel \in [Planes -> SUBSET Codigos]
      /\ planes # {} => Sembrados \subseteq planes
  BY DEF Inv, TypeOK
<1>1. ASSUME NEW j \in Replica, replica' = [replica EXCEPT ![r] = j], ReplicaBien(j, planes, rel),
             UNCHANGED <<entorno, semilla, usos, fallas>>
      PROVE  Inv'
  BY <1>0, <1>1, SoloReplica DEF semilla
<1>2. CASE Arrancar(r)
  <2> DEFINE j == [i EXCEPT !.fase = "contar"]
  <2>1. j \in Replica /\ j.fase = "contar"
    BY <1>0 DEF Replica, Fases
  <2>2. replica' = [replica EXCEPT ![r] = j] /\ UNCHANGED <<entorno, semilla, usos, fallas>>
    BY <1>0, <1>2 DEF Arrancar
  <2> HIDE DEF j
  <2>3. ReplicaBien(j, planes, rel)
    BY <2>1 DEF ReplicaBien, Sembrando
  <2> QED
    BY <1>1, <2>1, <2>2, <2>3
<1>3. CASE Contar(r)
  <2> DEFINE j == [i EXCEPT !.fase = IF HaySemilla THEN "leerPlanes" ELSE "sembrar"]
  <2>1. /\ j \in Replica /\ j.fase \in {"leerPlanes", "sembrar"}
        /\ j.fase = "leerPlanes" => planes # {}
    BY <1>0 DEF Replica, Fases, HaySemilla
  <2>2. replica' = [replica EXCEPT ![r] = j] /\ UNCHANGED <<entorno, semilla, usos, fallas>>
    BY <1>0, <1>3 DEF Contar
  <2> HIDE DEF j
  <2>3. ReplicaBien(j, planes, rel)
    BY <1>0, <2>1 DEF ReplicaBien, Sembrando
  <2> QED
    BY <1>1, <2>1, <2>2, <2>3
<1>4. CASE LeerPlanes(r)
  <2> DEFINE j == [i EXCEPT !.fase = "leerFunciones", !.pendientes = planes]
  <2>1. j \in Replica /\ j.fase = "leerFunciones" /\ j.pendientes = planes
    BY <1>0 DEF Replica, Fases
  <2>2. replica' = [replica EXCEPT ![r] = j] /\ UNCHANGED <<entorno, semilla, usos, fallas>>
    BY <1>0, <1>4 DEF LeerPlanes
  <2>3. Sembrados \subseteq planes
    BY <1>0, <1>4 DEF LeerPlanes, Fase, ReplicaBien
  <2> HIDE DEF j
  <2>4. ReplicaBien(j, planes, rel)
    BY <2>1, <2>3 DEF ReplicaBien, Sembrando
  <2> QED
    BY <1>1, <2>1, <2>2, <2>4
<1>5. CASE Escuchar(r)
  <2> DEFINE j == [Caida EXCEPT !.fase = "escuchando"]
  <2>1. j \in Replica /\ j.fase = "escuchando"
    BY CaidaTipo DEF Replica, Fases
  <2>2. replica' = [replica EXCEPT ![r] = j] /\ UNCHANGED <<entorno, semilla, usos, fallas>>
    BY <1>5 DEF Escuchar
  <2>3. Sembrados \subseteq planes /\ \A p \in Sembrados : Catalogo[p] \subseteq rel[p]
    BY <1>0, <1>5 DEF Escuchar, Fase, ReplicaBien, Sembrando
  <2> HIDE DEF j
  <2>4. ReplicaBien(j, planes, rel)
    BY <2>1, <2>3 DEF ReplicaBien, Sembrando
  <2> QED
    BY <1>1, <2>1, <2>2, <2>4
<1> QED
  BY <1>2, <1>3, <1>4, <1>5

LEMMA SembrarInv ==
  ASSUME Inv, NEW r \in Replicas, SeedPlanesIfEmpty(r)
  PROVE  Inv'
<1> DEFINE i == replica[r]
<1>0. /\ replica \in [Replicas -> Replica] /\ i \in Replica
      /\ planes \subseteq Planes /\ rel \in [Planes -> SUBSET Codigos]
      /\ planes # {} => Sembrados \subseteq planes
      /\ Sembrados \subseteq Planes
  BY FuncionesAssumption DEF Inv, TypeOK
<1>1. CASE planes \cap Sembrados = {}
  <2> DEFINE j == [i EXCEPT !.fase = "leerPlanes"]
  <2>1. j \in Replica /\ j.fase = "leerPlanes"
    BY <1>0 DEF Replica, Fases
  <2>2. /\ replica' = [replica EXCEPT ![r] = j] /\ planes' = planes \cup Sembrados /\ rel' = rel
        /\ UNCHANGED <<entorno, usos, fallas>>
    BY <1>0, <1>1 DEF SeedPlanesIfEmpty
  <2> HIDE DEF j
  <2>3. ReplicaBien(j, planes', rel')
    BY <2>1, <2>2 DEF ReplicaBien, Sembrando
  <2> QED
    BY <1>0, <2>1, <2>2, <2>3, SoloReplica
<1>2. CASE planes \cap Sembrados # {}
  <2>1. /\ replica' = [replica EXCEPT ![r] = Caida] /\ planes' = planes /\ rel' = rel
        /\ UNCHANGED <<entorno, usos, fallas>>
    BY <1>2 DEF SeedPlanesIfEmpty
  <2> QED
    BY <1>0, <2>1, CaidaTipo, SoloReplica
<1> QED
  BY <1>1, <1>2

LEMMA LeerFuncionesInv ==
  ASSUME Inv, NEW r \in Replicas, NEW p \in Planes, LeerFunciones(r, p)
  PROVE  Inv'
<1> DEFINE i == replica[r]
           missing == Faltantes(p)
           f == IF missing = {} THEN "leerFunciones" ELSE "guardarFunciones"
           j == [fase |-> f, pendientes |-> i.pendientes \ {p}, plan |-> p, missing |-> missing]
<1>0. /\ replica \in [Replicas -> Replica] /\ i \in Replica /\ ReplicaBien(i, planes, rel)
      /\ i.fase = "leerFunciones"
      /\ planes \subseteq Planes /\ rel \in [Planes -> SUBSET Codigos]
      /\ planes # {} => Sembrados \subseteq planes
  BY DEF LeerFunciones, Fase, Inv, TypeOK
<1>1. missing \subseteq Catalogo[p] /\ missing \subseteq Codigos /\ Catalogo[p] \subseteq rel[p] \cup missing
  <2>1. Catalogo[p] \in SUBSET Codigos
    BY FuncionesAssumption
  <2>2. missing = Catalogo[p] \ rel[p]
    BY DEF Faltantes
  <2> HIDE DEF missing
  <2> QED
    BY <2>1, <2>2
<1>2. replica' = [replica EXCEPT ![r] = j] /\ UNCHANGED <<entorno, semilla, usos, fallas>>
  BY DEF LeerFunciones
<1> HIDE DEF missing
<1>3. /\ j \in Replica /\ j.fase = f /\ j.plan = p /\ j.missing = missing
      /\ j.pendientes = i.pendientes \ {p}
  BY <1>0, <1>1 DEF Replica, Fases
<1>4. f \in Sembrando /\ (f = "guardarFunciones" <=> missing # {})
  BY DEF Sembrando
<1>5. f # "escuchando" /\ f # "leerPlanes"
  OBVIOUS
<1> HIDE DEF j, f
<1>6. ReplicaBien(j, planes, rel)
  <2>1. Sembrados \subseteq planes
    BY <1>0 DEF ReplicaBien, Sembrando
  <2>2. \A q \in Sembrados \ i.pendientes : Catalogo[q] \subseteq rel[q]
    BY <1>0 DEF ReplicaBien, Sembrando
  <2>3. ASSUME NEW q \in Sembrados \ j.pendientes
        PROVE  Catalogo[q] \subseteq rel[q] \/ (j.fase = "guardarFunciones" /\ q = j.plan)
    <3>1. CASE q = p
      BY <1>1, <1>3, <1>4, <3>1
    <3>2. CASE q # p
      BY <1>3, <2>2, <2>3, <3>2
    <3> QED
      BY <3>1, <3>2
  <2> QED
    BY <1>1, <1>3, <1>4, <1>5, <2>1, <2>3 DEF ReplicaBien
<1> QED
  BY <1>0, <1>2, <1>3, <1>6, SoloReplica DEF semilla

LEMMA GuardarFuncionesInv ==
  ASSUME Inv, NEW r \in Replicas, SeedPlanFuncionesFromCatalog(r)
  PROVE  /\ Inv'
         /\ \A p \in Planes : rel[p] \subseteq rel'[p]
         /\ \A p \in Planes : rel'[p] # rel[p] => Catalogo[p] # {} /\ Catalogo[p] \subseteq rel'[p]
<1> DEFINE i == replica[r]
<1>0. /\ replica \in [Replicas -> Replica] /\ i \in Replica /\ ReplicaBien(i, planes, rel)
      /\ i.fase = "guardarFunciones"
      /\ planes \subseteq Planes /\ rel \in [Planes -> SUBSET Codigos]
      /\ planes # {} => Sembrados \subseteq planes
  BY DEF SeedPlanFuncionesFromCatalog, Fase, Inv, TypeOK
<1>1. /\ i.plan \in Planes /\ i.missing # {} /\ i.missing \subseteq Catalogo[i.plan]
      /\ Catalogo[i.plan] \subseteq rel[i.plan] \cup i.missing
      /\ Sembrados \subseteq planes /\ i.missing \subseteq Codigos
  BY <1>0, FuncionesAssumption DEF ReplicaBien, Sembrando
<1>2. CASE rel[i.plan] \cap i.missing = {}
  <2> DEFINE j == [i EXCEPT !.fase = "leerFunciones"]
  <2>1. j \in Replica /\ j.fase = "leerFunciones" /\ j.pendientes = i.pendientes
    BY <1>0 DEF Replica, Fases
  <2>2. /\ replica' = [replica EXCEPT ![r] = j]
        /\ rel' = [rel EXCEPT ![i.plan] = @ \cup i.missing] /\ planes' = planes
        /\ UNCHANGED <<entorno, usos, fallas>>
    BY <1>0, <1>2 DEF SeedPlanFuncionesFromCatalog, Guardadas
  <2> HIDE DEF j
  <2>3. /\ rel'[i.plan] = rel[i.plan] \cup i.missing
        /\ \A p \in Planes \ {i.plan} : rel'[p] = rel[p]
        /\ rel' \in [Planes -> SUBSET Codigos]
    BY <1>0, <1>1, <2>2
  <2>4. \A p \in Planes : rel[p] \subseteq rel'[p]
    BY <2>3
  <2>5. ReplicaBien(j, planes', rel')
    <3>1. ASSUME NEW q \in Sembrados \ j.pendientes PROVE Catalogo[q] \subseteq rel'[q]
      <4>1. q \in Planes
        BY FuncionesAssumption
      <4>2. Catalogo[q] \subseteq rel[q] \/ q = i.plan
        BY <1>0, <2>1 DEF ReplicaBien, Sembrando
      <4> QED
        BY <1>1, <2>3, <2>4, <4>1, <4>2
    <3> QED
      BY <1>1, <2>1, <2>2, <3>1 DEF ReplicaBien, Sembrando
  <2>6. Inv'
    BY <1>0, <2>1, <2>2, <2>3, <2>4, <2>5, SoloReplica
  <2>7. \A p \in Planes : rel'[p] # rel[p] => Catalogo[p] # {} /\ Catalogo[p] \subseteq rel'[p]
    BY <1>1, <2>3
  <2> QED
    BY <2>4, <2>6, <2>7
<1>3. CASE rel[i.plan] \cap i.missing # {}
  <2>1. /\ replica' = [replica EXCEPT ![r] = Caida] /\ planes' = planes /\ rel' = rel
        /\ UNCHANGED <<entorno, usos, fallas>>
    BY <1>3 DEF SeedPlanFuncionesFromCatalog
  <2> QED
    BY <1>0, <2>1, CaidaTipo, SoloReplica
<1> QED
  BY <1>2, <1>3

-----------------------------------------------------------------------------
(* The steps of a backup, and the plans around it.                         *)

LEMMA SoloTarea ==
  ASSUME Inv, NEW t \in Tareas, NEW j \in Tarea,
         tarea' = [tarea EXCEPT ![t] = j], TareaBien(j, backups),
         UNCHANGED <<entorno, semilla, replica, plan, backups, respondidos, fallas>>,
         peticiones' \in 0..MaxPeticiones
  PROVE  Inv'
<1>1. tarea \in [Tareas -> Tarea]
  BY DEF Inv, TypeOK
<1>2. TypeOK'
  BY <1>1 DEF Inv, TypeOK, semilla
<1>3. \A o \in Tareas : TareaBien(tarea'[o], backups)
  BY <1>1 DEF Inv
<1> QED
  BY <1>2, <1>3 DEF Inv, semilla

LEMMA SincronizarInv ==
  ASSUME Inv, NEW t \in Tareas, NEW r \in Replicas, NEW u \in Usuarios, NEW c \in Cargas,
         SincronizarBackup(t, r, u, c)
  PROVE  Inv'
<1> DEFINE j == [pc |-> "comprobar", en |-> r, usuario |-> u, carga |-> c, id |-> 0]
<1>1. j \in Tarea /\ TareaBien(j, backups)
  BY DEF Tarea, Pasos, TareaBien
<1>2. peticiones' \in 0..MaxPeticiones
  BY FuncionesAssumption DEF SincronizarBackup, Inv, TypeOK
<1>3. /\ tarea' = [tarea EXCEPT ![t] = j]
      /\ UNCHANGED <<entorno, semilla, replica, plan, backups, respondidos, fallas>>
  BY DEF SincronizarBackup
<1> HIDE DEF j
<1> QED
  BY <1>1, <1>2, <1>3, SoloTarea

LEMMA ComprobarInv ==
  ASSUME Inv, NEW t \in Tareas, Comprobar(t) \/ AssertBackupPayloadShape(t)
  PROVE  Inv'
<1> DEFINE i == tarea[t]
           j == [i EXCEPT !.pc = "guardar"]
<1>0. /\ tarea \in [Tareas -> Tarea] /\ i \in Tarea /\ TareaBien(i, backups) /\ i.pc # "libre"
      /\ UNCHANGED <<entorno, semilla, replica, plan, backups, respondidos, fallas>>
      /\ peticiones' \in 0..MaxPeticiones
  BY DEF Comprobar, AssertBackupPayloadShape, Inv, TypeOK
<1>1. j \in Tarea /\ j.pc = "guardar" /\ j.usuario = i.usuario /\ j.carga = i.carga
  BY <1>0 DEF Tarea, Pasos
<1>2. tarea' = [tarea EXCEPT ![t] = j] \/ tarea' = [tarea EXCEPT ![t] = Libre]
  BY <1>0 DEF Comprobar, AssertBackupPayloadShape
<1> HIDE DEF j
<1>3. TareaBien(j, backups)
  BY <1>0, <1>1 DEF TareaBien
<1> QED
  BY <1>0, <1>1, <1>2, <1>3, LibreTipo, SoloTarea

LEMMA GuardarBackupInv ==
  ASSUME Inv, NEW t \in Tareas, SincronizarBackupDesdeApp(t)
  PROVE  Inv'
<1> DEFINE i == tarea[t]
           n == Len(backups) + 1
           e == [usuario |-> i.usuario, payloadJson |-> i.carga]
           j == [i EXCEPT !.pc = "responder", !.id = n]
<1>0. /\ tarea \in [Tareas -> Tarea] /\ i \in Tarea /\ i.pc = "guardar" /\ TareaBien(i, backups)
      /\ backups \in Seq(FilaBackup) /\ backups' = Append(backups, e)
      /\ tarea' = [tarea EXCEPT ![t] = j]
      /\ UNCHANGED <<entorno, semilla, replica, plan, respondidos, peticiones, fallas>>
  BY DEF SincronizarBackupDesdeApp, IdNuevo, Inv, TypeOK
<1>1. i.usuario \in Usuarios /\ i.carga \in Cargas /\ e \in FilaBackup
  BY <1>0 DEF TareaBien, FilaBackup
<1>2. n \in Nat
  BY <1>0
<1>3. /\ j \in Tarea /\ j.pc = "responder" /\ j.id = n /\ j.usuario = i.usuario /\ j.carga = i.carga
  BY <1>0, <1>2 DEF Tarea, Pasos
<1>4. /\ backups' \in Seq(FilaBackup) /\ n \in DOMAIN backups' /\ backups'[n] = e
      /\ \A m \in DOMAIN backups : m \in DOMAIN backups' /\ backups'[m] = backups[m]
  BY <1>0, <1>1, AppendProperties
<1>5. e = [usuario |-> j.usuario, payloadJson |-> j.carga]
  BY <1>3
<1> HIDE DEF j, e, n
<1>6. TareaBien(j, backups')
  BY <1>1, <1>3, <1>4, <1>5 DEF TareaBien
<1>7. ASSUME NEW o \in Tareas PROVE TareaBien(tarea'[o], backups')
  <2>1. CASE o = t
    BY <1>0, <1>6, <2>1
  <2>2. CASE o # t
    <3>1. tarea'[o] = tarea[o] /\ TareaBien(tarea[o], backups)
      BY <1>0, <2>2 DEF Inv
    <3> QED
      BY <1>4, <3>1 DEF TareaBien
  <2> QED
    BY <2>1, <2>2
<1>8. \A b \in respondidos : b.id \in DOMAIN backups
  BY DEF Inv, TypeOK
<1>9. TypeOK'
  <2>1. respondidos \subseteq [id: DOMAIN backups', usuario: Usuarios, carga: Cargas]
    BY <1>4 DEF Inv, TypeOK
  <2> QED
    BY <1>0, <1>3, <1>4, <2>1 DEF Inv, TypeOK, semilla
<1>10. \A b \in respondidos' : backups'[b.id] = [usuario |-> b.usuario, payloadJson |-> b.carga]
  BY <1>0, <1>4, <1>8 DEF Inv
<1> QED
  BY <1>0, <1>7, <1>9, <1>10 DEF Inv, semilla

LEMMA ResponderInv ==
  ASSUME Inv, NEW t \in Tareas, Responder(t)
  PROVE  Inv'
<1> DEFINE i == tarea[t]
           b == [id |-> i.id, usuario |-> i.usuario, carga |-> i.carga]
<1>0. /\ tarea \in [Tareas -> Tarea] /\ i.pc = "responder" /\ TareaBien(i, backups)
      /\ respondidos' = respondidos \cup {b} /\ tarea' = [tarea EXCEPT ![t] = Libre]
      /\ UNCHANGED <<entorno, semilla, replica, plan, backups, peticiones, fallas>>
  BY DEF Responder, Inv, TypeOK
<1>1. /\ b \in [id: DOMAIN backups, usuario: Usuarios, carga: Cargas]
      /\ backups[b.id] = [usuario |-> b.usuario, payloadJson |-> b.carga]
  BY <1>0 DEF TareaBien
<1> HIDE DEF b
<1>2. TypeOK'
  BY <1>0, <1>1, LibreTipo DEF Inv, TypeOK, semilla
<1>3. \A o \in Tareas : TareaBien(tarea'[o], backups)
  BY <1>0, LibreTipo DEF Inv
<1> QED
  BY <1>0, <1>1, <1>2, <1>3 DEF Inv, semilla

LEMMA CaerInv ==
  ASSUME Inv, NEW r \in Replicas, Caer(r)
  PROVE  Inv'
<1>1. /\ replica' = [replica EXCEPT ![r] = Caida]
      /\ tarea' = [t \in Tareas |-> IF tarea[t].en = r THEN Libre ELSE tarea[t]]
      /\ UNCHANGED <<entorno, semilla, plan, backups, respondidos, peticiones>>
      /\ fallas' \in 0..MaxFallas
      /\ replica \in [Replicas -> Replica] /\ tarea \in [Tareas -> Tarea]
  BY FuncionesAssumption DEF Caer, Inv, TypeOK
<1>2. TypeOK'
  BY <1>1, CaidaTipo, LibreTipo DEF Inv, TypeOK, semilla
<1>3. \A o \in Replicas : ReplicaBien(replica'[o], planes, rel)
  BY <1>1, CaidaTipo DEF Inv
<1>4. \A o \in Tareas : TareaBien(tarea'[o], backups)
  BY <1>1, LibreTipo DEF Inv
<1> QED
  BY <1>1, <1>2, <1>3, <1>4 DEF Inv, semilla

LEMMA AgregarPlanInv ==
  ASSUME Inv, NEW p \in Planes, AgregarPlan(p)
  PROVE  Inv'
<1>1. /\ planes' = planes \cup {p} /\ planes # {} /\ rel' = rel
      /\ UNCHANGED <<entorno, rel, replica, usos, fallas>>
  BY DEF AgregarPlan
<1>2. TypeOK'
  <2>1. plan' \in [Usuarios -> planes' \cup {Nada}]
    BY <1>1 DEF Inv, TypeOK, usos
  <2> QED
    BY <1>1, <2>1 DEF Inv, TypeOK, usos
<1>3. \A o \in Replicas : ReplicaBien(replica[o], planes', rel)
  BY <1>1, ReplicaSigue DEF Inv
<1> QED
  BY <1>1, <1>2, <1>3 DEF Inv, usos

LEMMA AsignarPlanInv ==
  ASSUME Inv, NEW u \in Usuarios, NEW p \in Planes, AsignarPlan(u, p)
  PROVE  Inv'
<1>1. /\ plan' = [plan EXCEPT ![u] = p] /\ p \in planes
      /\ UNCHANGED <<entorno, semilla, replica, backups, tarea, respondidos, fallas>>
      /\ peticiones' \in 0..MaxPeticiones
  BY FuncionesAssumption DEF AsignarPlan, Inv, TypeOK
<1>2. TypeOK'
  BY <1>1 DEF Inv, TypeOK, semilla
<1> QED
  BY <1>1, <1>2 DEF Inv, semilla

LEMMA Paso == Inv /\ [Next]_vars => Inv'
<1> SUFFICES ASSUME Inv, [Next]_vars PROVE Inv'
  OBVIOUS
<1>1. ASSUME NEW r \in Replicas, Arranque(r) PROVE Inv'
  BY <1>1, ArrancarInv, SembrarInv, LeerFuncionesInv, GuardarFuncionesInv DEF Arranque
<1>2. ASSUME NEW t \in Tareas, Avanzar(t) PROVE Inv'
  BY <1>2, ComprobarInv, GuardarBackupInv, ResponderInv DEF Avanzar
<1>3. CASE UNCHANGED vars
  BY <1>3 DEF vars, Inv, TypeOK
<1> QED
  BY <1>1, <1>2, <1>3, CaerInv, AgregarPlanInv, AsignarPlanInv, SincronizarInv DEF Next

LEMMA SpecInv == Spec => []Inv
  BY Inicio, Paso, PTL DEF Spec

(* Every variable keeps its type; a subscription has a plan that exists,   *)
(* and an answer names a backup that is stored.                            *)
THEOREM FuncionesTipo == Spec => []TypeOK
<1>1. Inv => TypeOK
  BY DEF Inv
<1> QED
  BY <1>1, SpecInv, PTL

(* However many processes start at once, and whatever dies: when one of    *)
(* them serves, every seeded plan has every function of the catalogue      *)
(* (seedPlanFuncionesFromCatalog).                                         *)
THEOREM CatalogoSembrado == Spec => []CatalogoCompleto
<1>1. Inv => CatalogoCompleto
  BY DEF Inv, CatalogoCompleto, Fase, ReplicaBien, Sembrando
<1> QED
  BY <1>1, SpecInv, PTL

(* No step of a start takes a function from a plan, not even for a moment  *)
(* (obtenerFuncionesHabilitadasParaPlan falls back on the catalogue until  *)
(* the first row of the plan is stored).                                   *)
THEOREM FuncionesQuedan == Spec => FuncionesNoSePierden
<1> DEFINE Quedan ==
      \A p \in planes : FuncionesHabilitadasParaPlan(p) \subseteq FuncionesHabilitadasParaPlan(p)'
<1>1. Inv /\ [Next]_vars => [Quedan]_vars
  <2> SUFFICES ASSUME Inv, Next, NEW p \in planes
               PROVE  FuncionesHabilitadasParaPlan(p) \subseteq FuncionesHabilitadasParaPlan(p)'
    OBVIOUS
  <2>1. p \in Planes
    BY DEF Inv, TypeOK
  <2>2. CASE rel' = rel
    BY <2>2 DEF FuncionesHabilitadasParaPlan
  <2>3. CASE rel' # rel
    <3>1. PICK r \in Replicas : SeedPlanFuncionesFromCatalog(r)
      BY <2>3 DEF Next, Arranque, Arrancar, Contar, SeedPlanesIfEmpty, LeerPlanes, LeerFunciones,
            Escuchar, Caer, AgregarPlan, AsignarPlan, Avanzar, Comprobar, AssertBackupPayloadShape,
            SincronizarBackupDesdeApp, Responder, SincronizarBackup, semilla
    <3>2. /\ rel[p] \subseteq rel'[p]
          /\ rel'[p] # rel[p] => Catalogo[p] # {} /\ Catalogo[p] \subseteq rel'[p]
      BY <2>1, <3>1, GuardarFuncionesInv
    <3> QED
      BY <3>2 DEF FuncionesHabilitadasParaPlan
  <2> QED
    BY <2>2, <2>3
<1> QED
  BY <1>1, SpecInv, PTL DEF Spec, FuncionesNoSePierden

(* A backup whose request was answered is there with what was sent, and in *)
(* the list until MaxLista newer ones of the same user                     *)
(* (sincronizarBackupDesdeApp, listBackupsUsuario).                        *)
THEOREM BackupRecuperable == Spec => []BackupSeRecupera
<1>1. Inv => BackupSeRecupera
  <2> SUFFICES ASSUME Inv, NEW b \in respondidos, AssertUsuarioTieneFuncion(b.usuario, BackupNube)
               PROVE  /\ ObtenerBackupJsonParaUsuario(b.usuario, b.id) = b.carga
                      /\ Cardinality(MasNuevos(b)) < MaxLista => b.id \in ListBackupsUsuario(b.usuario)
    BY DEF BackupSeRecupera
  <2> DEFINE ids == DeUsuario(b.usuario)
  <2>1. /\ b.id \in DOMAIN backups /\ backups[b.id].usuario = b.usuario
        /\ backups[b.id].payloadJson = b.carga
    <3>1. b \in [id: DOMAIN backups, usuario: Usuarios, carga: Cargas]
      BY DEF Inv, TypeOK
    <3>2. backups[b.id] = [usuario |-> b.usuario, payloadJson |-> b.carga]
      BY DEF Inv
    <3>3. /\ backups[b.id].usuario = b.usuario
          /\ backups[b.id].payloadJson = b.carga
      BY <3>2
    <3> QED
      BY <3>1, <3>3
  <2>2. b.id \in ids
    BY <2>1 DEF DeUsuario
  <2>3. ObtenerBackupJsonParaUsuario(b.usuario, b.id) = b.carga
    BY <2>1, <2>2 DEF ObtenerBackupJsonParaUsuario
  <2>4. ASSUME Cardinality(MasNuevos(b)) < MaxLista PROVE b.id \in PrimerosHasta(ids)
    <3>1. IsFiniteSet(ids) /\ ids \subseteq Nat
      <4>1. backups \in Seq(FilaBackup) /\ IsFiniteSet(1..Len(backups))
        BY FS_Interval DEF Inv, TypeOK
      <4>2. ids \in SUBSET (1..Len(backups))
        BY <4>1 DEF DeUsuario
      <4> QED
        BY <4>1, <4>2, FS_Subset
    <3>2. MasNuevos(b) \in SUBSET ids
      BY DEF MasNuevos
    <3>3. IsFiniteSet(MasNuevos(b)) /\ Cardinality(MasNuevos(b)) \in Nat /\ b.id \notin MasNuevos(b)
      BY <2>2, <3>1, <3>2, FS_Subset, FS_CardinalityType DEF MasNuevos
    <3>4. {m \in ids : m >= b.id} = MasNuevos(b) \cup {b.id}
      <4>1. \A m \in ids : m >= b.id <=> m > b.id \/ m = b.id
        BY <2>2, <3>1
      <4> QED
        BY <2>2, <4>1 DEF MasNuevos
    <3>5. Cardinality({m \in ids : m >= b.id}) = Cardinality(MasNuevos(b)) + 1
      BY <3>3, <3>4, FS_AddElement
    <3>6. Cardinality({m \in ids : m >= b.id}) <= MaxLista
      <4> HIDE DEF ids
      <4> QED
        BY <2>4, <3>3, <3>5, FuncionesAssumption
    <3> QED
      BY <2>2, <3>6 DEF PrimerosHasta
  <2> QED
    BY <2>3, <2>4 DEF ListBackupsUsuario
<1> QED
  BY <1>1, SpecInv, PTL

=============================================================================
