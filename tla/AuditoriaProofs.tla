--------------------------- MODULE AuditoriaProofs --------------------------
(***************************************************************************)
(* For any rows, requests, size of the pool and failures: the audit trail  *)
(* misses no committed change of an audited column, unless the insert of   *)
(* its entry failed; and, in the second part, its entries of a row are a   *)
(* chain that ends at what the row has.                                    *)
(***************************************************************************)
EXTENDS Auditoria, SequenceTheorems, TLAPS

ConAntes == {"auditar", "escribir"}

(* What a request holds at each step.                                      *)
TareaBien(i, filas) ==
  /\ i.pc = "libre" => i = Libre
  /\ i.pc # "libre" =>
       /\ i.fila \in Filas /\ i.entity \in Fila
       /\ i.action # "CREATE" => filas[i.fila] \in Fila
       /\ i.action # "CREATE" /\ i.pc \in ConAntes => i.databaseEntity \in Fila
  /\ i.pc = "insertar" => i.action = "CREATE"

(* The entry of a write that is about to commit is in the log, waiting for *)
(* it, unless there was nothing to say or the insert failed.               *)
RegistroBien(i, entradas, sin) ==
  /\ i.registro # 0 =>
       /\ i.pc = "escribir" /\ i.registro \in DOMAIN entradas
       /\ entradas[i.registro] = Registro(i)
  /\ i.pc = "escribir" /\ i.registro = 0 => i.fila \in sin \/ SeOmite(i)

TareasOK ==
  \A t \in Tareas : TareaBien(tarea[t], fila) /\ RegistroBien(tarea[t], log, sinRegistro)

(* No two writes have the same entry.                                      *)
RegistroPropio ==
  \A t, o \in Tareas :
    tarea[t].registro # 0 /\ tarea[t].registro = tarea[o].registro => t = o

Inv == TypeOK /\ TareasOK /\ RegistroPropio

-----------------------------------------------------------------------------
LEMMA LibreEsTarea ==
  Libre \in Tarea /\ Libre.pc = "libre" /\ Libre.registro = 0 /\ Libre.fila = Nada
BY DEF Libre, Tarea, Pasos, AuditActions

LEMMA ToPlainSnapshot ==
  ASSUME NEW f \in Fila, NEW b \in BOOLEAN PROVE ToPlain(f, b) \in Snapshot
BY DEF Fila, ToPlain, Snapshot

LEMMA NadaNoEs == Nada \notin Fila /\ Nada \notin Filas
BY AuditoriaAssumption

LEMMA RegistroTipo ==
  ASSUME NEW i \in Tarea, TareaBien(i, fila), i.pc = "auditar"
  PROVE  Registro(i) \in AuditLog
<1>1. /\ i.fila \in Filas /\ i.entity \in Fila /\ i.action \in AuditActions
      /\ i.action # "CREATE" => i.databaseEntity \in Fila
      /\ i.procesada \in BOOLEAN
  BY DEF TareaBien, ConAntes, Tarea
<1>2. BeforePlain(i) \in Snapshot \cup {Nada} /\ AfterPlain(i) \in Snapshot \cup {Nada}
  BY <1>1, ToPlainSnapshot DEF BeforePlain, AfterPlain
<1>3. ResolvedUserId(i) \in Autores \cup Filas \cup {0}
  BY <1>1 DEF ResolvedUserId, GetUserIdFromToken, Tarea
<1> QED
  BY <1>1, <1>2, <1>3 DEF Registro, AuditLog

(* What the UPDATE or the removal of a row leaves of each column.          *)
LEMMA FilaEscritaColumnas ==
  ASSUME NEW i, i.entity \in Fila, i.databaseEntity \in Fila, fila[i.fila] \in Fila,
         reloj \in Momentos, i.action \in {"UPDATE", "SOFT_DELETE"}
  PROVE  /\ FilaEscrita(i) \in Fila
         /\ i.action = "SOFT_DELETE" =>
              FilaEscrita(i).borrada /\ FilaEscrita(i).visible = fila[i.fila].visible
         /\ i.action = "UPDATE" => \A c \in Columnas \ {"updatedAt"} :
              FilaEscrita(i)[c] = IF i.entity[c] # i.databaseEntity[c] THEN i.entity[c]
                                  ELSE fila[i.fila][c]
<1> DEFINE ahora == [fila[i.fila] EXCEPT !.updatedAt = reloj + 1]
<1>1. /\ ahora \in Fila
      /\ \A c \in Columnas \ {"updatedAt"} : ahora[c] = fila[i.fila][c]
      /\ ahora.visible = fila[i.fila].visible
  BY DEF Fila, Columnas, Momentos
<1>2. CASE i.action = "SOFT_DELETE"
  <2>1. FilaEscrita(i) = [ahora EXCEPT !.borrada = TRUE]
    BY <1>2 DEF FilaEscrita
  <2> HIDE DEF ahora
  <2>2. FilaEscrita(i) \in Fila /\ FilaEscrita(i).borrada /\ FilaEscrita(i).visible = ahora.visible
    BY <1>1, <2>1 DEF Fila
  <2> QED
    BY <1>1, <1>2, <2>2
<1>3. CASE i.action = "UPDATE"
  <2>1. FilaEscrita(i) = [c \in Columnas |-> IF i.entity[c] # i.databaseEntity[c] THEN i.entity[c]
                                             ELSE ahora[c]]
    BY <1>3 DEF FilaEscrita
  <2> HIDE DEF ahora
  <2>2. FilaEscrita(i) \in Fila
    BY <1>1, <2>1 DEF Fila, Columnas
  <2> QED
    BY <1>1, <1>3, <2>1, <2>2
<1> QED
  BY <1>2, <1>3

LEMMA FilaEscritaTipo ==
  ASSUME NEW i, i.entity \in Fila, reloj \in Momentos, i.action \in AuditActions,
         i.action = "CREATE" \/ (i.databaseEntity \in Fila /\ fila[i.fila] \in Fila)
  PROVE  FilaEscrita(i) \in Fila
<1>1. CASE i.action = "CREATE"
  BY <1>1 DEF FilaEscrita
<1>2. CASE i.action # "CREATE"
  BY <1>2, FilaEscritaColumnas DEF AuditActions
<1> QED
  BY <1>1, <1>2

(* A write without an entry changes nothing but dates.                     *)
LEMMA OmitidaInvisible ==
  ASSUME NEW i, i.entity \in Fila, i.databaseEntity \in Fila, fila[i.fila] \in Fila,
         reloj \in Momentos, SeOmite(i)
  PROVE  Firme(FilaEscrita(i)) = Firme(fila[i.fila])
<1>1. /\ i.entity.visible = i.databaseEntity.visible
      /\ i.entity.borrada = i.databaseEntity.borrada
      /\ i.action = "UPDATE"
  BY DEF SeOmite, SinCambioVisible, Legible
<1>2. /\ FilaEscrita(i).visible = fila[i.fila].visible
      /\ FilaEscrita(i).borrada = fila[i.fila].borrada
  BY <1>1, FilaEscritaColumnas DEF Columnas
<1> QED
  BY <1>2 DEF Firme

-----------------------------------------------------------------------------
LEMMA Inicio == Init => Inv
<1> SUFFICES ASSUME Init PROVE Inv
  OBVIOUS
<1>1. TypeOK
  BY LibreEsTarea, AuditoriaAssumption DEF Init, TypeOK, Momentos
<1> QED
  BY <1>1, LibreEsTarea
     DEF Init, Inv, TareasOK, TareaBien, RegistroBien, RegistroPropio

(* One request goes on to j; the rows stay and the log only grows.         *)
LEMMA PasoSola ==
  ASSUME Inv, NEW t \in Tareas, NEW j \in Tarea,
         tarea' = [tarea EXCEPT ![t] = j],
         UNCHANGED fila, sinRegistro \subseteq sinRegistro', sinRegistro' \subseteq Filas,
         log' \in Seq(AuditLog), DOMAIN log \subseteq DOMAIN log',
         \A n \in DOMAIN log : log'[n] = log[n],
         TareaBien(j, fila), RegistroBien(j, log', sinRegistro'),
         j.registro \in {0, tarea[t].registro} \/ j.registro \notin DOMAIN log,
         solapadas' \subseteq Filas, reloj' \in Momentos,
         peticiones' \in 0..MaxPeticiones, fallas' \in 0..MaxFallas
  PROVE  Inv'
<1>1. tarea \in [Tareas -> Tarea]
  BY DEF Inv, TypeOK
<1>2. tarea'[t] = j /\ \A o \in Tareas \ {t} : tarea'[o] = tarea[o]
  BY <1>1
<1>3. TypeOK'
  BY <1>1 DEF Inv, TypeOK
<1>5. \A i : RegistroBien(i, log, sinRegistro) => RegistroBien(i, log', sinRegistro')
  BY DEF RegistroBien
<1>6. TareasOK'
  BY <1>2, <1>5 DEF Inv, TareasOK
<1>7. \A o \in Tareas : tarea[o].registro # 0 => tarea[o].registro \in DOMAIN log
  BY DEF Inv, TareasOK, RegistroBien
<1>8. RegistroPropio'
  BY <1>2, <1>7 DEF Inv, RegistroPropio
<1> QED
  BY <1>3, <1>6, <1>8 DEF Inv

LEMMA PasoPedir ==
  ASSUME Inv, NEW t \in Tareas, NEW a \in AuditActions, NEW e \in Filas,
         NEW ctx \in Autores \cup {Nada}, NEW entity \in Fila,
         a # "CREATE" => fila[e] \in Fila,
         Pedir(t, a, e, ctx, entity)
  PROVE  Inv'
<1> DEFINE j == [Libre EXCEPT !.pc = "conectar", !.action = a, !.fila = e, !.ctx = ctx,
                              !.entity = entity]
<1>1. j \in Tarea /\ j.registro = 0 /\ j.pc = "conectar" /\ j.fila = e /\ j.entity = entity
      /\ j.action = a
  BY DEF Libre, Tarea, Pasos
<1>2. tarea' = [tarea EXCEPT ![t] = j]
  BY DEF Pedir
<1> HIDE DEF j
<1>3. TareaBien(j, fila) /\ RegistroBien(j, log', sinRegistro')
  BY <1>1 DEF TareaBien, RegistroBien, ConAntes
<1>4. peticiones' \in 0..MaxPeticiones
  BY AuditoriaAssumption DEF Pedir, Inv, TypeOK
<1>5. solapadas' \subseteq Filas
  BY DEF Pedir, Inv, TypeOK
<1> QED
  BY <1>1, <1>2, <1>3, <1>4, <1>5, PasoSola DEF Pedir, Inv, TypeOK

(* A change of one column keeps the row's shape, and does not remove it.   *)
LEMMA CambiosBien ==
  ASSUME NEW f \in Fila, NEW g \in Cambios(f)
  PROVE  g \in Fila /\ g.borrada = f.borrada
<1>1. CASE \E c \in {"visible", "oculta"}, v \in Valores : g = [f EXCEPT ![c] = v]
  BY <1>1 DEF Fila
<1>2. CASE \E x \in Fechas \cup {Nada} : g = [f EXCEPT !.fecha = x]
  BY <1>2 DEF Fila
<1> QED
  BY <1>1, <1>2 DEF Cambios

LEMMA PasoPeticion ==
  ASSUME Inv, NEW t \in Tareas, NEW e \in Filas, NEW ctx \in Autores \cup {Nada},
         Crear(t, e, ctx) \/ Editar(t, e, ctx) \/ Quitar(t, e, ctx)
  PROVE  Inv'
<1>1. fila[e] # Nada => fila[e] \in Fila
  BY DEF Inv, TypeOK
<1>2. CASE Crear(t, e, ctx)
  <2>1. \A entity \in Nuevas : entity \in Fila
    BY AuditoriaAssumption
  <2> QED
    BY <1>2, <2>1, PasoPedir DEF Crear, AuditActions
<1>3. CASE Editar(t, e, ctx)
  <2>1. fila[e] \in Fila
    BY <1>1, <1>3 DEF Editar
  <2>2. \A entity \in Cambios(fila[e]) : entity \in Fila
    BY <2>1, CambiosBien
  <2> QED
    BY <1>3, <2>1, <2>2, PasoPedir DEF Editar, AuditActions
<1>4. CASE Quitar(t, e, ctx)
  <2>1. fila[e] \in Fila
    BY <1>1, <1>4 DEF Quitar
  <2>2. [fila[e] EXCEPT !.borrada = TRUE] \in Fila
    BY <2>1 DEF Fila
  <2> QED
    BY <1>4, <2>1, <2>2, PasoPedir DEF Quitar, AuditActions
<1> QED
  BY <1>2, <1>3, <1>4

LEMMA PasoConectar == ASSUME Inv, NEW t \in Tareas, Conectar(t) PROVE Inv'
<1> DEFINE i == tarea[t]
<1>0. /\ i \in Tarea /\ TareaBien(i, fila) /\ RegistroBien(i, log, sinRegistro)
      /\ i.pc = "conectar" /\ i.registro = 0
      /\ tarea \in [Tareas -> Tarea]
  BY DEF Inv, TypeOK, TareasOK, Conectar, En, RegistroBien
<1>1. CASE i.action = "CREATE" /\ tarea' = [tarea EXCEPT ![t].pc = "insertar", ![t].conexion = TRUE]
  <2> DEFINE j == [i EXCEPT !.pc = "insertar", !.conexion = TRUE]
  <2>1. tarea' = [tarea EXCEPT ![t] = j]
    BY <1>0, <1>1
  <2>2. /\ j \in Tarea /\ j.pc = "insertar" /\ j.action = i.action /\ j.fila = i.fila
        /\ j.entity = i.entity /\ j.registro = 0
    BY <1>0 DEF Tarea, Pasos
  <2> HIDE DEF j
  <2>3. TareaBien(j, fila) /\ RegistroBien(j, log', sinRegistro')
    BY <1>0, <1>1, <2>2 DEF TareaBien, RegistroBien, ConAntes
  <2> QED
    BY <2>1, <2>2, <2>3, PasoSola DEF Conectar, Inv, TypeOK
<1>2. CASE /\ i.action # "CREATE"
           /\ tarea' = [tarea EXCEPT ![t].pc = "auditar", ![t].conexion = TRUE,
                                     ![t].databaseEntity = fila[i.fila]]
  <2> DEFINE j == [i EXCEPT !.pc = "auditar", !.conexion = TRUE, !.databaseEntity = fila[i.fila]]
  <2>1. tarea' = [tarea EXCEPT ![t] = j]
    BY <1>0, <1>2
  <2>2. fila[i.fila] \in Fila
    BY <1>0, <1>2 DEF TareaBien
  <2>3. /\ j \in Tarea /\ j.pc = "auditar" /\ j.action = i.action /\ j.fila = i.fila
        /\ j.entity = i.entity /\ j.registro = 0 /\ j.databaseEntity = fila[i.fila]
    BY <1>0, <2>2 DEF Tarea, Pasos
  <2> HIDE DEF j
  <2>4. TareaBien(j, fila) /\ RegistroBien(j, log', sinRegistro')
    BY <1>0, <1>2, <2>2, <2>3 DEF TareaBien, RegistroBien, ConAntes
  <2> QED
    BY <2>1, <2>3, <2>4, PasoSola DEF Conectar, Inv, TypeOK
<1>3. CASE Liberar(t)
  <2>1. TareaBien(Libre, fila) /\ RegistroBien(Libre, log', sinRegistro')
    BY LibreEsTarea DEF TareaBien, RegistroBien
  <2> QED
    BY <1>3, <2>1, LibreEsTarea, PasoSola DEF Liberar, Conectar, Inv, TypeOK
<1> QED
  BY <1>1, <1>2, <1>3 DEF Conectar

(* The steps that leave the log as it is and change only the pc.           *)
LEMMA PasoPc ==
  ASSUME Inv, NEW t \in Tareas, NEW p \in ConAntes,
         tarea[t].pc \in {"insertar", "auditar"},
         NEW x \in Fila,
         tarea' = [tarea EXCEPT ![t] = [tarea[t] EXCEPT !.pc = p, !.entity = x]],
         p = "escribir" => x = tarea[t].entity,
         UNCHANGED <<fila, log, reloj, peticiones, solapadas>>, fallas' \in 0..MaxFallas,
         sinRegistro' = sinRegistro \/ sinRegistro' = sinRegistro \cup {tarea[t].fila},
         p = "escribir" => SeOmite(tarea[t]) \/ tarea[t].fila \in sinRegistro'
  PROVE  Inv'
<1> DEFINE i == tarea[t]
           j == [i EXCEPT !.pc = p, !.entity = x]
<1>0. /\ i \in Tarea /\ TareaBien(i, fila) /\ i.registro = 0 /\ i.fila \in Filas
      /\ tarea \in [Tareas -> Tarea]
  BY DEF Inv, TypeOK, TareasOK, RegistroBien, TareaBien
<1>1. tarea' = [tarea EXCEPT ![t] = j]
  BY <1>0
<1>2. /\ j \in Tarea /\ j.pc = p /\ j.action = i.action /\ j.fila = i.fila
      /\ j.entity = x /\ j.registro = 0 /\ j.databaseEntity = i.databaseEntity
      /\ j.procesada = i.procesada
  BY <1>0 DEF Tarea, Pasos, ConAntes
<1> HIDE DEF j
<1>3. TareaBien(j, fila)
  BY <1>0, <1>2 DEF TareaBien, ConAntes
<1>4. RegistroBien(j, log', sinRegistro')
  BY <1>2 DEF RegistroBien, SeOmite, SinCambioVisible
<1>5. sinRegistro \subseteq sinRegistro' /\ sinRegistro' \subseteq Filas
  BY <1>0 DEF Inv, TypeOK
<1> QED
  BY <1>1, <1>2, <1>3, <1>4, <1>5, PasoSola DEF Inv, TypeOK

LEMMA PasoInsertar ==
  ASSUME Inv, NEW t \in Tareas, Insertar(t)
  PROVE  tarea' = [tarea EXCEPT ![t] =
           [tarea[t] EXCEPT !.pc = "auditar",
                            !.entity = [tarea[t].entity EXCEPT !.updatedAt = reloj]]]
<1>1. tarea \in [Tareas -> Tarea] /\ tarea[t] \in Tarea
  BY DEF Inv, TypeOK
<1> QED
  BY <1>1 DEF Insertar, Tarea

LEMMA PasoSinRegistro ==
  ASSUME Inv, NEW t \in Tareas, Insertar(t) \/ Omitir(t) \/ AuditarFalla(t) PROVE Inv'
<1>1. fallas \in 0..MaxFallas /\ (fallas < MaxFallas => fallas + 1 \in 0..MaxFallas)
  BY AuditoriaAssumption DEF Inv, TypeOK
<1>2. tarea[t].pc \in ConAntes \cup {"insertar"} =>
        /\ tarea[t].entity \in Fila /\ tarea[t] \in Tarea
        /\ tarea[t] = [tarea[t] EXCEPT !.entity = tarea[t].entity]
        /\ \A p : [tarea[t] EXCEPT !.pc = p] = [tarea[t] EXCEPT !.pc = p, !.entity = tarea[t].entity]
  BY DEF Inv, TypeOK, TareasOK, TareaBien, ConAntes, Tarea
<1>3. ASSUME Insertar(t) PROVE Inv'
  <2> DEFINE x == [tarea[t].entity EXCEPT !.updatedAt = reloj]
  <2>1. x \in Fila
    BY <1>2, <1>3 DEF Insertar, En, ConAntes, Fila, Inv, TypeOK
  <2>2. tarea' = [tarea EXCEPT ![t] = [tarea[t] EXCEPT !.pc = "auditar", !.entity = x]]
    BY <1>3, PasoInsertar
  <2> HIDE DEF x
  <2> QED
    BY <1>1, <1>3, <2>1, <2>2, PasoPc DEF Insertar, En, ConAntes
<1>4. ASSUME Omitir(t) PROVE Inv'
  <2>1. tarea' = [tarea EXCEPT ![t] = [tarea[t] EXCEPT !.pc = "escribir", !.entity = tarea[t].entity]]
    BY <1>2, <1>4 DEF Omitir, En, Inv, TypeOK, ConAntes
  <2> QED
    BY <1>1, <1>2, <1>4, <2>1, PasoPc DEF Omitir, En, ConAntes
<1>5. ASSUME AuditarFalla(t) PROVE Inv'
  <2>1. tarea' = [tarea EXCEPT ![t] = [tarea[t] EXCEPT !.pc = "escribir", !.entity = tarea[t].entity]]
    BY <1>2, <1>5 DEF AuditarFalla, En, Inv, TypeOK, ConAntes
  <2> QED
    BY <1>1, <1>2, <1>5, <2>1, PasoPc DEF AuditarFalla, En, ConAntes
<1> QED
  BY <1>3, <1>4, <1>5

LEMMA PasoAuditar == ASSUME Inv, NEW t \in Tareas, Auditar(t) PROVE Inv'
<1> DEFINE i == tarea[t]
           j == [i EXCEPT !.pc = "escribir", !.registro = Len(log) + 1]
<1>0. /\ i \in Tarea /\ TareaBien(i, fila) /\ i.registro = 0 /\ i.pc = "auditar" /\ i.fila \in Filas
      /\ tarea \in [Tareas -> Tarea] /\ log \in Seq(AuditLog)
  BY DEF Inv, TypeOK, TareasOK, RegistroBien, TareaBien, Auditar, En
<1>1. tarea' = [tarea EXCEPT ![t] = j]
  BY <1>0 DEF Auditar
<1>2. Registro(i) \in AuditLog
  BY <1>0, RegistroTipo
<1>3. /\ log' = Append(log, Registro(i)) /\ log' \in Seq(AuditLog)
      /\ Len(log) \in Nat /\ Len(log') = Len(log) + 1
      /\ DOMAIN log = 1..Len(log) /\ DOMAIN log' = 1..(Len(log) + 1)
      /\ \A n \in DOMAIN log : log'[n] = log[n]
      /\ log'[Len(log) + 1] = Registro(i) /\ Len(log) + 1 # 0 /\ Len(log) + 1 \notin DOMAIN log
  BY <1>0, <1>2 DEF Auditar
<1>4. /\ j \in Tarea /\ j.pc = "escribir" /\ j.action = i.action /\ j.fila = i.fila
      /\ j.entity = i.entity /\ j.registro = Len(log) + 1
      /\ j.databaseEntity = i.databaseEntity /\ j.ctx = i.ctx /\ j.procesada = i.procesada
  <2>1. Len(log) + 1 \in Nat
    BY <1>3
  <2> QED
    BY <1>0, <2>1 DEF Tarea, Pasos
<1> HIDE DEF j
<1>5. TareaBien(j, fila)
  BY <1>0, <1>4 DEF TareaBien, ConAntes
<1>6. Registro(j) = Registro(i)
  BY <1>4 DEF Registro, BeforePlain, AfterPlain, ResolvedUserId, GetUserIdFromToken
<1>7. RegistroBien(j, log', sinRegistro')
  BY <1>3, <1>4, <1>6 DEF RegistroBien
<1>8. DOMAIN log \subseteq DOMAIN log' /\ j.registro \notin DOMAIN log
  BY <1>3, <1>4
<1>9. /\ UNCHANGED <<fila, reloj, peticiones, fallas, solapadas, sinRegistro>>
      /\ sinRegistro \subseteq Filas /\ solapadas \subseteq Filas /\ reloj \in Momentos
      /\ peticiones \in 0..MaxPeticiones /\ fallas \in 0..MaxFallas
  BY DEF Auditar, Inv, TypeOK
<1>10. log' \in Seq(AuditLog) /\ \A n \in DOMAIN log : log'[n] = log[n]
  BY <1>3
<1>11. j \in Tarea
  BY <1>4
<1> QED
  BY <1>1, <1>5, <1>7, <1>8, <1>9, <1>10, <1>11, PasoSola

-----------------------------------------------------------------------------
(* Closing an entry changes nothing else of the log.                       *)
LEMMA CerrarTipo ==
  ASSUME Inv, NEW t \in Tareas, NEW s \in {"confirmada", "revertida"}, Cerrar(t, s)
  PROVE  /\ log' \in Seq(AuditLog) /\ DOMAIN log' = DOMAIN log
         /\ \A n \in DOMAIN log : n # tarea[t].registro => log'[n] = log[n]
         /\ tarea[t].registro # 0 =>
              /\ tarea[t].registro \in DOMAIN log
              /\ log'[tarea[t].registro] = [log[tarea[t].registro] EXCEPT !.suerte = s]
<1> DEFINE r == tarea[t].registro
<1>1. log \in Seq(AuditLog) /\ (r # 0 => r \in DOMAIN log)
  BY DEF Inv, TypeOK, TareasOK, RegistroBien
<1>2. CASE r = 0
  BY <1>1, <1>2 DEF Cerrar
<1>3. CASE r # 0
  <2>1. log[r] \in AuditLog
    BY <1>1, <1>3
  <2>2. [log[r] EXCEPT !.suerte = s] \in AuditLog
    BY <2>1 DEF AuditLog
  <2>3. log' = [log EXCEPT ![r] = [log[r] EXCEPT !.suerte = s]]
    BY <1>1, <1>3 DEF Cerrar
  <2>4. /\ DOMAIN log = 1..Len(log)
        /\ DOMAIN log' = DOMAIN log /\ log'[r] = [log[r] EXCEPT !.suerte = s]
        /\ \A n \in DOMAIN log : n # r => log'[n] = log[n]
    BY <1>1, <1>3, <2>3
  <2>5. log' \in Seq(AuditLog)
    BY <1>1, <1>3, <2>2, <2>3, <2>4, ExceptSeq
  <2> QED
    BY <1>1, <1>3, <2>4, <2>5
<1> QED
  BY <1>2, <1>3

(* A write ends with its entry closed, and no row disappears.              *)
LEMMA PasoCierre ==
  ASSUME Inv, NEW t \in Tareas, NEW s \in {"confirmada", "revertida"}, Cerrar(t, s),
         NEW j \in Tarea, tarea' = [tarea EXCEPT ![t] = j],
         j.registro = 0, j.pc # "escribir", TareaBien(j, fila'),
         fila' \in [Filas -> Fila \cup {Nada}],
         \A e \in Filas : fila[e] \in Fila => fila'[e] \in Fila,
         UNCHANGED <<solapadas, sinRegistro>>,
         reloj' \in Momentos, peticiones' \in 0..MaxPeticiones, fallas' \in 0..MaxFallas
  PROVE  Inv'
<1>1. /\ tarea \in [Tareas -> Tarea] /\ tarea' \in [Tareas -> Tarea] /\ tarea'[t] = j
      /\ \A o \in Tareas \ {t} : tarea'[o] = tarea[o]
  BY DEF Inv, TypeOK
<1>2. TypeOK'
  BY <1>1, CerrarTipo DEF Inv, TypeOK
<1>3. RegistroPropio'
  BY <1>1 DEF Inv, RegistroPropio
<1>4. TareasOK'
  <2> SUFFICES ASSUME NEW o \in Tareas
               PROVE  /\ TareaBien(tarea'[o], fila')
                      /\ RegistroBien(tarea'[o], log', sinRegistro')
    BY DEF TareasOK
  <2>1. CASE o = t
    BY <1>1, <2>1 DEF RegistroBien
  <2>2. CASE o # t
    <3>1. TareaBien(tarea[o], fila) /\ RegistroBien(tarea[o], log, sinRegistro)
      BY DEF Inv, TareasOK
    <3>2. TareaBien(tarea[o], fila')
      BY <1>1, <2>2, <3>1 DEF TareaBien
    <3>3. tarea[o].registro # 0 => tarea[o].registro # tarea[t].registro
      BY <2>2 DEF Inv, RegistroPropio
    <3>4. /\ DOMAIN log' = DOMAIN log
          /\ \A n \in DOMAIN log : n # tarea[t].registro => log'[n] = log[n]
      BY CerrarTipo
    <3>5. RegistroBien(tarea[o], log', sinRegistro')
      BY <1>1, <2>2, <3>1, <3>3, <3>4 DEF RegistroBien
    <3> QED
      BY <1>1, <2>2, <3>2, <3>5
  <2> QED
    BY <2>1, <2>2
<1> QED
  BY <1>2, <1>3, <1>4 DEF Inv

LEMMA EscribirFila ==
  ASSUME Inv, NEW t \in Tareas, En(t, "escribir")
  PROVE  tarea[t].fila \in Filas /\ FilaEscrita(tarea[t]) \in Fila
BY FilaEscritaTipo DEF Inv, TypeOK, Tarea, TareasOK, TareaBien, ConAntes, En

LEMMA LibreBien == \A filas : TareaBien(Libre, filas)
BY LibreEsTarea DEF TareaBien

(* What a handler that saves again has in hand.                            *)
LEMMA DeNuevo ==
  ASSUME Inv, NEW t \in Tareas, En(t, "escribir"), GuardarDeNuevo(t)
  PROVE  \E j \in Tarea :
           /\ tarea' = [tarea EXCEPT ![t] = j]
           /\ j.registro = 0 /\ j.pc = "conectar" /\ j.action = "UPDATE"
           /\ j.fila = tarea[t].fila /\ j.entity \in Fila
           /\ j.entity.borrada = tarea[t].entity.borrada
           /\ tarea[t].action = "CREATE"
<1> DEFINE i == tarea[t]
<1>1. i \in Tarea /\ i.fila \in Filas /\ i.entity \in Fila
  BY DEF Inv, TypeOK, TareasOK, TareaBien, En
<1>2. PICK entity \in Cambios(i.entity) :
        tarea' = [tarea EXCEPT ![t] =
          [Libre EXCEPT !.pc = "conectar", !.action = "UPDATE", !.fila = i.fila, !.ctx = i.ctx,
                        !.entity = entity, !.procesada = (i.registro # 0)]]
  BY DEF GuardarDeNuevo
<1>3. entity \in Fila /\ entity.borrada = i.entity.borrada
  BY <1>1, CambiosBien
<1> DEFINE j == [Libre EXCEPT !.pc = "conectar", !.action = "UPDATE", !.fila = i.fila,
                              !.ctx = i.ctx, !.entity = entity, !.procesada = (i.registro # 0)]
<1>4. /\ j \in Tarea /\ j.registro = 0 /\ j.pc = "conectar" /\ j.action = "UPDATE"
      /\ j.fila = i.fila /\ j.entity = entity
  BY <1>1, <1>3 DEF Libre, Tarea, Pasos, AuditActions
<1>5. tarea' = [tarea EXCEPT ![t] = j] /\ i.action = "CREATE"
  BY <1>2 DEF GuardarDeNuevo
<1> HIDE DEF j
<1> QED
  BY <1>3, <1>4, <1>5

LEMMA PasoEscribir == ASSUME Inv, NEW t \in Tareas, Escribir(t) PROVE Inv'
<1>1. tarea[t].fila \in Filas /\ FilaEscrita(tarea[t]) \in Fila
  BY EscribirFila DEF Escribir
<1>2. /\ fila' = [fila EXCEPT ![tarea[t].fila] = FilaEscrita(tarea[t])]
      /\ fila \in [Filas -> Fila \cup {Nada}] /\ fallas' \in 0..MaxFallas
      /\ reloj' \in Momentos /\ UNCHANGED <<solapadas, sinRegistro>>
      /\ Cerrar(t, "confirmada") /\ En(t, "escribir")
  BY DEF Escribir, Inv, TypeOK, Momentos
<1>3. peticiones' \in 0..MaxPeticiones
  <2>1. peticiones' = peticiones \/ (peticiones < MaxPeticiones /\ peticiones' = peticiones + 1)
    BY DEF Escribir, GuardarDeNuevo
  <2>2. peticiones \in 0..MaxPeticiones /\ MaxPeticiones \in Nat
    BY AuditoriaAssumption DEF Inv, TypeOK
  <2> QED
    BY <2>1, <2>2
<1>4. /\ fila' \in [Filas -> Fila \cup {Nada}] /\ fila'[tarea[t].fila] \in Fila
      /\ \A e \in Filas : fila[e] \in Fila => fila'[e] \in Fila
  BY <1>1, <1>2
<1>5. CASE Liberar(t)
  BY <1>2, <1>3, <1>4, <1>5, LibreEsTarea, LibreBien, PasoCierre DEF Liberar
<1>6. CASE GuardarDeNuevo(t)
  <2>1. PICK j \in Tarea : /\ tarea' = [tarea EXCEPT ![t] = j]
                           /\ j.registro = 0 /\ j.pc = "conectar" /\ j.action = "UPDATE"
                           /\ j.fila = tarea[t].fila /\ j.entity \in Fila
    BY <1>2, <1>6, DeNuevo
  <2>2. TareaBien(j, fila')
    BY <1>1, <1>4, <2>1 DEF TareaBien, ConAntes
  <2> QED
    BY <1>2, <1>3, <1>4, <2>1, <2>2, PasoCierre
<1> QED
  BY <1>5, <1>6 DEF Escribir

LEMMA PasoRevertir == ASSUME Inv, NEW t \in Tareas, Revertir(t) PROVE Inv'
<1>1. fallas' \in 0..MaxFallas
  BY AuditoriaAssumption DEF Revertir, Inv, TypeOK
<1> QED
  BY <1>1, LibreEsTarea, LibreBien, PasoCierre DEF Revertir, Liberar, Inv, TypeOK

LEMMA PasoCaida == ASSUME Inv, Caida PROVE Inv'
<1>1. fallas' \in 0..MaxFallas
  BY AuditoriaAssumption DEF Caida, Inv, TypeOK
<1>2. log' \in Seq(AuditLog)
  <2>1. log \in Seq(AuditLog) /\ DOMAIN log = 1..Len(log) /\ Len(log) \in Nat
    BY DEF Inv, TypeOK
  <2>2. \A n \in DOMAIN log :
          (IF log[n].suerte = "pendiente" THEN [log[n] EXCEPT !.suerte = "revertida"]
           ELSE log[n]) \in AuditLog
    <3> SUFFICES ASSUME NEW n \in DOMAIN log
                 PROVE  /\ [log[n] EXCEPT !.suerte = "revertida"] \in AuditLog
                        /\ log[n] \in AuditLog
      OBVIOUS
    <3>1. log[n] \in AuditLog
      BY <2>1
    <3> QED
      BY <3>1 DEF AuditLog
  <2>3. log' \in [1..Len(log) -> AuditLog]
    BY <2>1, <2>2 DEF Caida
  <2> QED
    BY <2>1, <2>3
<1>3. tarea' = [t \in Tareas |-> Libre]
  BY DEF Caida
<1>4. TypeOK'
  BY <1>1, <1>2, <1>3, LibreEsTarea DEF Caida, Inv, TypeOK
<1>5. TareasOK' /\ RegistroPropio'
  BY <1>3, LibreEsTarea DEF TareasOK, TareaBien, RegistroBien, RegistroPropio
<1> QED
  BY <1>4, <1>5 DEF Inv

LEMMA Paso == Inv /\ [Next]_vars => Inv'
<1> SUFFICES ASSUME Inv, [Next]_vars PROVE Inv'
  OBVIOUS
<1>1. CASE UNCHANGED vars
  BY <1>1 DEF vars, Inv, TypeOK, TareasOK, RegistroPropio
<1>2. CASE \E t \in Tareas, e \in Filas, ctx \in Autores \cup {Nada} :
             Crear(t, e, ctx) \/ Editar(t, e, ctx) \/ Quitar(t, e, ctx)
  BY <1>2, PasoPeticion
<1>3. CASE \E t \in Tareas : Avanzar(t) \/ AuditarFalla(t) \/ Revertir(t)
  BY <1>3, PasoConectar, PasoSinRegistro, PasoAuditar, PasoEscribir, PasoRevertir DEF Avanzar
<1>4. CASE Caida
  BY <1>4, PasoCaida
<1> QED
  BY <1>1, <1>2, <1>3, <1>4 DEF Next

LEMMA AuditoriaInv == Spec => []Inv
  BY Inicio, Paso, PTL DEF Spec

-----------------------------------------------------------------------------
(* The state is of the shape the module declares.                          *)
THEOREM AuditoriaTipo == Spec => []TypeOK
<1>1. Inv => TypeOK
  BY DEF Inv
<1> QED
  BY <1>1, AuditoriaInv, PTL

(* A step that commits such a change confirms an entry of it.              *)
LEMMA EscribirConTraza ==
  ASSUME Inv, NEW t \in Tareas, Escribir(t), NEW e \in Filas \ sinRegistro,
         e = tarea[t].fila, fila[e] = Nada \/ Firme(fila'[e]) # Firme(fila[e])
  PROVE  \E n \in DOMAIN log :
           log[n].entityId = e /\ log[n].suerte = "pendiente" /\ log'[n].suerte = "confirmada"
<1> DEFINE i == tarea[t]
<1>1. /\ TareaBien(i, fila) /\ RegistroBien(i, log, sinRegistro) /\ i.pc = "escribir"
      /\ fila \in [Filas -> Fila \cup {Nada}] /\ log \in Seq(AuditLog)
  BY DEF Inv, TypeOK, TareasOK, Escribir, En
<1>2. CASE i.registro # 0
  <2>1. i.registro \in DOMAIN log /\ log[i.registro] = Registro(i)
    BY <1>1, <1>2 DEF RegistroBien
  <2>2. log[i.registro].entityId = e /\ log[i.registro].suerte = "pendiente"
    BY <2>1 DEF Registro
  <2>3. log'[i.registro] = [log[i.registro] EXCEPT !.suerte = "confirmada"]
    BY <1>2, CerrarTipo DEF Escribir
  <2>4. log[i.registro] \in AuditLog
    BY <1>1, <2>1
  <2>5. log'[i.registro].suerte = "confirmada"
    BY <2>3, <2>4 DEF AuditLog
  <2> QED
    BY <2>1, <2>2, <2>5
<1>3. CASE i.registro = 0
  <2>1. SeOmite(i)
    BY <1>1, <1>3 DEF RegistroBien
  <2>2. i.entity \in Fila /\ i.databaseEntity \in Fila /\ fila[i.fila] \in Fila
    BY <1>1, <2>1 DEF TareaBien, SeOmite, ConAntes
  <2>3. fila'[e] = FilaEscrita(i)
    BY <1>1 DEF Escribir
  <2>4. Firme(FilaEscrita(i)) = Firme(fila[i.fila])
    BY <2>1, <2>2, OmitidaInvisible DEF Inv, TypeOK
  <2> QED
    BY <2>2, <2>3, <2>4, NadaNoEs
<1> QED
  BY <1>2, <1>3

(* No committed creation, removal or change of an audited column that      *)
(* holds no date is missing from the trail, unless the insert of its entry *)
(* failed, however requests overlap (AuditSubscriber.writeLog,             *)
(* areAuditSnapshotsEqual).                                                *)
THEOREM AuditoriaCambioConTraza == Spec => CambioConTraza
<1> DEFINE Anotado ==
      \A e \in Filas \ sinRegistro :
        fila'[e] # Nada /\ (fila[e] = Nada \/ Firme(fila'[e]) # Firme(fila[e])) =>
          \E n \in DOMAIN log :
            log[n].entityId = e /\ log[n].suerte = "pendiente" /\ log'[n].suerte = "confirmada"
<1>1. Inv /\ [Next]_vars => [Anotado]_vars
  <2> SUFFICES ASSUME Inv, Next, NEW e \in Filas \ sinRegistro, fila'[e] # Nada,
                      fila[e] = Nada \/ Firme(fila'[e]) # Firme(fila[e])
               PROVE  \E n \in DOMAIN log :
                        /\ log[n].entityId = e /\ log[n].suerte = "pendiente"
                        /\ log'[n].suerte = "confirmada"
    OBVIOUS
  <2>1. fila' # fila
    OBVIOUS
  <2>2. PICK t \in Tareas : Escribir(t)
    BY <2>1 DEF Next, Avanzar, Crear, Editar, Quitar, Pedir, Conectar, Insertar, Omitir, Auditar,
                AuditarFalla, Revertir, Caida
  <2>3. e = tarea[t].fila
    BY <2>2 DEF Escribir, Inv, TypeOK
  <2> QED
    BY <2>2, <2>3, EscribirConTraza
<1> QED
  BY <1>1, AuditoriaInv, PTL DEF Spec, CambioConTraza

-----------------------------------------------------------------------------
(***************************************************************************)
(* For any instance of Auditoria: the trail of a row can be replayed, as   *)
(* long as no two requests wrote that row at once and the inserts of its   *)
(* entries succeeded.                                                      *)
(*                                                                         *)
(* A request alone on its row writes, as a whole, the entity its entry     *)
(* showed, and starts from the row the last committed entry left.          *)
(***************************************************************************)

(* The committed entries of row e in l, and their chain.                   *)
Cerradas(e, l) == {n \in DOMAIN l : l[n].entityId = e /\ l[n].suerte = "confirmada"}

Encadena(c, l) ==
  \A m, n \in c :
    m < n /\ (\A k \in c : k <= m \/ n <= k) => Visto(l[n].beforeJson) = Visto(l[m].afterJson)

Muestra(f) == IF f.borrada THEN Nada ELSE Legible(f)

(* What the trail says of a row that is f, c being its committed entries.  *)
TrazaBien(f, c, l) ==
  /\ f = Nada => c = {}
  /\ f # Nada => \E m \in c : (\A n \in c : n <= m) /\ Visto(l[m].afterJson) = Muestra(f)
  /\ Encadena(c, l)

(* A request i alone at work on a row that is f.                           *)
TrabajoBien(i, f) ==
  /\ i.action = "CREATE" => f = Nada /\ ~i.entity.borrada
  /\ i.action = "UPDATE" => ~i.entity.borrada
  /\ i.action = "SOFT_DELETE" => i.entity.borrada
  /\ i.action # "CREATE" =>
       f # Nada /\ ~f.borrada /\ (i.pc \in ConAntes => i.databaseEntity = f)

Sola(e) == \A t, o \in Tareas : tarea[t].fila = e /\ tarea[o].fila = e => t = o

Ultimo(i, l) == i.registro # 0 => \A m \in Cerradas(i.fila, l) : m < i.registro

Propia(e) ==
  /\ Sola(e)
  /\ \A t \in Tareas : tarea[t].fila = e =>
       TrabajoBien(tarea[t], fila[e]) /\ Ultimo(tarea[t], log)
  /\ e \notin sinRegistro => TrazaBien(fila[e], Cerradas(e, log), log)

InvTraza == \A e \in Filas \ solapadas : Propia(e)

-----------------------------------------------------------------------------
LEMMA InicioTraza == Init => InvTraza
<1> SUFFICES ASSUME Init, NEW e \in Filas PROVE Propia(e)
  BY DEF InvTraza
<1>1. \A t \in Tareas : tarea[t].fila # e
  BY NadaNoEs, LibreEsTarea DEF Init
<1>2. fila[e] = Nada /\ Cerradas(e, log) = {}
  BY DEF Init, Cerradas
<1> QED
  BY <1>1, <1>2 DEF Propia, Sola, TrazaBien, Encadena

(* What is true of a trail stays true when no entry is committed.          *)
MismasCerradas ==
  \A e \in Filas :
    /\ Cerradas(e, log') = Cerradas(e, log)
    /\ \A n \in Cerradas(e, log) : log'[n] = log[n]

LEMMA TrazaQueda ==
  ASSUME MismasCerradas, NEW e \in Filas, NEW f, TrazaBien(f, Cerradas(e, log), log)
  PROVE  TrazaBien(f, Cerradas(e, log'), log')
BY DEF MismasCerradas, TrazaBien, Encadena

LEMMA LogIgual == log' = log => MismasCerradas
BY DEF MismasCerradas, Cerradas

(* One request goes on to j and no row is written.                         *)
LEMMA PasoSolaTraza ==
  ASSUME Inv, InvTraza, MismasCerradas, NEW t \in Tareas, NEW j,
         tarea' = [tarea EXCEPT ![t] = j],
         UNCHANGED fila, solapadas \subseteq solapadas', sinRegistro \subseteq sinRegistro',
         j.fila \in Filas \ solapadas' =>
           /\ TrabajoBien(j, fila[j.fila]) /\ Ultimo(j, log)
           /\ \A o \in Tareas \ {t} : tarea[o].fila # j.fila
  PROVE  InvTraza'
<1> SUFFICES ASSUME NEW e \in Filas \ solapadas' PROVE Propia(e)'
  BY DEF InvTraza
<1>1. Propia(e)
  BY DEF InvTraza
<1>2. tarea'[t] = j /\ \A o \in Tareas \ {t} : tarea'[o] = tarea[o]
  BY DEF Inv, TypeOK
<1>3. Sola(e)'
  BY <1>1, <1>2 DEF Propia, Sola
<1>4. \A i : i.fila = e /\ Ultimo(i, log) => Ultimo(i, log')
  BY DEF Ultimo, MismasCerradas
<1>5. ASSUME NEW o \in Tareas, tarea'[o].fila = e
      PROVE  TrabajoBien(tarea'[o], fila'[e]) /\ Ultimo(tarea'[o], log')
  <2>1. CASE o = t
    BY <1>2, <1>4, <1>5, <2>1
  <2>2. CASE o # t
    BY <1>1, <1>2, <1>4, <1>5, <2>2 DEF Propia
  <2> QED
    BY <2>1, <2>2
<1>6. e \notin sinRegistro' => TrazaBien(fila'[e], Cerradas(e, log'), log')
  BY <1>1, TrazaQueda DEF Propia
<1> QED
  BY <1>3, <1>5, <1>6 DEF Propia

(* The same, for a request that stays on its row.                          *)
LEMMA PasoEnFila ==
  ASSUME Inv, InvTraza, MismasCerradas, NEW t \in Tareas, NEW j \in Tarea,
         tarea' = [tarea EXCEPT ![t] = j], tarea[t].pc # "libre",
         UNCHANGED <<fila, solapadas>>, sinRegistro \subseteq sinRegistro',
         j.fila = tarea[t].fila, j.action = tarea[t].action,
         j.entity.borrada = tarea[t].entity.borrada,
         j.action # "CREATE" /\ j.pc \in ConAntes =>
           \/ j.databaseEntity = fila[j.fila]
           \/ tarea[t].pc \in ConAntes /\ j.databaseEntity = tarea[t].databaseEntity,
         Ultimo(j, log)
  PROVE  InvTraza'
<1>1. ASSUME j.fila \in Filas \ solapadas'
      PROVE  /\ TrabajoBien(j, fila[j.fila])
             /\ \A o \in Tareas \ {t} : tarea[o].fila # j.fila
  <2>1. Propia(j.fila)
    BY <1>1 DEF InvTraza
  <2> QED
    BY <2>1 DEF Propia, Sola, TrabajoBien
<1> QED
  BY <1>1, PasoSolaTraza

(* A request that ends without a write.                                    *)
LEMMA PasoLiberarTraza ==
  ASSUME Inv, InvTraza, MismasCerradas, NEW t \in Tareas, Liberar(t),
         UNCHANGED <<fila, solapadas, sinRegistro>>
  PROVE  InvTraza'
BY PasoSolaTraza, LibreEsTarea, NadaNoEs DEF Liberar

-----------------------------------------------------------------------------
LEMMA PasoPedirTraza ==
  ASSUME Inv, InvTraza, NEW t \in Tareas, NEW a \in AuditActions, NEW e \in Filas,
         NEW ctx, NEW entity, Pedir(t, a, e, ctx, entity),
         a = "CREATE" => fila[e] = Nada,
         a # "CREATE" => fila[e] # Nada /\ ~fila[e].borrada,
         a = "SOFT_DELETE" <=> entity.borrada
  PROVE  InvTraza'
<1>1. PICK j : /\ tarea' = [tarea EXCEPT ![t] = j]
               /\ j = [Libre EXCEPT !.pc = "conectar", !.action = a, !.fila = e, !.ctx = ctx,
                                    !.entity = entity]
  BY DEF Pedir
<1>2. j.pc = "conectar" /\ j.action = a /\ j.fila = e /\ j.entity = entity /\ j.registro = 0
  BY <1>1 DEF Libre
<1>3. TrabajoBien(j, fila[e]) /\ Ultimo(j, log)
  BY <1>2 DEF TrabajoBien, Ultimo, ConAntes, AuditActions
<1>4. e \notin solapadas' => \A o \in Tareas : tarea[o].fila # e
  BY DEF Pedir
<1> QED
  <2>1. /\ UNCHANGED <<fila, log, sinRegistro>> /\ solapadas \subseteq solapadas'
    BY DEF Pedir
  <2>2. MismasCerradas
    BY <2>1, LogIgual
  <2> QED
    BY <1>1, <1>2, <1>3, <1>4, <2>1, <2>2, PasoSolaTraza

LEMMA PasoPeticionTraza ==
  ASSUME Inv, InvTraza, NEW t \in Tareas, NEW e \in Filas, NEW ctx,
         Crear(t, e, ctx) \/ Editar(t, e, ctx) \/ Quitar(t, e, ctx)
  PROVE  InvTraza'
<1>1. fila[e] # Nada => fila[e] \in Fila
  BY DEF Inv, TypeOK
<1>2. CASE Crear(t, e, ctx)
  <2>1. \A entity \in Nuevas : ~entity.borrada
    BY AuditoriaAssumption
  <2> QED
    BY <1>2, <2>1, PasoPedirTraza DEF Crear, AuditActions
<1>3. CASE Editar(t, e, ctx)
  <2>1. \A entity \in Cambios(fila[e]) : entity.borrada = fila[e].borrada
    BY <1>1, <1>3, CambiosBien DEF Editar
  <2> QED
    BY <1>3, <2>1, PasoPedirTraza DEF Editar, AuditActions
<1>4. CASE Quitar(t, e, ctx)
  <2>1. ([fila[e] EXCEPT !.borrada = TRUE]).borrada
    BY <1>1, <1>4 DEF Quitar, Fila
  <2> QED
    BY <1>4, <2>1, PasoPedirTraza DEF Quitar, AuditActions
<1> QED
  BY <1>2, <1>3, <1>4

LEMMA PasoConectarTraza ==
  ASSUME Inv, InvTraza, NEW t \in Tareas, Conectar(t) PROVE InvTraza'
<1> DEFINE i == tarea[t]
<1>0. /\ i \in Tarea /\ TareaBien(i, fila) /\ i.pc = "conectar" /\ i.registro = 0
      /\ tarea \in [Tareas -> Tarea]
      /\ UNCHANGED <<fila, log, solapadas, sinRegistro>>
  BY DEF Inv, TypeOK, TareasOK, Conectar, En, RegistroBien
<1>1. MismasCerradas
  BY <1>0, LogIgual
<1>2. CASE i.action = "CREATE" /\ tarea' = [tarea EXCEPT ![t].pc = "insertar", ![t].conexion = TRUE]
  <2>1. PICK j : /\ tarea' = [tarea EXCEPT ![t] = j]
                 /\ j = [i EXCEPT !.pc = "insertar", !.conexion = TRUE]
    BY <1>0, <1>2
  <2>2. /\ j \in Tarea /\ j.pc = "insertar" /\ j.action = i.action /\ j.fila = i.fila
        /\ j.entity = i.entity /\ j.registro = 0
    BY <1>0, <2>1 DEF Tarea, Pasos
  <2> QED
    <3>1. Ultimo(j, log)
      BY <2>2 DEF Ultimo
    <3> QED
      BY <1>0, <1>1, <1>2, <2>1, <2>2, <3>1, PasoEnFila
<1>3. CASE /\ i.action # "CREATE"
           /\ tarea' = [tarea EXCEPT ![t].pc = "auditar", ![t].conexion = TRUE,
                                     ![t].databaseEntity = fila[i.fila]]
  <2>1. PICK j : /\ tarea' = [tarea EXCEPT ![t] = j]
                 /\ j = [i EXCEPT !.pc = "auditar", !.conexion = TRUE,
                                  !.databaseEntity = fila[i.fila]]
    BY <1>0, <1>3
  <2>2. /\ j \in Tarea /\ j.pc = "auditar" /\ j.action = i.action /\ j.fila = i.fila
        /\ j.entity = i.entity /\ j.registro = 0 /\ j.databaseEntity = fila[i.fila]
    <3>1. fila[i.fila] \in Fila
      BY <1>0, <1>3 DEF TareaBien
    <3> QED
      BY <1>0, <2>1, <3>1 DEF Tarea, Pasos
  <2> QED
    <3>1. Ultimo(j, log)
      BY <2>2 DEF Ultimo
    <3> QED
      BY <1>0, <1>1, <1>3, <2>1, <2>2, <3>1, PasoEnFila
<1>4. CASE Liberar(t)
  BY <1>0, <1>1, <1>4, PasoLiberarTraza
<1> QED
  BY <1>2, <1>3, <1>4 DEF Conectar

LEMMA PasoPcTraza ==
  ASSUME Inv, InvTraza, NEW t \in Tareas, NEW p \in ConAntes, NEW x \in Fila,
         tarea[t].pc \in {"insertar", "auditar"}, x.borrada = tarea[t].entity.borrada,
         tarea' = [tarea EXCEPT ![t] = [tarea[t] EXCEPT !.pc = p, !.entity = x]],
         UNCHANGED <<fila, log, solapadas>>, sinRegistro \subseteq sinRegistro'
  PROVE  InvTraza'
<1> DEFINE i == tarea[t]
<1>0. /\ i \in Tarea /\ i.registro = 0 /\ tarea \in [Tareas -> Tarea]
      /\ i.action # "CREATE" => i.pc \in ConAntes
  BY DEF Inv, TypeOK, TareasOK, RegistroBien, TareaBien, ConAntes
<1>1. PICK j : tarea' = [tarea EXCEPT ![t] = j] /\ j = [i EXCEPT !.pc = p, !.entity = x]
  BY <1>0
<1>2. /\ j \in Tarea /\ j.action = i.action /\ j.fila = i.fila
      /\ j.databaseEntity = i.databaseEntity /\ j.entity = x /\ j.registro = 0
  BY <1>0, <1>1 DEF Tarea, Pasos, ConAntes
<1> QED
  BY <1>0, <1>1, <1>2, PasoEnFila, LogIgual DEF Ultimo

LEMMA PasoSinRegistroTraza ==
  ASSUME Inv, InvTraza, NEW t \in Tareas, Insertar(t) \/ Omitir(t) \/ AuditarFalla(t)
  PROVE  InvTraza'
<1>1. tarea[t].pc \in ConAntes \cup {"insertar"} =>
        /\ tarea[t].entity \in Fila /\ tarea[t] \in Tarea
        /\ \A p : [tarea[t] EXCEPT !.pc = p] = [tarea[t] EXCEPT !.pc = p, !.entity = tarea[t].entity]
  BY DEF Inv, TypeOK, TareasOK, TareaBien, ConAntes, Tarea
<1>2. ASSUME Insertar(t) PROVE InvTraza'
  <2> DEFINE x == [tarea[t].entity EXCEPT !.updatedAt = reloj]
  <2>1. x \in Fila /\ x.borrada = tarea[t].entity.borrada
    BY <1>1, <1>2 DEF Insertar, En, Fila, Inv, TypeOK
  <2>2. tarea' = [tarea EXCEPT ![t] = [tarea[t] EXCEPT !.pc = "auditar", !.entity = x]]
    BY <1>2, PasoInsertar
  <2> HIDE DEF x
  <2> QED
    BY <1>2, <2>1, <2>2, PasoPcTraza DEF Insertar, En, ConAntes
<1>3. ASSUME Omitir(t) \/ AuditarFalla(t) PROVE InvTraza'
  <2>1. /\ tarea[t].pc = "auditar" /\ UNCHANGED <<fila, log, solapadas>>
        /\ sinRegistro \subseteq sinRegistro'
        /\ tarea' = [tarea EXCEPT ![t].pc = "escribir"]
    BY <1>3 DEF Omitir, AuditarFalla, En
  <2>2. tarea' = [tarea EXCEPT ![t] = [tarea[t] EXCEPT !.pc = "escribir", !.entity = tarea[t].entity]]
    BY <1>1, <2>1 DEF Inv, TypeOK, ConAntes
  <2> QED
    BY <1>1, <2>1, <2>2, PasoPcTraza DEF ConAntes
<1> QED
  BY <1>2, <1>3

LEMMA PasoAuditarTraza ==
  ASSUME Inv, InvTraza, NEW t \in Tareas, Auditar(t) PROVE InvTraza'
<1> DEFINE i == tarea[t]
<1>0. /\ i \in Tarea /\ i.registro = 0 /\ i.pc = "auditar" /\ tarea \in [Tareas -> Tarea]
      /\ log \in Seq(AuditLog) /\ TareaBien(i, fila)
  BY DEF Inv, TypeOK, TareasOK, RegistroBien, Auditar, En
<1>1. Registro(i).suerte = "pendiente"
  BY DEF Registro
<1>2. /\ Len(log) \in Nat /\ DOMAIN log = 1..Len(log) /\ DOMAIN log' = 1..(Len(log) + 1)
      /\ \A n \in DOMAIN log : log'[n] = log[n]
      /\ log'[Len(log) + 1] = Registro(i)
  BY <1>0 DEF Auditar
<1>3. MismasCerradas
  BY <1>1, <1>2 DEF MismasCerradas, Cerradas
<1>4. PICK j : /\ tarea' = [tarea EXCEPT ![t] = j]
               /\ j = [i EXCEPT !.pc = "escribir", !.registro = Len(log) + 1]
  BY <1>0 DEF Auditar
<1>5. /\ j \in Tarea /\ j.action = i.action /\ j.fila = i.fila
      /\ j.databaseEntity = i.databaseEntity /\ j.entity = i.entity
      /\ j.registro = Len(log) + 1
  <2>1. Len(log) + 1 \in Nat
    BY <1>2
  <2> QED
    BY <1>0, <1>4, <2>1 DEF Tarea, Pasos
<1>6. Ultimo(j, log)
  BY <1>2, <1>5 DEF Ultimo, Cerradas
<1> QED
  BY <1>0, <1>3, <1>4, <1>5, <1>6, PasoEnFila DEF Auditar, ConAntes

(* Nothing that is confirmed was waiting for its write.                    *)
LEMMA PasoRevertirTraza ==
  ASSUME Inv, InvTraza, NEW t \in Tareas, Revertir(t) PROVE InvTraza'
<1> DEFINE r == tarea[t].registro
<1>1. r # 0 => log[r] = Registro(tarea[t]) /\ log[r] \in AuditLog
  BY CerrarTipo DEF Inv, TypeOK, TareasOK, RegistroBien, Revertir
<1>2. r # 0 => log[r].suerte = "pendiente" /\ log'[r].suerte = "revertida"
  <2>1. r # 0 => log[r].suerte = "pendiente"
    BY <1>1 DEF Registro
  <2>2. r # 0 => log'[r] = [log[r] EXCEPT !.suerte = "revertida"]
    BY CerrarTipo DEF Revertir
  <2> QED
    BY <1>1, <2>1, <2>2 DEF AuditLog
<1>3. /\ DOMAIN log' = DOMAIN log
      /\ \A n \in DOMAIN log : n # r => log'[n] = log[n]
  BY CerrarTipo DEF Revertir
<1>4. \A n \in DOMAIN log : n = r => r # 0
  BY DEF Inv, TypeOK
<1>5. MismasCerradas
  BY <1>2, <1>3, <1>4 DEF MismasCerradas, Cerradas
<1> QED
  BY <1>5, PasoLiberarTraza DEF Revertir

LEMMA PasoCaidaTraza == ASSUME Inv, InvTraza, Caida PROVE InvTraza'
<1>1. log \in Seq(AuditLog)
  BY DEF Inv, TypeOK
<1>2. /\ DOMAIN log' = DOMAIN log
      /\ \A n \in DOMAIN log : log[n].suerte # "pendiente" => log'[n] = log[n]
  BY DEF Caida
<1>3. \A n \in DOMAIN log : log[n].suerte = "pendiente" => log'[n].suerte = "revertida"
  <2> SUFFICES ASSUME NEW n \in DOMAIN log, log[n].suerte = "pendiente"
               PROVE  log'[n].suerte = "revertida"
    OBVIOUS
  <2>1. log[n] \in AuditLog
    BY <1>1
  <2>2. log'[n] = [log[n] EXCEPT !.suerte = "revertida"]
    BY DEF Caida
  <2> QED
    BY <2>1, <2>2 DEF AuditLog
<1>4. MismasCerradas
  BY <1>2, <1>3 DEF MismasCerradas, Cerradas
<1> SUFFICES ASSUME NEW e \in Filas \ solapadas PROVE Propia(e)'
  BY DEF InvTraza, Caida
<1>5. \A t \in Tareas : tarea'[t].fila # e
  BY LibreEsTarea, NadaNoEs DEF Caida
<1>6. e \notin sinRegistro => TrazaBien(fila[e], Cerradas(e, log'), log')
  BY <1>4, TrazaQueda DEF InvTraza, Propia
<1> QED
  BY <1>5, <1>6 DEF Propia, Sola, Caida

-----------------------------------------------------------------------------
(* What the trail shows of a snapshot is what it shows of the row.         *)
LEMMA VistoDeFila ==
  ASSUME NEW f \in Fila, NEW b \in BOOLEAN
  PROVE  Visto(ToPlain(f, b)) = Legible(f)
<1>1. ToPlain(f, b) # Nada
  BY ToPlainSnapshot, AuditoriaAssumption
<1>2. Legible(ToPlain(f, b)) = Legible(f)
  BY DEF Legible, ToPlain
<1> QED
  BY <1>1, <1>2 DEF Visto

(* Alone on its row, a write stores of the entity it was given all that    *)
(* the trail shows.                                                        *)
LEMMA EscribeEntidad ==
  ASSUME NEW i, i.entity \in Fila, TrabajoBien(i, fila[i.fila]), i.pc = "escribir",
         i.action \in AuditActions, reloj \in Momentos,
         i.action # "CREATE" => i.databaseEntity \in Fila
  PROVE  /\ FilaEscrita(i) \in Fila
         /\ i.action = "CREATE" => FilaEscrita(i) = i.entity
         /\ Muestra(FilaEscrita(i)) = Muestra(i.entity)
<1>1. CASE i.action = "CREATE"
  BY <1>1 DEF FilaEscrita
<1>2. ASSUME i.action # "CREATE"
      PROVE  i.databaseEntity = fila[i.fila] /\ fila[i.fila] \in Fila
  BY <1>2 DEF TrabajoBien, ConAntes
<1>3. CASE i.action = "SOFT_DELETE"
  <2>1. FilaEscrita(i) \in Fila /\ FilaEscrita(i).borrada /\ i.entity.borrada
    BY <1>2, <1>3, FilaEscritaColumnas DEF TrabajoBien
  <2> QED
    BY <1>3, <2>1 DEF Muestra
<1>4. CASE i.action = "UPDATE"
  <2>1. /\ FilaEscrita(i) \in Fila
        /\ \A c \in Columnas \ {"updatedAt"} : FilaEscrita(i)[c] = i.entity[c]
    BY <1>2, <1>4, FilaEscritaColumnas
  <2>2. /\ FilaEscrita(i).visible = i.entity.visible
        /\ FilaEscrita(i).fecha = i.entity.fecha
        /\ FilaEscrita(i).borrada = i.entity.borrada
    BY <2>1 DEF Columnas
  <2> QED
    BY <1>4, <2>1, <2>2 DEF Muestra, Legible
<1> QED
  BY <1>1, <1>3, <1>4 DEF AuditActions

(* A write with an entry adds a link to the chain of its row.              *)
LEMMA UnEslabonMas ==
  ASSUME NEW c \in SUBSET Int, NEW r \in Int, NEW l, NEW l2, NEW f, NEW g,
         \A n \in c : n < r /\ l2[n] = l[n],
         TrazaBien(f, c, l), g # Nada, Visto(l2[r].afterJson) = Muestra(g),
         f # Nada => Visto(l2[r].beforeJson) = Muestra(f)
  PROVE  TrazaBien(g, c \cup {r}, l2)
<1>1. \A n \in c \cup {r} : n <= r
  <2>1. \A n \in c : n \in Int /\ n < r
    OBVIOUS
  <2> QED
    BY <2>1
<1>2. ASSUME NEW m \in c \cup {r}, NEW n \in c \cup {r}, m < n,
             \A k \in c \cup {r} : k <= m \/ n <= k
      PROVE  Visto(l2[n].beforeJson) = Visto(l2[m].afterJson)
  <2>1. m \in c /\ m # r
    BY <1>1, <1>2
  <2>2. CASE n # r
    BY <1>2, <2>1, <2>2 DEF TrazaBien, Encadena
  <2>3. CASE n = r
    <3>1. f # Nada
      BY <2>1 DEF TrazaBien
    <3>2. PICK u \in c : (\A k \in c : k <= u) /\ Visto(l[u].afterJson) = Muestra(f)
      BY <3>1 DEF TrazaBien
    <3>3. u <= m
      BY <1>2, <2>3, <3>2
    <3>4. u = m
      <4>1. u \in Int /\ m \in Int /\ m <= u
        BY <2>1, <3>2
      <4> QED
        BY <3>3, <4>1
    <3>5. l2[m] = l[u] /\ l2[n] = l2[r]
      BY <2>1, <2>3, <3>4
    <3>6. Visto(l2[m].afterJson) = Visto(l[u].afterJson)
          /\ Visto(l2[n].beforeJson) = Visto(l2[r].beforeJson)
      BY <3>5 DEF Visto, Legible
    <3> QED
      BY <3>1, <3>2, <3>6
  <2> QED
    BY <2>2, <2>3
<1>3. Encadena(c \cup {r}, l2)
  BY <1>2 DEF Encadena
<1> QED
  BY <1>1, <1>3 DEF TrazaBien

LEMMA PasoEscribirTraza ==
  ASSUME Inv, InvTraza, NEW t \in Tareas, Escribir(t) PROVE InvTraza'
<1> DEFINE i == tarea[t]
           r == i.registro
<1>0. /\ i.pc = "escribir" /\ TareaBien(i, fila) /\ RegistroBien(i, log, sinRegistro)
      /\ i \in Tarea /\ fila \in [Filas -> Fila \cup {Nada}] /\ log \in Seq(AuditLog)
      /\ i.fila \in Filas /\ i.entity \in Fila
      /\ i.action # "CREATE" => i.databaseEntity \in Fila
  BY DEF Inv, TypeOK, TareasOK, TareaBien, ConAntes, Escribir, En
<1>1. /\ \A o \in Tareas \ {t} : tarea'[o] = tarea[o]
      /\ fila'[i.fila] = FilaEscrita(i) /\ \A e \in Filas \ {i.fila} : fila'[e] = fila[e]
      /\ UNCHANGED <<solapadas, sinRegistro>> /\ reloj \in Momentos
      /\ \/ tarea'[t] = Libre
         \/ /\ tarea'[t].registro = 0 /\ tarea'[t].pc = "conectar"
            /\ tarea'[t].action = "UPDATE" /\ tarea'[t].fila = i.fila
            /\ tarea'[t].entity.borrada = i.entity.borrada /\ i.action = "CREATE"
  <2>1. tarea \in [Tareas -> Tarea] /\ reloj \in Momentos
    BY DEF Inv, TypeOK
  <2>2. /\ fila' = [fila EXCEPT ![i.fila] = FilaEscrita(i)] /\ En(t, "escribir")
        /\ UNCHANGED <<solapadas, sinRegistro>> /\ (Liberar(t) \/ GuardarDeNuevo(t))
    BY DEF Escribir
  <2>3. CASE Liberar(t)
    BY <1>0, <2>1, <2>2, <2>3 DEF Liberar
  <2>4. CASE GuardarDeNuevo(t)
    <3>1. PICK j \in Tarea :
            /\ tarea' = [tarea EXCEPT ![t] = j]
            /\ j.registro = 0 /\ j.pc = "conectar" /\ j.action = "UPDATE"
            /\ j.fila = i.fila /\ j.entity.borrada = i.entity.borrada /\ i.action = "CREATE"
      BY <2>2, <2>4, DeNuevo
    <3> QED
      BY <1>0, <2>1, <2>2, <3>1
  <2> QED
    BY <2>2, <2>3, <2>4
<1>2. /\ DOMAIN log' = DOMAIN log /\ DOMAIN log \subseteq Nat \ {0}
      /\ \A n \in DOMAIN log : n # r => log'[n] = log[n]
  <2>1. DOMAIN log = 1..Len(log) /\ Len(log) \in Nat
    BY <1>0
  <2>2. /\ DOMAIN log' = DOMAIN log
        /\ \A n \in DOMAIN log : n # tarea[t].registro => log'[n] = log[n]
    BY CerrarTipo DEF Escribir
  <2> QED
    BY <2>1, <2>2
<1>3. ASSUME r # 0
      PROVE  /\ r \in DOMAIN log /\ log[r] = Registro(i) /\ log'[r].suerte = "confirmada"
             /\ log'[r].entityId = i.fila /\ log[r].suerte = "pendiente"
             /\ log'[r].beforeJson = BeforePlain(i) /\ log'[r].afterJson = AfterPlain(i)
  <2>1. r \in DOMAIN log /\ log[r] = Registro(i) /\ log[r] \in AuditLog
    BY <1>0, <1>3 DEF RegistroBien
  <2>2. log'[r] = [log[r] EXCEPT !.suerte = "confirmada"]
    BY <1>3, CerrarTipo DEF Escribir
  <2>3. /\ log'[r].suerte = "confirmada" /\ log'[r].entityId = log[r].entityId
        /\ log'[r].beforeJson = log[r].beforeJson /\ log'[r].afterJson = log[r].afterJson
    BY <2>1, <2>2 DEF AuditLog
  <2> QED
    BY <2>1, <2>3 DEF Registro
<1> HIDE DEF i, r
<1>4. \A e \in Filas : e # i.fila \/ r = 0 => Cerradas(e, log') = Cerradas(e, log)
  BY <1>2, <1>3 DEF Cerradas
<1>5. r # 0 => Cerradas(i.fila, log') = Cerradas(i.fila, log) \cup {r}
  BY <1>2, <1>3 DEF Cerradas
<1>6. \A e \in Filas : \A n \in Cerradas(e, log) : log'[n] = log[n]
  BY <1>2, <1>3 DEF Cerradas
<1> SUFFICES ASSUME NEW e \in Filas \ solapadas PROVE Propia(e)'
  BY <1>1 DEF InvTraza
<1>7. Propia(e)
  BY DEF InvTraza
<1>8. Sola(e)'
  <2>1. tarea'[t].fila = e => i.fila = e
    BY <1>1, LibreEsTarea, NadaNoEs
  <2> QED
    BY <1>1, <1>7, <2>1 DEF Propia, Sola, i
<1>9. CASE e # i.fila
  <2>1. ASSUME NEW o \in Tareas, tarea'[o].fila = e
        PROVE  TrabajoBien(tarea'[o], fila'[e]) /\ Ultimo(tarea'[o], log')
    <3>1. tarea'[o] = tarea[o]
      BY <1>1, <1>9, <2>1, LibreEsTarea, NadaNoEs
    <3> QED
      BY <1>1, <1>4, <1>7, <1>9, <2>1, <3>1 DEF Propia, Ultimo
  <2>2. e \notin sinRegistro => TrazaBien(fila'[e], Cerradas(e, log'), log')
    BY <1>1, <1>4, <1>6, <1>7, <1>9 DEF Propia, TrazaBien, Encadena
  <2> QED
    BY <1>1, <1>8, <2>1, <2>2 DEF Propia
<1>10. CASE e = i.fila
  <2> DEFINE c == Cerradas(e, log)
             f == fila[e]
  <2>1. TrabajoBien(i, f) /\ Ultimo(i, log) /\ \A o \in Tareas \ {t} : tarea[o].fila # e
    BY <1>7, <1>10 DEF Propia, Sola, i
  <2>2. /\ i.action = "CREATE" => fila'[e] = i.entity
        /\ fila'[e] # Nada /\ Muestra(fila'[e]) = Muestra(i.entity)
    <3>1. i.action \in AuditActions
      BY <1>0 DEF Tarea
    <3>2. /\ FilaEscrita(i) \in Fila
          /\ i.action = "CREATE" => FilaEscrita(i) = i.entity
          /\ Muestra(FilaEscrita(i)) = Muestra(i.entity)
      BY <1>0, <1>1, <1>10, <2>1, <3>1, EscribeEntidad
    <3> QED
      BY <1>1, <1>10, <3>2, NadaNoEs
  <2>3. ASSUME NEW o \in Tareas, tarea'[o].fila = e
        PROVE  TrabajoBien(tarea'[o], fila'[e]) /\ Ultimo(tarea'[o], log')
    <3>1. /\ tarea'[o].registro = 0 /\ tarea'[o].pc = "conectar"
          /\ tarea'[o].action = "UPDATE" /\ tarea'[o].entity.borrada = i.entity.borrada
          /\ i.action = "CREATE"
      <4>1. o = t
        BY <1>1, <2>1, <2>3
      <4> QED
        BY <1>1, <2>3, <4>1, LibreEsTarea, NadaNoEs
    <3>2. ~i.entity.borrada
      BY <2>1, <3>1 DEF TrabajoBien
    <3> QED
      BY <2>2, <3>1, <3>2 DEF TrabajoBien, Ultimo, ConAntes
  <2>4. f = Nada <=> i.action = "CREATE"
    BY <2>1 DEF TrabajoBien
  <2>5. i.action # "CREATE" => ~f.borrada /\ i.databaseEntity = f
    BY <1>0, <2>1 DEF TrabajoBien, ConAntes
  <2>6. ASSUME e \notin sinRegistro, r # 0
        PROVE  TrazaBien(fila'[e], Cerradas(e, log'), log')
    <3>1. c \in SUBSET Int /\ r \in Int /\ \A n \in c : n < r /\ log'[n] = log[n]
      BY <1>2, <1>3, <1>6, <1>10, <2>1, <2>6 DEF Cerradas, Ultimo, r
    <3>2. TrazaBien(f, c, log)
      BY <1>7, <2>6 DEF Propia
    <3>3. i.action \in AuditActions
      BY <1>0 DEF Tarea
    <3>4. Visto(log'[r].afterJson) = Muestra(fila'[e])
      <4>1. CASE i.action = "SOFT_DELETE"
        BY <1>3, <2>1, <2>2, <2>6, <4>1 DEF AfterPlain, Muestra, TrabajoBien, Visto
      <4>2. CASE i.action # "SOFT_DELETE"
        <5>1. log'[r].afterJson = ToPlain(i.entity, i.procesada) /\ ~i.entity.borrada
          BY <1>3, <2>1, <2>6, <3>3, <4>2 DEF AfterPlain, TrabajoBien, AuditActions
        <5>2. i.procesada \in BOOLEAN
          BY <1>0 DEF Tarea
        <5>3. Visto(log'[r].afterJson) = Legible(i.entity)
          BY <1>0, <5>1, <5>2, VistoDeFila
        <5> QED
          BY <2>2, <5>1, <5>3 DEF Muestra
      <4> QED
        BY <4>1, <4>2
    <3>5. f # Nada => Visto(log'[r].beforeJson) = Muestra(f)
      <4>1. ASSUME f # Nada PROVE i.action # "CREATE" /\ ~f.borrada /\ i.databaseEntity = f
        BY <2>4, <2>5, <4>1
      <4>2. ASSUME f # Nada PROVE log'[r].beforeJson = ToPlain(f, FALSE) /\ f \in Fila
        BY <1>0, <1>3, <2>6, <4>1, <4>2 DEF BeforePlain
      <4> QED
        BY <4>1, <4>2, VistoDeFila DEF Muestra
    <3>6. TrazaBien(fila'[e], c \cup {r}, log')
      BY <2>2, <3>1, <3>2, <3>4, <3>5, UnEslabonMas
    <3> QED
      BY <1>5, <1>10, <2>6, <3>6
  <2>7. ASSUME e \notin sinRegistro, r = 0
        PROVE  TrazaBien(fila'[e], Cerradas(e, log'), log')
    <3>1. SeOmite(i)
      BY <1>0, <1>10, <2>7 DEF RegistroBien, r
    <3>2. Muestra(i.entity) = Muestra(f) /\ f # Nada
      BY <2>1, <2>4, <2>5, <3>1 DEF SeOmite, SinCambioVisible, Muestra, TrabajoBien
    <3>4. Muestra(fila'[e]) = Muestra(f) /\ fila'[e] # Nada
      BY <2>2, <3>2
    <3>3. TrazaBien(f, c, log)
      BY <1>7, <2>7 DEF Propia
    <3> QED
      BY <1>4, <1>6, <2>7, <3>2, <3>3, <3>4 DEF TrazaBien, Encadena
  <2> QED
    BY <1>1, <1>8, <2>3, <2>6, <2>7 DEF Propia
<1> QED
  BY <1>9, <1>10

LEMMA PasoTraza == Inv /\ InvTraza /\ [Next]_vars => InvTraza'
<1> SUFFICES ASSUME Inv, InvTraza, [Next]_vars PROVE InvTraza'
  OBVIOUS
<1>1. CASE UNCHANGED vars
  BY <1>1 DEF vars, InvTraza, Propia, Sola
<1>2. CASE Next
  BY <1>2, PasoPeticionTraza, PasoConectarTraza, PasoSinRegistroTraza, PasoAuditarTraza,
     PasoEscribirTraza, PasoRevertirTraza, PasoCaidaTraza DEF Next, Avanzar
<1> QED
  BY <1>1, <1>2

LEMMA TrazaInv == Spec => []InvTraza
  BY InicioTraza, PasoTraza, AuditoriaInv, PTL DEF Spec

-----------------------------------------------------------------------------
LEMMA SonCerradas == ASSUME NEW e \in Filas PROVE Confirmados(e) = Cerradas(e, log)
<1>1. DOMAIN [entityId |-> e] = {"entityId"} /\ [entityId |-> e].entityId = e /\ e # 0
  BY AuditoriaAssumption
<1> QED
  BY <1>1 DEF Confirmados, Search, Cerradas

(* Replaying the committed entries of a row shows what the row has now,    *)
(* but for the values of its dates, of which it shows whether there is one *)
(* (AuditSubscriber.writeLog, areAuditSnapshotsEqual).                     *)
THEOREM AuditoriaTrazaReconstruye == Spec => []TrazaReconstruye
<1>1. Inv /\ InvTraza => TrazaReconstruye
  <2> SUFFICES ASSUME Inv, InvTraza, NEW e \in Filas \ (solapadas \cup sinRegistro),
                      fila[e] # Nada
               PROVE  /\ Confirmados(e) # {} /\ Encadenadas(e)
                      /\ Visto(log[UltimoDe(e)].afterJson) = Muestra(fila[e])
    BY DEF TrazaReconstruye, Muestra
  <2> DEFINE c == Confirmados(e)
  <2>1. TrazaBien(fila[e], c, log)
    BY SonCerradas DEF InvTraza, Propia
  <2>2. PICK m \in c : (\A n \in c : n <= m) /\ Visto(log[m].afterJson) = Muestra(fila[e])
    BY <2>1 DEF TrazaBien
  <2>3. c \subseteq Int
    BY SonCerradas DEF Cerradas, Inv, TypeOK
  <2>4. UltimoDe(e) \in c /\ \A n \in c : n <= UltimoDe(e)
    BY <2>2 DEF UltimoDe
  <2>5. UltimoDe(e) = m
    BY <2>2, <2>3, <2>4
  <2> QED
    BY <2>1, <2>2, <2>5 DEF TrazaBien, Encadena, Encadenadas
<1> QED
  BY <1>1, AuditoriaInv, TrazaInv, PTL

=============================================================================
