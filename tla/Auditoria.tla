----------------------------- MODULE Auditoria ------------------------------
(***************************************************************************)
(* The audit trail (src/schematics/audit) under the writes it records.     *)
(*                                                                         *)
(* save() and softRemove() hold a connection of the pool, open a           *)
(* transaction on it and call AuditSubscriber before the UPDATE, or after  *)
(* the INSERT.  The subscriber writes its row through e.connection, that   *)
(* is with a second connection and outside that transaction.               *)
(*                                                                         *)
(* A row has columns the audit shows, columns marked @AuditExclude() and   *)
(* dates, which the audit shows but cannot compare.                        *)
(***************************************************************************)
EXTENDS Integers, Sequences, FiniteSets

CONSTANTS
  Filas,       \* rows of audited tables
  Cuentas,     \* those of table Usuario
  Valores,     \* values of a column
  Fechas,      \* values of a column that holds a date, when it is not null
  Nuevas,      \* what handlers create rows with
  Autores,     \* users a request may carry a token of
  Tareas,      \* requests the model lets run at the same time
  PoolSize,    \* connections of the pool (10 by default)
  Nada,
  MaxPeticiones, MaxFallas  \* bounds: saves and removals asked for, failures

Columnas == {"visible", "oculta", "fecha", "updatedAt", "borrada"}
Momentos == Nat
Fila ==
  [visible: Valores, oculta: Valores, fecha: Fechas \cup {Nada}, updatedAt: Momentos,
   borrada: BOOLEAN]

(* procesada is the key _auditProcessed, which no row has and an entity    *)
(* whose creation was audited carries from then on.                        *)
Snapshot ==
  [visible: Valores, fecha: Fechas \cup {Nada}, updatedAt: Momentos, borrada: BOOLEAN,
   procesada: BOOLEAN]

AuditActions == {"CREATE", "UPDATE", "SOFT_DELETE"}
AuditLog ==
  [entityId: Filas, action: AuditActions,
   beforeJson: Snapshot \cup {Nada}, afterJson: Snapshot \cup {Nada},
   userId: Autores \cup Filas \cup {0},
   suerte: {"pendiente", "confirmada", "revertida"}]  \* history: what became of the write

ASSUME AuditoriaAssumption ==
  /\ Cuentas \subseteq Filas /\ 0 \notin Filas
  /\ Nuevas \subseteq {f \in Fila : f.updatedAt = 0 /\ ~f.borrada}
  /\ IsFiniteSet(Tareas)
  /\ PoolSize \in Nat \ {0}
  /\ MaxPeticiones \in Nat /\ MaxFallas \in Nat
  /\ Nada \notin Fila \cup Snapshot \cup Filas \cup Autores

VARIABLES
  fila,        \* the committed rows
  log,         \* table audit_log, which commits by itself
  tarea,       \* the requests in flight
  reloj,       \* writes committed so far: the clock of CURRENT_TIMESTAMP
  peticiones, fallas,
  solapadas,   \* history: rows two requests wrote at once
  sinRegistro  \* history: rows whose audit insert failed

vars == <<fila, log, tarea, reloj, peticiones, fallas, solapadas, sinRegistro>>

Pasos == {"libre", "conectar", "insertar", "auditar", "escribir"}

Tarea ==
  [pc: Pasos, action: AuditActions, fila: Filas \cup {Nada}, ctx: Autores \cup {Nada},
   entity: Fila \cup {Nada}, procesada: BOOLEAN, databaseEntity: Fila \cup {Nada},
   conexion: BOOLEAN, registro: Nat]

Libre ==
  [pc |-> "libre", action |-> "CREATE", fila |-> Nada, ctx |-> Nada, entity |-> Nada,
   procesada |-> FALSE, databaseEntity |-> Nada, conexion |-> FALSE, registro |-> 0]

Init ==
  /\ fila = [e \in Filas |-> Nada]
  /\ log = <<>>
  /\ tarea = [t \in Tareas |-> Libre]
  /\ reloj = 0 /\ peticiones = 0 /\ fallas = 0
  /\ solapadas = {} /\ sinRegistro = {}

-----------------------------------------------------------------------------
En(t, paso) == tarea[t].pc = paso

Conectadas == {t \in Tareas : tarea[t].conexion}
HayConexion == Cardinality(Conectadas) < PoolSize

(* What becomes of the audit row a write has left, if it left one.         *)
Cerrar(t, suerte) ==
  log' = IF tarea[t].registro = 0 THEN log
         ELSE [log EXCEPT ![tarea[t].registro].suerte = suerte]

(* Mutant of Liberar: the queryRunner is not released.                     *)
LiberarSinSoltar(t) == tarea' = [tarea EXCEPT ![t] = [Libre EXCEPT !.conexion = TRUE]]

(* The queryRunner is released and the handler answers.                    *)
Liberar(t) == tarea' = [tarea EXCEPT ![t] = Libre]

(* A handler calls save() or softRemove(); the entity in its hands is the  *)
(* row as it was read, with one column changed.                            *)
Pedir(t, accion, e, ctx, entity) ==
  /\ En(t, "libre")
  /\ peticiones < MaxPeticiones
  /\ peticiones' = peticiones + 1
  /\ tarea' = [tarea EXCEPT ![t] = [Libre EXCEPT !.pc = "conectar", !.action = accion,
                                                 !.fila = e, !.ctx = ctx, !.entity = entity]]
  /\ solapadas' = IF \E o \in Tareas : tarea[o].fila = e THEN solapadas \cup {e} ELSE solapadas
  /\ UNCHANGED <<fila, log, reloj, fallas, sinRegistro>>

Crear(t, e, ctx) ==
  /\ fila[e] = Nada
  /\ \A o \in Tareas : tarea[o].fila # e   \* the id is generated
  /\ \E entity \in Nuevas : Pedir(t, "CREATE", e, ctx, entity)

(* What a handler may do to the row it has read: change one column.        *)
Cambios(entity) ==
  ({[entity EXCEPT ![c] = v] : c \in {"visible", "oculta"}, v \in Valores}
     \cup {[entity EXCEPT !.fecha = f] : f \in Fechas \cup {Nada}}) \ {entity}

Editar(t, e, ctx) ==
  /\ fila[e] # Nada
  /\ ~fila[e].borrada
  /\ \E entity \in Cambios(fila[e]) : Pedir(t, "UPDATE", e, ctx, entity)

Quitar(t, e, ctx) ==
  /\ fila[e] # Nada
  /\ ~fila[e].borrada
  /\ Pedir(t, "SOFT_DELETE", e, ctx, [fila[e] EXCEPT !.borrada = TRUE])

(* save() takes a connection and SELECTs the row; when no column differs   *)
(* it does nothing, and no subscriber is called.  softRemove() goes on     *)
(* whatever it finds.                                                      *)
Conectar(t) ==
  LET i == tarea[t]
      igual == i.action = "UPDATE" /\ fila[i.fila] = i.entity
  IN
  /\ En(t, "conectar")
  /\ HayConexion
  /\ \/ /\ i.action = "CREATE"
        /\ tarea' = [tarea EXCEPT ![t].pc = "insertar", ![t].conexion = TRUE]
     \/ /\ i.action # "CREATE"
        /\ ~igual
        /\ tarea' = [tarea EXCEPT ![t].pc = "auditar", ![t].conexion = TRUE,
                                  ![t].databaseEntity = fila[i.fila]]
     \/ igual /\ Liberar(t)
  /\ UNCHANGED <<fila, log, reloj, peticiones, fallas, solapadas, sinRegistro>>

(* The INSERT, in the open transaction: nobody else sees the row yet.      *)
Insertar(t) ==
  /\ En(t, "insertar")
  /\ tarea' = [tarea EXCEPT ![t].pc = "auditar", ![t].entity.updatedAt = reloj]
  /\ UNCHANGED <<fila, log, reloj, peticiones, fallas, solapadas, sinRegistro>>

-----------------------------------------------------------------------------
(* AuditSubscriber.writeLog.                                               *)

(* Mutant of SinCambioVisible: the comparison is of the excluded columns.  *)
SinCambioOculto(i) == i.databaseEntity.oculta = i.entity.oculta

(* stableStringifyForAudit of a row or a snapshot: every Date becomes {},  *)
(* so of a date it only shows whether there is one.  updatedAt is never    *)
(* null.                                                                   *)
Legible(p) == [visible |-> p.visible, conFecha |-> p.fecha # Nada, borrada |-> p.borrada]

(* areAuditSnapshotsEqual                                                  *)
SinCambioVisible(i) == ~i.procesada /\ Legible(i.databaseEntity) = Legible(i.entity)

SeOmite(i) == i.action = "UPDATE" /\ SinCambioVisible(i)

(* The user LoggingMiddleware put in the request's context, if any.        *)
GetUserIdFromToken(i) == i.ctx

(* Mutant of ResolvedUserId: only the request knows who it is.             *)
UsuarioDelContexto(i) == GetUserIdFromToken(i)

(* Without a user in the context, an account's row is its own user's.      *)
ResolvedUserId(i) ==
  IF GetUserIdFromToken(i) # Nada THEN GetUserIdFromToken(i)
  ELSE IF i.fila \in Cuentas THEN i.fila ELSE 0

(* toPlainForAudit: the columns that are not excluded, and what else the   *)
(* entity carries.                                                         *)
ToPlain(entity, procesada) ==
  [visible |-> entity.visible, fecha |-> entity.fecha, updatedAt |-> entity.updatedAt,
   borrada |-> entity.borrada, procesada |-> procesada]

BeforePlain(i) == IF i.action = "CREATE" THEN Nada ELSE ToPlain(i.databaseEntity, FALSE)

(* Mutant of AfterPlain: the row the database had.                         *)
AfterPlainViejo(i) ==
  IF i.action = "SOFT_DELETE" THEN Nada
  ELSE IF i.action = "UPDATE" THEN BeforePlain(i) ELSE ToPlain(i.entity, i.procesada)

(* The entity before its UPDATE: the updatedAt is still the one it had.    *)
AfterPlain(i) == IF i.action = "SOFT_DELETE" THEN Nada ELSE ToPlain(i.entity, i.procesada)

Registro(i) ==
  [entityId |-> i.fila, action |-> i.action, beforeJson |-> BeforePlain(i),
   afterJson |-> AfterPlain(i), userId |-> ResolvedUserId(i), suerte |-> "pendiente"]

Omitir(t) ==
  /\ En(t, "auditar")
  /\ SeOmite(tarea[t])
  /\ tarea' = [tarea EXCEPT ![t].pc = "escribir"]
  /\ UNCHANGED <<fila, log, reloj, peticiones, fallas, solapadas, sinRegistro>>

(* The insert waits for a second connection, for as long as it takes.      *)
Auditar(t) ==
  /\ En(t, "auditar")
  /\ ~SeOmite(tarea[t])
  /\ HayConexion
  /\ log' = Append(log, Registro(tarea[t]))
  /\ tarea' = [tarea EXCEPT ![t].pc = "escribir", ![t].registro = Len(log) + 1]
  /\ UNCHANGED <<fila, reloj, peticiones, fallas, solapadas, sinRegistro>>

(* The insert fails: the subscriber logs the error and the write goes on.  *)
AuditarFalla(t) ==
  /\ En(t, "auditar")
  /\ ~SeOmite(tarea[t])
  /\ HayConexion
  /\ fallas < MaxFallas
  /\ fallas' = fallas + 1
  /\ sinRegistro' = sinRegistro \cup {tarea[t].fila}
  /\ tarea' = [tarea EXCEPT ![t].pc = "escribir"]
  /\ UNCHANGED <<fila, log, reloj, peticiones, solapadas>>

-----------------------------------------------------------------------------
(* The UPDATE of the columns that differed from the row SELECTed, and the  *)
(* commit; for an INSERT, the commit.  updatedAt is the time of the write  *)
(* unless it is itself one of the columns that differed.                   *)

FilaEscrita(i) ==
  LET ahora == [fila[i.fila] EXCEPT !.updatedAt = reloj + 1]
  IN CASE i.action = "CREATE" -> i.entity
       [] i.action = "SOFT_DELETE" -> [ahora EXCEPT !.borrada = TRUE]
       [] i.action = "UPDATE" ->
            [c \in Columnas |-> IF i.entity[c] # i.databaseEntity[c] THEN i.entity[c]
                                ELSE ahora[c]]

(* A handler that has created a row may go on with its entity and save it  *)
(* again.                                                                  *)
GuardarDeNuevo(t) ==
  LET i == tarea[t] IN
  /\ i.action = "CREATE"
  /\ peticiones < MaxPeticiones
  /\ peticiones' = peticiones + 1
  /\ \E entity \in Cambios(i.entity) :
       tarea' = [tarea EXCEPT ![t] =
         [Libre EXCEPT !.pc = "conectar", !.action = "UPDATE", !.fila = i.fila, !.ctx = i.ctx,
                       !.entity = entity, !.procesada = (i.registro # 0)]]

Escribir(t) ==
  /\ En(t, "escribir")
  /\ fila' = [fila EXCEPT ![tarea[t].fila] = FilaEscrita(tarea[t])]
  /\ reloj' = reloj + 1
  /\ Cerrar(t, "confirmada")
  /\ \/ Liberar(t) /\ UNCHANGED peticiones
     \/ GuardarDeNuevo(t)
  /\ UNCHANGED <<fallas, solapadas, sinRegistro>>

(* A statement fails: the transaction is rolled back.  What the audit      *)
(* wrote stays.                                                            *)
Revertir(t) ==
  /\ tarea[t].conexion
  /\ fallas < MaxFallas
  /\ fallas' = fallas + 1
  /\ Cerrar(t, "revertida")
  /\ Liberar(t)
  /\ UNCHANGED <<fila, reloj, peticiones, solapadas, sinRegistro>>

(* The process dies and is started again; open transactions roll back.     *)
Caida ==
  /\ fallas < MaxFallas
  /\ fallas' = fallas + 1
  /\ log' = [n \in DOMAIN log |-> IF log[n].suerte = "pendiente"
                                  THEN [log[n] EXCEPT !.suerte = "revertida"] ELSE log[n]]
  /\ tarea' = [t \in Tareas |-> Libre]
  /\ UNCHANGED <<fila, reloj, peticiones, solapadas, sinRegistro>>

Avanzar(t) ==
  \/ Conectar(t) \/ Insertar(t) \/ Omitir(t) \/ Auditar(t) \/ Escribir(t)

Next ==
  \/ \E t \in Tareas, e \in Filas, ctx \in Autores \cup {Nada} :
       Crear(t, e, ctx) \/ Editar(t, e, ctx) \/ Quitar(t, e, ctx)
  \/ \E t \in Tareas : Avanzar(t) \/ AuditarFalla(t) \/ Revertir(t)
  \/ Caida

(* The event loop runs what is ready, and the pool serves its queue.       *)
Spec == Init /\ [][Next]_vars /\ \A t \in Tareas : WF_vars(Avanzar(t))

-----------------------------------------------------------------------------
TypeOK ==
  /\ fila \in [Filas -> Fila \cup {Nada}]
  /\ log \in Seq(AuditLog)
  /\ tarea \in [Tareas -> Tarea]
  /\ reloj \in Momentos /\ peticiones \in 0..MaxPeticiones /\ fallas \in 0..MaxFallas
  /\ solapadas \subseteq Filas /\ sinRegistro \subseteq Filas

(* GET /audit, over all its pages: the entries that agree with the filters *)
(* given.  A filter whose value is 0 is not applied.  A row's number and   *)
(* the name of its table are one filter here, entityId.                    *)
Search(request) ==
  {n \in DOMAIN log : \A campo \in DOMAIN request : request[campo] \in {0, log[n][campo]}}

Confirmados(e) == {n \in Search([entityId |-> e]) : log[n].suerte = "confirmada"}
UltimoDe(e) == CHOOSE n \in Confirmados(e) : \A o \in Confirmados(e) : o <= n

Visto(p) == IF p = Nada THEN Nada ELSE Legible(p)

(* Each committed entry of a row starts where the one before it ended.     *)
Encadenadas(e) ==
  \A m, n \in Confirmados(e) :
    m < n /\ (\A k \in Confirmados(e) : k <= m \/ n <= k) =>
      Visto(log[n].beforeJson) = Visto(log[m].afterJson)

(* The trail can be replayed, but for the values of dates: of a row no two *)
(* requests wrote at once, and whose audit inserts all succeeded, the      *)
(* entries of committed writes form a chain whose last link shows what the *)
(* row has now, and nothing for a removed one.  Entries of writes that     *)
(* were rolled back stay between them.  Of a date the chain says whether   *)
(* there is one: a write that only moves dates, as the renewal of a        *)
(* subscription does (suscripcion.service.ts:332-346), leaves no entry.    *)
TrazaReconstruye ==
  \A e \in Filas \ (solapadas \cup sinRegistro) :
    fila[e] # Nada =>
      /\ Confirmados(e) # {}
      /\ Encadenadas(e)
      /\ Visto(log[UltimoDe(e)].afterJson) =
           IF fila[e].borrada THEN Nada ELSE Legible(fila[e])

(* What requests that overlap cannot keep out of the trail.                *)
Firme(p) == [visible |-> p.visible, borrada |-> p.borrada]

(* Even when requests overlap, no committed creation, removal or change of *)
(* an audited column that holds no date is missing from the trail, unless  *)
(* its audit insert failed: the step that commits it confirms an entry of  *)
(* that row.  A date is another matter: one that goes from a value to      *)
(* another leaves no entry, and so neither does one that another request   *)
(* has set to null in between.                                             *)
CambioConTraza ==
  [][\A e \in Filas \ sinRegistro :
       fila'[e] # Nada /\ (fila[e] = Nada \/ Firme(fila'[e]) # Firme(fila[e])) =>
         \E n \in DOMAIN log :
           log[n].entityId = e /\ log[n].suerte = "pendiente" /\ log'[n].suerte = "confirmada"]_vars

(* Every connection of the pool is held by a write whose audit row waits   *)
(* for another one: nobody will ever release any.                          *)
PoolTrabado == ~HayConexion /\ \A t \in Conectadas : En(t, "auditar") /\ ~SeOmite(tarea[t])

(* A write ends, unless the pool has locked up: which takes as many        *)
(* writes at once as the pool has connections.                             *)
EscrituraTermina ==
  \A t \in Tareas : ~En(t, "libre") ~> En(t, "libre") \/ PoolTrabado

(* "No lanzar el error para no interrumpir la operación principal"         *)
(* (audit.subscriber.ts:36): the audit never keeps the write it records    *)
(* from going on.                                                          *)
AuditoriaNoInterrumpe ==
  \A t \in Tareas : En(t, "auditar") ~> ~En(t, "auditar")

=============================================================================
