--------------------------- MODULE Notificaciones ---------------------------
(***************************************************************************)
(* Push notifications (src/schematics/notifications): the registration of  *)
(* a device's FCM token, the sends to one or several users with the        *)
(* history row each user gets, and the paged history an app reads and      *)
(* marks.  Registrations and sends interleave at every await; none of them *)
(* opens a transaction.  Rows are kept in the order they were created: the *)
(* id of a row is its place.                                               *)
(***************************************************************************)
EXTENDS Integers, Sequences, FiniteSets, SequencesExt

CONSTANTS
  Usuarios,
  Tokens,        \* FCM tokens of the installed apps
  Instalados,    \* token rows there are already
  Registros,     \* <<user, token>> pairs apps register
  Lectores,      \* users who read their history
  Tareas,        \* requests the model lets run at the same time
  Envios,        \* sends to consider: [lista, tipo], the users in order
  Nada,
  LimiteFcm,     \* tokens one multicast takes (500 in firebase-admin)
  PorPagina,     \* page size of the reader
  MaxFilas, MaxAvisos,        \* bounds: token rows, history rows
  MaxPeticiones, MaxFallas    \* bounds: requests made, failures

TipoNotificacionEnum == {"NUEVA_VERSION", "OTRO"}

(* platform, deviceId and deviceName are left out: no property tells them  *)
(* apart.                                                                  *)
FilaToken == [usuario: Usuarios, token: Tokens]
FilaAviso == [usuario: Usuarios, tipo: TipoNotificacionEnum, leido: BOOLEAN]

ASSUME NotificacionesAssumption ==
  /\ Envios \subseteq [lista: Seq(Usuarios), tipo: STRING]
  /\ Instalados \in Seq(FilaToken) /\ Len(Instalados) <= MaxFilas
  /\ Registros \subseteq Usuarios \X Tokens /\ Lectores \subseteq Usuarios
  /\ LimiteFcm \in Nat /\ PorPagina \in Nat \ {0}
  /\ MaxFilas \in Nat /\ MaxAvisos \in Nat
  /\ MaxPeticiones \in Nat /\ MaxFallas \in Nat
  /\ Nada \notin Usuarios \cup Tokens

VARIABLES
  fcmLista,    \* FirebaseService.isReady()
  dispositivo, \* table noti_01_device_token
  historial,   \* table noti_02_mov_notificacion
  entregas,    \* messages FCM accepted: how many, by notification and token
  tarea,       \* the requests in flight
  lector,      \* an app that reads its history page by page
  peticiones, fallas,
  solapados    \* history: <<user, token>> registered by two requests at once

vars == <<fcmLista, dispositivo, historial, entregas, tarea, lector, peticiones, fallas, solapados>>

Ids == 1..MaxAvisos
Filas == 1..MaxFilas

(* The tokens of some rows.                                                *)
TokensPorFila == UNION {[filas -> Tokens] : filas \in SUBSET Filas}
SinTokens == [f \in {} |-> Nada]

Pasos == {"libre", "buscar", "actualizar", "insertar",
          "destinatarios", "persistir", "leerTokens", "enviar"}

Tarea ==
  [pc: Pasos, usuario: Usuarios \cup {Nada}, token: Tokens \cup {Nada},
   pedidos: Seq(Usuarios),  \* usuarioIds
   atendidos: Nat,          \* recipients the loop is done with
   tipo: STRING \cup {Nada}, tokens: TokensPorFila,
   creados: Seq(Ids)]       \* history: the notifications this send persisted

Libre ==
  [pc |-> "libre", usuario |-> Nada, token |-> Nada,
   pedidos |-> <<>>, atendidos |-> 0, tipo |-> Nada, tokens |-> SinTokens, creados |-> <<>>]

(* onModuleInit of FirebaseService.  A bad credential never stops the      *)
(* program: it leaves the service not ready.                               *)
ConfigFirebase ==
  [enabled: BOOLEAN, yaIniciada: BOOLEAN,
   cuenta: {"ausente", "json", "archivo", "base64", "invalida"},
   credentialsPath: {"ausente", "valida", "invalida"}]

IniciaFirebase(c) ==
  /\ c.enabled
  /\ \/ c.yaIniciada
     \/ c.cuenta \in {"json", "archivo", "base64"}
     \/ c.cuenta = "ausente" /\ c.credentialsPath \in {"ausente", "valida"}

Lector ==
  [activo: BOOLEAN, usuario: Usuarios \cup {Nada}, pagina: Nat, vistos: SUBSET Ids,
   alInicio: SUBSET Ids, marcadas: BOOLEAN]

LectorQuieto ==
  [activo |-> FALSE, usuario |-> Nada, pagina |-> 0, vistos |-> {}, alInicio |-> {},
   marcadas |-> FALSE]

(* Rows there are already that only two requests at once can have left.    *)
Repetidos ==
  {r \in Usuarios \X Tokens :
     \E f, g \in DOMAIN Instalados :
       /\ f # g /\ Instalados[f] = Instalados[g]
       /\ r = <<Instalados[f].usuario, Instalados[f].token>>}

Init ==
  /\ fcmLista \in {IniciaFirebase(c) : c \in ConfigFirebase}
  /\ dispositivo = Instalados
  /\ historial = <<>>
  /\ entregas = [i \in Ids |-> [d \in Tokens |-> 0]]
  /\ tarea = [t \in Tareas |-> Libre]
  /\ lector = LectorQuieto
  /\ peticiones = 0 /\ fallas = 0
  /\ solapados = Repetidos

-----------------------------------------------------------------------------
En(t, paso) == tarea[t].pc = paso
Terminar(t) == tarea' = [tarea EXCEPT ![t] = Libre]

(* POST /notifications/device-token.                                       *)

NuevaPeticion(t) ==
  /\ En(t, "libre")
  /\ peticiones < MaxPeticiones
  /\ peticiones' = peticiones + 1

PedirRegistro(t, u, d) ==
  /\ NuevaPeticion(t)
  /\ tarea' = [tarea EXCEPT ![t] = [Libre EXCEPT !.pc = "buscar", !.usuario = u, !.token = d]]
  /\ solapados' = IF \E o \in Tareas : tarea[o].usuario = u /\ tarea[o].token = d
                  THEN solapados \cup {<<u, d>>} ELSE solapados
  /\ UNCHANGED <<fcmLista, dispositivo, historial, entregas, lector, fallas>>

(* Mutant of FilasDe: the lookup finds nothing.                            *)
FilasNunca(u, d) == {}

FilasDe(u, d) ==
  {f \in DOMAIN dispositivo : dispositivo[f].usuario = u /\ dispositivo[f].token = d}

(* findOneByUsuarioAndToken.                                               *)
BuscarToken(t) ==
  LET existentes == FilasDe(tarea[t].usuario, tarea[t].token) IN
  /\ En(t, "buscar")
  /\ tarea' = [tarea EXCEPT ![t].pc = IF existentes = {} THEN "insertar" ELSE "actualizar"]
  /\ UNCHANGED <<fcmLista, dispositivo, historial, entregas, lector, peticiones, fallas, solapados>>

ActualizarToken(t) ==
  /\ En(t, "actualizar")
  /\ Terminar(t)
  /\ UNCHANGED <<fcmLista, dispositivo, historial, entregas, lector, peticiones, fallas, solapados>>

InsertarToken(t) ==
  LET i == tarea[t] IN
  /\ En(t, "insertar")
  /\ Len(dispositivo) < MaxFilas
  /\ dispositivo' = Append(dispositivo, [usuario |-> i.usuario, token |-> i.token])
  /\ Terminar(t)
  /\ UNCHANGED <<fcmLista, historial, entregas, lector, peticiones, fallas, solapados>>

-----------------------------------------------------------------------------
(* sendToUser, sendToUsers: one history row per user, then its devices.    *)

PedirEnvio(t, e) ==
  /\ NuevaPeticion(t)
  /\ e.lista # <<>>
  /\ tarea' = [tarea EXCEPT ![t] = [Libre EXCEPT !.pc = "persistir", !.pedidos = e.lista,
                                                 !.tipo = e.tipo]]
  /\ UNCHANGED <<fcmLista, dispositivo, historial, entregas, lector, fallas, solapados>>

(* Mutant of TipoDe: the type the caller gave, whatever it is.             *)
TipoCrudo(tipo) == tipo

TipoDe(tipo) == IF tipo \in TipoNotificacionEnum THEN tipo ELSE "OTRO"

Destinatario(i) == i.pedidos[i.atendidos + 1]

(* Mutant of Siguiente: the loop waits for a user without devices.         *)
SiguienteTrasEnviar(i) ==
  IF i.pc = "leerTokens" THEN i
  ELSE IF i.atendidos + 1 = Len(i.pedidos) THEN Libre
  ELSE [i EXCEPT !.pc = "persistir", !.atendidos = @ + 1]

(* Mutant of Siguiente: a user without devices ends the loop.              *)
SiguienteCorta(i) ==
  IF i.pc = "leerTokens" \/ i.atendidos + 1 = Len(i.pedidos) THEN Libre
  ELSE [i EXCEPT !.pc = "persistir", !.atendidos = @ + 1]

(* The next turn of the for loop, or its end.                              *)
Siguiente(i) ==
  IF i.atendidos + 1 = Len(i.pedidos) THEN Libre
  ELSE [i EXCEPT !.pc = "persistir", !.atendidos = @ + 1]

Persistir(t) ==
  LET i == tarea[t] IN
  /\ En(t, "persistir")
  /\ Len(historial) < MaxAvisos
  /\ historial' = Append(historial, [usuario |-> Destinatario(i), tipo |-> TipoDe(i.tipo),
                                     leido |-> FALSE])
  /\ tarea' = [tarea EXCEPT ![t].pc = "leerTokens",
                            ![t].creados = Append(@, Len(historial) + 1)]
  /\ UNCHANGED <<fcmLista, dispositivo, entregas, lector, peticiones, fallas, solapados>>

(* Mutant of TokensDe: findAllFcmTokens in place of findTokensByUsuarioId. *)
TokensDeTodos(u) == [f \in DOMAIN dispositivo |-> dispositivo[f].token]

(* One token for each row of the user: nothing depends on their order.     *)
TokensDe(u) ==
  [f \in {g \in DOMAIN dispositivo : dispositivo[g].usuario = u} |-> dispositivo[f].token]

LeerTokens(t) ==
  LET i == tarea[t]
      fcmTokens == TokensDe(Destinatario(i))
  IN
  /\ En(t, "leerTokens")
  /\ tarea' = [tarea EXCEPT ![t] = IF DOMAIN fcmTokens = {} THEN Siguiente(i)
                                   ELSE [i EXCEPT !.pc = "enviar", !.tokens = fcmTokens]]
  /\ UNCHANGED <<fcmLista, dispositivo, historial, entregas, lector, peticiones, fallas, solapados>>

(* sendToTokens: FCM accepts some of the messages.  Without credentials,   *)
(* over the limit of one multicast, or when the call fails, it is none,    *)
(* and no error reaches the caller.                                        *)
Aceptables(fcmTokens) ==
  IF fcmLista /\ Cardinality(DOMAIN fcmTokens) <= LimiteFcm THEN SUBSET DOMAIN fcmTokens ELSE {{}}

Enviar(t) ==
  LET i == tarea[t]
      id == Last(i.creados)
  IN
  /\ En(t, "enviar")
  /\ \E aceptados \in Aceptables(i.tokens) :
       /\ entregas' = [entregas EXCEPT ![id] =
            [d \in Tokens |-> @[d] + Cardinality({k \in aceptados : i.tokens[k] = d})]]
  /\ tarea' = [tarea EXCEPT ![t] = Siguiente(i)]
  /\ UNCHANGED <<fcmLista, dispositivo, historial, lector, peticiones, fallas, solapados>>

(* sendToAllUsers: findDistinctUsuarioIds selects dt.rela_pers01, a column *)
(* the table does not have, so the query throws.                           *)
PedirDifusion(t) ==
  /\ NuevaPeticion(t)
  /\ tarea' = [tarea EXCEPT ![t] = [Libre EXCEPT !.pc = "destinatarios"]]
  /\ UNCHANGED <<fcmLista, dispositivo, historial, entregas, lector, fallas, solapados>>

LeerDestinatarios(t) ==
  /\ En(t, "destinatarios")
  /\ Terminar(t)
  /\ UNCHANGED <<fcmLista, dispositivo, historial, entregas, lector, peticiones, fallas, solapados>>

(* A query fails and the handler throws, or the process dies: what was     *)
(* already written or sent stays.                                          *)
Falla(t) ==
  /\ ~En(t, "libre") /\ ~En(t, "enviar")
  /\ fallas < MaxFallas
  /\ fallas' = fallas + 1
  /\ Terminar(t)
  /\ UNCHANGED <<fcmLista, dispositivo, historial, entregas, lector, peticiones, solapados>>

Caida ==
  /\ fallas < MaxFallas
  /\ fallas' = fallas + 1
  /\ tarea' = [t \in Tareas |-> Libre]
  /\ UNCHANGED <<fcmLista, dispositivo, historial, entregas, lector, peticiones, solapados>>

-----------------------------------------------------------------------------
(* GET /notifications?soloNoLeidas=true, page after page, newest first,    *)
(* and PATCH /notifications/:id/read.                                      *)

NoLeidas(u) == {n \in DOMAIN historial : historial[n].usuario = u /\ ~historial[n].leido}

(* Mutant of GetOffset: pages counted from zero.                           *)
GetOffsetDesdeCero(pagina) == pagina * PorPagina

GetOffset(pagina) == (pagina - 1) * PorPagina

(* The place of n in s, newest first.                                      *)
Lugar(n, s) == Cardinality({m \in s : m >= n})

Pagina(u, pagina) ==
  LET no == NoLeidas(u) IN
  {n \in no : Lugar(n, no) \in GetOffset(pagina) + 1 .. GetOffset(pagina) + PorPagina}

EmpezarLectura(u) ==
  /\ ~lector.activo
  /\ lector' = [activo |-> TRUE, usuario |-> u, pagina |-> 1, vistos |-> {},
                alInicio |-> NoLeidas(u), marcadas |-> FALSE]
  /\ UNCHANGED <<fcmLista, dispositivo, historial, entregas, tarea, peticiones, fallas, solapados>>

(* The app asks for the next page until one comes short.                   *)
LeerPagina ==
  LET pagina == Pagina(lector.usuario, lector.pagina) IN
  /\ lector.activo
  /\ lector' = IF Cardinality(pagina) < PorPagina THEN LectorQuieto
               ELSE [lector EXCEPT !.pagina = @ + 1, !.vistos = @ \cup pagina]
  /\ UNCHANGED <<fcmLista, dispositivo, historial, entregas, tarea, peticiones, fallas, solapados>>

(* markAsRead: UPDATE ... WHERE id AND user.                               *)
MarkAsRead(u, n) ==
  /\ historial[n].usuario = u
  /\ historial' = [historial EXCEPT ![n].leido = TRUE]
  /\ lector' = [lector EXCEPT !.marcadas = @ \/ (lector.activo /\ lector.usuario = u)]
  /\ UNCHANGED <<fcmLista, dispositivo, entregas, tarea, peticiones, fallas, solapados>>

-----------------------------------------------------------------------------
Pedir(t) ==
  \/ \E r \in Registros : PedirRegistro(t, r[1], r[2])
  \/ \E e \in Envios : PedirEnvio(t, e)
  \/ PedirDifusion(t)

Avanzar(t) ==
  \/ BuscarToken(t) \/ ActualizarToken(t) \/ InsertarToken(t)
  \/ Persistir(t) \/ LeerTokens(t) \/ Enviar(t) \/ LeerDestinatarios(t)

Next ==
  \/ \E t \in Tareas : Pedir(t) \/ Avanzar(t) \/ Falla(t)
  \/ Caida
  \/ \E u \in Lectores : EmpezarLectura(u)
  \/ \E u \in Lectores, n \in DOMAIN historial : MarkAsRead(u, n)
  \/ LeerPagina

(* The event loop runs every pending request, and FCM answers or fails.    *)
Spec == Init /\ [][Next]_vars /\ \A t \in Tareas : WF_vars(Avanzar(t))

-----------------------------------------------------------------------------
TypeOK ==
  /\ fcmLista \in BOOLEAN
  /\ dispositivo \in Seq(FilaToken) /\ Len(dispositivo) <= MaxFilas
  /\ historial \in Seq(FilaAviso) /\ Len(historial) <= MaxAvisos
  /\ entregas \in [Ids -> [Tokens -> Nat]]
  /\ tarea \in [Tareas -> Tarea]
  /\ lector \in Lector
  /\ peticiones \in 0..MaxPeticiones /\ fallas \in 0..MaxFallas
  /\ solapados \subseteq Usuarios \X Tokens

(* The app marks a notification as read with the notificacionId its push   *)
(* carried: whatever interleaves or fails, a push FCM accepted carries the *)
(* id of a row of the history, and the row belongs to a user who           *)
(* registered the device the push went to.                                 *)
PushAbreSuAviso ==
  \A n \in Ids, d \in Tokens :
    entregas[n][d] > 0 =>
      /\ n \in DOMAIN historial
      /\ \E f \in DOMAIN dispositivo :
           dispositivo[f].usuario = historial[n].usuario /\ dispositivo[f].token = d

(* registerDeviceToken looks the pair up before it inserts so that a       *)
(* device is not registered twice: a device gets a notification twice only *)
(* if two registrations of that user and device overlapped.                *)
UnPushPorDispositivo ==
  \A n \in DOMAIN historial, d \in Tokens :
    entregas[n][d] > 1 => <<historial[n].usuario, d>> \in solapados

(* A send that ends without an error left one notification in the history  *)
(* of each recipient, in their order, the ones without a device included.  *)
CadaDestinatario ==
  [][\A t \in Tareas :
       LET i == tarea[t] IN
       i.pedidos # <<>> /\ tarea'[t] = Libre /\ fallas' = fallas =>
         /\ Len(i.creados) = Len(i.pedidos)
         /\ \A k \in DOMAIN i.pedidos : historial[i.creados[k]].usuario = i.pedidos[k]]_vars

(* A reader of the unread history, page after page, gets everything that   *)
(* was unread when it started although notifications arrive meanwhile,     *)
(* unless some are marked as read meanwhile, which moves the later ones to *)
(* pages it has already read.                                              *)
LecturaCompleta ==
  [][lector.activo /\ lector' = LectorQuieto /\ ~lector.marcadas =>
       lector.alInicio \subseteq lector.vistos \cup Pagina(lector.usuario, lector.pagina)]_vars

(* The bound of the model stops a send.                                    *)
SinLugar(t) == En(t, "persistir") /\ Len(historial) = MaxAvisos

(* Every send reaches its end, whatever FCM answers and whoever of its     *)
(* recipients has no device.                                               *)
EnvioTermina ==
  \A t \in Tareas : tarea[t].pedidos # <<>> ~> tarea[t].pedidos = <<>> \/ SinLugar(t)

=============================================================================
