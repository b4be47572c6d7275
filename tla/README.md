# PuestoGo API: a TLA+ model

PuestoGo is a NestJS service (TypeORM over MySQL) that keeps user accounts,
sells subscriptions through Mercado Pago, sends push notifications through
Firebase, stores pictures in an S3-like bucket and writes an audit log of its
own database writes. This directory holds TLA+ specifications of its stateful
parts, TLC configurations that check them on small instances, and theorems that
TLAPS proves for every instance.

Paths below are relative to `src/src/` of the repository unless they start with
`src/`; `PROJECT.json` names, for every definition that models code, the lines
it models.

## 1. The system

One Node process (`k8s` asks for one replica) serves HTTP requests. Requests
interleave at every `await`; between two awaits a handler runs alone. All
durable state is in MySQL. Almost no handler opens a transaction (only
`usuario.service.ts` `remove` does), and almost every write is TypeORM's
`repository.save(entity)` on an entity that was read some awaits earlier.

| Component | State | Operations | Hard behaviour | What makes it correct |
|---|---|---|---|---|
| Subscriptions (`schematics/suscripcion`) | payment rows, one subscription row per user, plans; payments at Mercado Pago and notifications on their way | checkout, webhook, plan application, default row, summary, retiring a plan | overlapping and repeated deliveries, failures between two writes, stale reads, races on the unique key, refunds and rejections out of order | what was charged is credited, once; nobody holds a plan they did not pay for; approved stays approved |
| Plan functions and catalogue (same directory) | plans, functions and their assignment to plans | seeds at start, the functions a plan shows, gate `assertUsuarioTieneFuncion` | two processes seeding at once, a seed that stops half way, users served while another process seeds | whoever serves, the seeded plans have every function of the catalogue; no function is lost on the way |
| Cloud backups (same directory) | one row per synchronisation | store, read one, list | the list is cut at 100; the plan may change | what was answered as stored can be fetched, by its user |
| Webhook signature (`common/utils/mercadopago-webhook.util.ts`) | none | HMAC of the manifest, payment id from query or body | many shapes of the same notification | the id checked is the id handled |
| Accounts (`schematics/usuario`) | user rows with password hash, codes and their expiry, verified and active flags, photo, last access | create, update, remove, login, password change and recovery, verification | whole-entity saves from stale reads, e-mail uniqueness by a query, several writes without a transaction, photos in another store | a password set stays set, a used or expired code does not work, no two accounts take one e-mail |
| Persons (`schematics/persona`) | one row per user | create, update, soft removal | created and removed with the account | no account without its person |
| Sessions (`schematics/auth`, `common/guards`, `middlewares`) | none of its own (tokens carry it), the context of a request | sign-up, login, refresh, logout, recovery, middleware, guards | three secrets and several readers of one token at different moments; nobody revokes tokens | a request is audited as the user it is served as; a removed account is soon served no more |
| Notifications (`schematics/notifications`) | device tokens per user, history | register, send to one or several, broadcast, paged history, read mark | look up then insert, a send that stops half way, pages that move while they are read | a push opens a notice of a user of that device; each recipient gets a notice; a reader misses none |
| Audit (`schematics/audit`) | log rows | subscriber at each write, search | a log row through another pool connection inside the write | every committed change the audit can tell is logged, the log can be replayed, no wait for ever on the pool |
| Storage and images (`common/services`) | objects in the bucket | upload with shrinking, fall-back and retries, delete, read, list | a PUT without an answer may be applied late or hang, names are cleaned into keys | what was answered can be fetched, with its proportion |
| E-mail (`common/email`) | none | send with retries | a retry of a send that was accepted | at least once when the server answers |
| Configuration (`config`, `main.ts`) | the environment of a process | checks before start | a process that must not start | a process with a valid environment ends up serving |
| Errors, filters, interceptors, lookups, dates, health, external authorisation API | none | mapping, parsing, a client | small | pure functions |

How they interact: sessions call accounts and e-mail; creating an account calls
the subscription component for the default row, and every account DTO carries a
subscription summary, so reading an account may insert a subscription row; all
writes pass through the audit subscriber, which takes the author from the context the
middleware opened before any guard ran; account pictures go through storage; what a user may
do in `Funciones` depends on the plan that `Suscripcion` gave them.

The list of what is hard to test here, with its lines and the properties that
cover it, is under "hazards" in `PROJECT.json`.

## 2. Modules

| Module | What it is |
|---|---|
| `Planes` | the catalogue as constants and the arithmetic of a subscription row |
| `Suscripcion` | the subscription component, one action per awaited step, and its safety properties |
| `Acreditacion` | what the component promises to a user who pays, without any handler |
| `Entrega` | `Suscripcion` with fairness and a history of the charges the code gave up on: what reaches the user in the end |
| `MCSuscripcion`, `MCEntrega` | values of the constants for TLC, and the property of the first violation |
| `SuscripcionProofs` | type correctness of `Suscripcion`, who may hold a paid plan, and until when |
| `PagoProofs` | crediting once, what a payment row may do, and the implementation of `Acreditacion` |
| `Cuenta` | accounts: sign-up, sessions, passwords, codes, pictures, update and removal, one action per awaited step |
| `Credencial` | what the component promises about passwords and recovery codes |
| `MCCuenta` | symmetry and the constraint of one search |
| `CuentaProofs` | type correctness of `Cuenta`, what an account keeps when its requests do not overlap, which e-mails two accounts may share, and, one request at a time, the implementation of `Credencial` |
| `Notificaciones` | device tokens, sends, the history and its readers |
| `NotificacionesProofs` | type correctness of `Notificaciones`, who gets which push, what a send leaves in the history, what a reader sees |
| `Auditoria` | the audit subscriber under the writes it records: connections, transactions, entries |
| `AuditoriaProofs` | type correctness of `Auditoria`, that no committed change is missing from the log, and that the log of a row can be replayed |
| `Almacen` | a picture on its way to the bucket |
| `AlmacenProofs` | type correctness of `Almacen`, what can be fetched of an upload, and its size |
| `Funciones` | the seeds of any number of processes, what plans open, cloud backups |
| `FuncionesProofs` | type correctness of `Funciones`, what a serving process finds seeded, and backups |
| `Sesiones` | tokens, who reads them and when, and the accounts behind them |
| `SesionesProofs` | type correctness of `Sesiones`, its identity and its bound on removed accounts |
| `MCNotificaciones`, `MCAuditoria`, `MCAlmacen`, `MCFunciones`, `MCSesiones` | values of the constants for TLC |

`MCSuscripcion` and `MCCuenta` check a component against an abstract module
(`Acreditacion`, `Credencial`) by a refinement mapping. The other components stand alone: the
audit writes of `Auditoria` can be those of any component, and what `Cuenta` and
`Suscripcion` do elsewhere enters `Sesiones` and `Funciones` as an action of the environment
(`Eliminar`, `Desactivar`, `AsignarPlan`).

### How `Suscripcion` corresponds to the code

A request in flight is a *task*: a record with a program counter named for the
next awaited call and with what the handler keeps in local variables. An action
is the code between two awaits together with the call that ends it.

| pc | next awaited call |
|---|---|
| `preferencia` | `createPreference` of Mercado Pago |
| `consultar` | `getPayment` of Mercado Pago |
| `leerPago` | `findOne` of the payment row in `procesarWebhookMercadoPago` |
| `cargarPago`, `guardarPago` | the SELECT and the UPDATE of `save(pago)` |
| `leerPlan` | `findOne` of the active plan in `aplicarPlanTrasPago` |
| `leerSub`, `leerSubDef`, `releerSub` | `findOne` of the subscription row, in `aplicarPlanTrasPago`, in `crearSuscripcionPorDefecto`, and after it |
| `insertarSub` | the INSERT of the default row |
| `cargarSub`, `guardarSub` | the SELECT and the UPDATE of `save(sub)` |

`save()` of an entity with an id is two statements in TypeORM: it selects the row,
compares it with the entity in memory, and updates the columns that differ.
`CargarPago`/`CargarSub` compute that set of columns, the later `Guardar...`
writes only those. Both halves are atomic at the database, nothing is locked
between them. If the row changes in between, columns of two writers mix.

Three checkout configurations (`entorno`): an access token is set, the simulated
checkout is allowed, or neither. The checkout's lookup of the plan and the insert
of the payment row are one action, since nothing the plan lookup reads can make the insert
wrong later than it would at once. A webhook that throws answers with an error
and its notification stays due; one that returns answers 200 and Mercado Pago
forgets it. A query to Mercado Pago that fails inside `getPayment` returns null,
and the handler answers 200: `ConsultaFallida`.

The environment: Mercado Pago creates a payment only for a payment row whose link the
user has received, moves it along `Transiciones` (a cash payment is pending, an approved
payment may be refunded), and owes a notification for each status; it may send any
of them again (`RecibirDuplicado`). The date may jump, an administrator may
deactivate a plan, a call may fail (`Fallar`), the process may restart
(`Reiniciar`: every task is lost, the notifications are not).

History variables do not influence any action: the day each payment was first charged
(`cobradoEn`), how often it has been credited (`acreditaciones`), and the payments
that two tasks have handled at once (`solapados`). `Entrega` adds one, `perdidas`: the payments
the code gave up on, either because the query of the approval failed and the webhook answered 200
(`SinRegistrar`), or because the handler threw or died between saving the row as APROBADO and saving
the period (`SinAcreditar`: a failure, a restart, a plan retired, a race for the default row).

Left out of the data: names, amounts in pesos other than their sign, the Mercado
Pago ids, the time of day (dates count days).

### How `Cuenta` corresponds to the code

The same way of modelling: a task is a request in flight, `fila` is the entity it
holds, and `save()` is `CargarCuenta` (the SELECT and the comparison) followed by
`GuardarCuenta` (the UPDATE of the columns that differ).

| pc | next awaited call |
|---|---|
| `validar` | the look-up of `validateUniqueEmail` in `update` |
| `porEmail` | `findByEmail` of `usuario.service` `changePassword`, after the session's own read |
| `codigo` | the second read of a resend, in `setVerificationCode` |
| `borrarFoto`, `subirFoto` | the two calls to the object store in `resolveFotoPerfil` |
| `persona` | `save` of the person, before the account's |
| `insertar` | the INSERT of a new account |
| `acceso`, `verificar` | the reads of `updateUltimoAcceso` and `markEmailVerified` after a sign-up |
| `cargar`, `guardar` | the SELECT and the UPDATE of `save(usuario)` |

Awaits that read nothing another request can change (bcrypt, building the DTO) are
part of the step before them: what they leave open is the time until the next
database call, in which any other task may act anyway. `save()` finds rows that
were soft-removed, since it selects by id, while queries do not (`Viva`). A
removal is one step because it is the only handler with a transaction. Codes are
numbered as they are drawn, so a code is never drawn twice; two equal draws of six
digits are not considered. Pictures are numbered as they are uploaded; an update brings a file, a URL or
nothing (`Modos`). A URL is stored as it comes and the old picture stays in the store (`ConUrl`): it may be that of
any picture, also of another account, or point outside the store (`Ajena`). The key to
delete is the one in the URL of the row (`BorrarFoto`). A sign-up takes a file or nothing: `create`
sets the picture from the upload alone. What a
request needs of its session is left out: whoever knows the password can have
one, so requests that need a session only need the account. The last access is left
out too, so a login or a logout saves the entity as it read it, which is what matters.
A request that is refused before it writes changes nothing and has no action.

History variables: the password whose write was last answered (`claveVigente`), the time
each code was drawn (`emision`), the recovery codes that set a password (`usados`),
the accounts on which two requests worked at once (`solapadas`), and the e-mails that two requests were giving to an
account at once (`disputados`).

### How `Notificaciones` corresponds to the code

A task is a registration, a send or a broadcast. `BuscarToken` is the look-up of
`registerDeviceToken`, `ActualizarToken` or `InsertarToken` what follows it. A send takes its
recipients one after the other: `Persistir` inserts the history row, `LeerTokens` reads the
devices, `Enviar` is the multicast, which FCM may accept for any subset of the tokens, and
for none when there are no credentials, too many tokens or a failure, none of which reaches
the caller. `PedirDifusion` and `LeerDestinatarios` are the broadcast as it runs: its first
query names the column `rela_pers01`, which the table does not have, and throws. A
reader asks for the unread history, newest first, page after page (`LeerPagina`), while rows
arrive and are marked (`MarkAsRead`). `IniciaFirebase` is the start of the service over every
combination of its settings. History: `creados`, the rows a send has inserted, `entregas`, what FCM
accepted, and `solapados`, pairs of user and device two registrations handled at once.

### How `Auditoria` corresponds to the code

A task is a `save()` or `softRemove()` of an audited row. `Conectar` takes a connection of the
pool and SELECTs the row; `Insertar` is the INSERT, which comes before its entry, while an UPDATE
comes after it; `Auditar` is `writeLog`, which waits for a second connection
(`e.connection` is the data source, not the transaction) and commits by itself;
`AuditarFalla` is its catch; `Escribir` is the UPDATE of the differing columns and the commit;
`Revertir` and `Caida` roll the transaction back and leave the entry; `GuardarDeNuevo` is a
handler that saves the entity it has just created once more. A row has a column the
audit shows, one it excludes, one that holds a date, `updatedAt`, and its removal. `ToPlain` takes all but the
excluded one, and the mark `_auditProcessed` that an audited creation leaves on the entity; of an
update it shows the `updatedAt` from before. The comparison that decides whether an update is logged sees less
(`Legible`): a `Date` has no enumerable keys and becomes `{}`, so only whether there is one counts, and the mark
makes any second save of a created entity differ. `reloj` counts commits and is the clock
of `updatedAt`. `Search` is the query of the log.
History: `suerte`, what became of the write of an entry, `solapadas` and `sinRegistro`.

### How `Almacen` corresponds to the code

A request brings a photo: `Recibir` checks type and size and makes the key of the cleaned name
(`NombreLimpio`: several names may clean to one) and the millisecond; `Optimizar` computes the box and asks sharp; `Enviar`, `EnvioPerdido` and
`EnvioRechazado` are one try of a PUT, of which the S3 client makes three; `Caer` is the catch
that sends the original under the same key. A PUT that got no answer may have been
applied, may not, or may be applied by `AplicarTarde` after anything else. It may also hang for
good (`Cortar` is the connection breaking, which nothing makes happen): the timeouts in `createS3Client` are given under `httpOptions`, which
the client does not read. `Math.round` of a
quotient is `Redondeo`, which is exact; the code's floating point may differ on ties.

### How `Funciones` corresponds to the code

Each process goes through `Arrancar` (the checks of the environment), `Contar`,
`SeedPlanesIfEmpty`, `LeerPlanes`, then per plan `LeerFunciones` and
`SeedPlanFuncionesFromCatalog`, and `Escuchar`. The two inserts fail on the unique key when another
process has been there, and `main.ts` exits. While one process serves, `AsignarPlan`,
the backups (`Comprobar`, `AssertBackupPayloadShape`, `SincronizarBackupDesdeApp`, `Responder`) and a
plan inserted by hand go on while others start. History: `respondidos`, the backups whose request was
answered.

### How `Sesiones` corresponds to the code

A client's request is `Pedir` (the middleware, which resolves the user for the audit), then
`Guardia`, one of the two guards that routes use, with any time in between. Login and refresh
read the account, then `GenerateTokenPair` signs. Tokens are of three signatures: the
external service's, and this API's access and refresh tokens. Signing is a library: a token with
this API's signature is one it has signed. The accounts are disabled and removed by actions
of their own, which is what `Cuenta` does to them. Time is in hours; `Tic` does not happen
while a pair is being signed, which takes milliseconds.

## 3. What TLC checks

| Run | Question | Result |
|---|---|---|
| `solape` | two tasks at once, two purchases of a user without a row (PRO monthly, EQUIPO yearly), a third request for the free plan, one resend | `TypeOK`; `PlanRespaldado`; `PeriodoAcotado`; `UnaVezSinSolape`; `NuncaVuelveAPendiente`; `PlanPagoNoVuelveABasico` |
| `serial` | one task at a time, the three configurations, two charges of one payment row, a jump of the date, BASICO and PRO retired, failed queries, a failure and a resend | `CumpleAcreditacion` (refinement of `Acreditacion`), `AprobadoFinalSinSolape` |
| `entrega` | fair delivery to a user without a row, with failing queries, two failures or restarts, a resend and the plan retired on the way | `CobroSeRegistra`: every charge ends up recorded on its row, unless the query of its approval failed; `CobroSeAcredita`: and extends the subscription, unless it is refunded, or its handler stopped between saving the row and saving the period |
| `cuenta_serial` | one task at a time over two accounts and two e-mails: sign-up, login, password change, recovery, update with a picture or a URL, removal, a failure | `TypeOK`, `EmailUnico`, `CumpleCredencial` (refinement of `Credencial`) |
| `cuenta_solape` | two tasks at once over two accounts: sign-up, logout, password change, verification, removal, a failure | `ClaveQueda`, `VenceConSuCodigo`, `PersonaConCuenta`, `EliminadaQueda`; `EmailUnico`: two accounts share an e-mail only if the requests that gave it to them overlapped |
| `notificaciones` | two tasks among registrations, two sends and a broadcast, a reader, a failure | `TypeOK`; `PushAbreSuAviso`: a push carries a notice of a user of that device; `UnPushPorDispositivo`: one push per device unless registrations overlapped; `CadaDestinatario`: a send that ends without an error left each recipient a notice; `LecturaCompleta`: new rows never hide an old one from a reader; `EnvioTermina` |
| `auditoria` | three writes over two connections, one failure: of an entry, of a transaction or of the process | `TypeOK`; `TrazaReconstruye`: the confirmed entries of a row are a chain that ends at what it has, up to the values of dates; `CambioConTraza`: no committed creation, removal or change of a column that is no date without its entry; `EscrituraTermina`: a write ends unless the pool has locked up |
| `almacen` | two uploads of any of ten photos under two names that clean to one, lost, refused, hanging and late PUTs, a removal | `TypeOK`; `SubidaQueda`: what was answered can be fetched, and only an upload with the same key replaces it; `DimensionesEnCaja`; `SubidaTermina`: the fall-back stores the original, unless a PUT hangs |
| `funciones` | two processes of which one may die seed a database that is empty, or seeded with less; two functions, three plans, backups | `TypeOK`, `CatalogoCompleto`, `FuncionesNoSePierden`, `BackupSeRecupera`, `ReplicaEscucha` |
| `sesiones` | two clients, an account that is disabled or removed, four hours | `IdentidadUnica`: audited as the user served; `AccesoAcotado`: a removed account is not served for longer than an access token lasts |
| `doble_acreditacion` | two overlapping deliveries of one payment | violated: both extend the period |
| `auditoria_trabada` | as many writes at once as the pool has connections | violated: each holds a connection and waits for another |

The two violations are behaviours of the code that contradict what it says of
itself; `PROJECT.json` quotes the sentence under "findings". In the first, nothing makes "read
the row as PENDIENTE, write APROBADO" one step. In the second, the comment
promises that the audit never interrupts the operation it records, and its catch covers errors,
but a wait for a connection is no error.

**What the model allows and no run is about.** The models contain these behaviours of the code, and the
properties are stated around them:

- A query that fails inside `getPayment` is answered with 200, and the notification is not sent again: the
  charge is never recorded. `CobroSeRegistra` says that nothing else loses it.
- A failure between the approval of a payment and the extension leaves the row APROBADO, and no
  retry applies it. The same happens when a summary inserts the default row between the webhook's look-up and its
  insert, and when the plan is retired after the checkout. `CobroSeAcredita` excuses these, and not a failure before the
  approval is saved, which the next notification makes good.
- Two payments of a user applied at once: the second save erases the first extension.
- `save()` of an account read before another request's write puts the old columns
  back: the old password, or `deletedAt` of a removed account, which then has no person.
- Two sign-ups at once may take one e-mail, which has no unique key.
- An update that does not mention the picture deletes it; one that gives a URL leaves the old picture in the store; one that fails
  after the deletion leaves a row that points to nothing. Nothing relates the pictures in the store to the rows at all times.
- A save that only moves dates, as the renewal of the same plan and cycle does, leaves no audit entry.
- A photo replaces another one that took the same key in the same millisecond, also under another name.
- A PUT that gets no answer keeps its request waiting for ever.
- The broadcast to everybody always throws.
- A device registered twice at once gets two rows, and each push twice.
- A refresh looks for the account but not at its `activo` flag: a disabled account keeps renewing.

Properties named ...`SinSolape` speak of payments no two tasks ever handled at
the same time, and are what the early return on `APROBADO` really buys. In the same
way `ClaveQueda`, `VenceConSuCodigo`, `PersonaConCuenta`, `EliminadaQueda` and `TrazaReconstruye`
speak of rows outside `solapadas`; requests on other rows, failures and restarts may
happen at any time. So does `EmailUnico`, of e-mails outside `disputados`. The other properties hold for all of them,
except that the two refinements are checked, and proved, with one task.

**Bounds.** `Tareas` has two elements where interleaving is the question: every
race found needs two. Payments and charges are the least with which the case
exists: two charges on one row for a rejection that comes after an approval, two rows
of one user for overlapping applications. One user is enough, since no action relates the
rows of two. `MaxFallas` and `MaxReenvios` bound failures and resends to one, and failures in `entrega` to two, so that a retry may fail as well.
In `serial` the two charges of the row are interchangeable (`SimetriaCobros`), as are tasks, accounts, e-mails and passwords elsewhere. `MaxDia` and `Saltos` bound the calendar to a jump past the end of the free
month. Accounts, e-mails and passwords are two, the least with which an e-mail can be
taken and a password be another. In `cuenta_solape` one code and one tick of the
clock suffice for a wrong expiry to show, and `AlgunaSinSolape` prunes states in
which every account has been shared, of which its properties say nothing, and those in which both an account and an
e-mail have: each kind of overlap is searched without the other. The theorems have no such limit. In
`cuenta_serial` one picture and a URL of another place show every way a row gets or loses a picture.

`notificaciones` has two users and two tokens, so that a phone can belong to another user and a
user have two; a multicast takes two, so that a third row is over the limit; pages of one make
every arrival move a page; three requests are two registrations that overlap and a send that
meets their rows. `auditoria` has an account and another row, three writes, two values of a column and two of a date, and a pool of two, with
which a third write may find no connection and two may lock it. The photos
of `almacen` straddle each limit (size in bytes, each side of the box, type, case of
the type, not decodable), and the box is 8 by 6 in place of 1920 by 1080, which scales the arithmetic
and keeps both cuts and roundings; a PUT has two tries in place of three, which three failures outlast. `funciones` has a
plan of the seed, one added by hand, and one without a catalogue entry; with lists of one, the second backup pushes
the first out. `sesiones` lets access tokens live one hour and refresh tokens three, in four hours:
long enough for a refresh in the last valid hour and for what it gives to expire.

The proofs of section 4 are for any number of everything, but for those that say one task. Deadlock is not
checked, since a system in which nobody asks for anything stops; that the writes of `Auditoria`
do not wait for ever is a property of its own.

**Fairness.** `Justicia` gives each task of `Suscripcion` weak fairness on its next step: the
event loop runs what is ready, and queries return or throw. Strong fairness
on the delivery of each charge's notification stands for Mercado Pago's repeated
notifications until a 200; it is strong only because "a task is free"
comes and goes in the model and does not exist in the server. Users, failures,
resends, the calendar and administrators owe nothing.
`SpecJusta` of `Cuenta` is weak fairness on the next step of each request, and so is that of
`Notificaciones` (its queries and FCM return or throw) and `Almacen`. There the fairness is of answers that come: the step that ends a hanging PUT
(`Cortar`) has none. In `Auditoria` it is weak fairness on each write's next step; a write that waits
for a connection has it only while one is free. Those wait in a queue in the pool, which is fairer than the
model; since requests are bounded, weak fairness is enough. In `Funciones` each
process's start is weakly fair: it runs, and one that has exited is started again. `Sesiones` assumes
none.

## 4. What TLAPS proves

For any users, payments, charges, plans, tasks and bounds that satisfy
`PlanesAssumption` and `SuscripcionAssumption` (the seed gives BASICO the price 0;
requests and references are well formed; `Nada` is a sentinel):

| Theorem | Statement | Invariant |
|---|---|---|
| `SuscripcionProofs!Tipo` | `Spec => []TypeOK` | `TypeOK` is not inductive: a handler uses rows it read steps before. The strengthening adds that the task at each program counter holds what the counter needs, and that only tasks with a payment are at the steps of a payment |
| `SuscripcionProofs!PlanesRespaldados` | `Spec => []PlanRespaldado` | every approval in memory, on a row or in a computed subscription row comes from a charge; a charge, once made, stays made |
| `SuscripcionProofs!PlanPagoQuedaSiempre` | `Spec => PlanPagoNoVuelveABasico` | a pending write of the plan column never carries BASICO, because BASICO is not sold |
| `SuscripcionProofs!PeriodoDentroDeLoAcreditado` | `Spec => []PeriodoAcotado`, if the payments are finitely many | `PeriodoBien`: the end a request has in memory is within the bound it will have once the payment is credited, since the row it was computed from was in bounds and the bound only grows (`DiasCrecen`, `UnCreditoMas`) |
| `PagoProofs!UnaSolaAcreditacion` | `Spec => []UnaVezSinSolape` | for a payment outside `solapados` at most one task handles it, and if that task is past the approval, or the row says APROBADO and no task does, it has been credited at most so often |
| `PagoProofs!AprobadoEsFinal` | `Spec => AprobadoFinalSinSolape` | from the same invariant |
| `PagoProofs!PendienteNoVuelve` | `Spec => NuncaVuelveAPendiente` | a checkout that still has to write its row has not handed out the link, so no charge and no webhook exists for it |
| `PagoProofs!PromesaCumplida` | `UnaSola` implies `Spec => CumpleAcreditacion`, the refinement of `Acreditacion` | `InvPromesa`, see below |

`UnaSola` says that there is one task (`Tareas` has at most one element): requests do not overlap, although users,
Mercado Pago, the calendar, failures and restarts go on between any two steps. Without it the
refinement is false: in the run `doble_acreditacion` one charge is credited twice. The users,
payments, charges and plans are any. `InvPromesa` says what makes the stale read harmless in
that case: the subscription row in memory is what the row in the table leads to, on some day
between the charge and today (`AlDia`), the columns to be written are those that differ, and a
charged payment has a row (`EnFecha`). Two actions of the handler are actions of `Acreditacion`: the
insert of the default row and the UPDATE of the row. Every other step, a failure and a restart
included, is a stutter or a step of the environment there.

For any accounts, e-mails, passwords, tasks and bounds that satisfy `CuentaAssumption`
(`Nada` is a sentinel, no account, password or row, and the bounds are numbers):

| Theorem | Statement | Invariant |
|---|---|---|
| `CuentaProofs!Tipo` | `Spec => []TypeOK` | the entity a task holds is a row at every step that uses it, the account has a row once its sign-up has inserted it, and a task that sets a password has one |
| `CuentaProofs!ClaveNoSePierde` | `Spec => []ClaveQueda` | `InvPropia`, see below |
| `CuentaProofs!CodigosConSuVencimiento` | `Spec => []VenceConSuCodigo` | the same |
| `CuentaProofs!PersonasConCuenta` | `Spec => []PersonaConCuenta` | the same |
| `CuentaProofs!EliminadaParaSiempre` | `Spec => EliminadaQueda` | the same, and that three actions only write a row |
| `CuentaProofs!EmailsUnicos` | `Spec => []EmailUnico` | `InvEmail`, see below |
| `CuentaProofs!CredencialCumplida` | `UnaSola` implies `Spec => CumpleCredencial`, the refinement of `Credencial` | `InvTipo`, `InvPropia` and `InvSola` |

`InvPropia` says of each account outside `solapadas` that at most one task works on
it, and that this task's entity is the row plus what the task means to change: its password
is the row's or the one it sets, its codes have their own expiry, it is not
removed, and between the two halves of `save()` every column that will not be
written is already equal (`FusionEsEntidad`: then saving the differing columns is
saving the entity). None of the four properties is inductive without it, since the
write that would break them is decided steps earlier, by what was read.

`EmailsUnicos` is for any number of requests at once: `InvEmail` says of accounts outside `solapadas` and e-mails outside
`disputados` that no two live rows have the same (`CuentasBien`); that a request past the look-up gives its account an
e-mail that no other live row has (`MiradasBien`); and that no two requests are giving the same one
(`TomasBien`). The look-up establishes the second part, and only a request that is giving that e-mail can
break it before the row is written: the two then overlap, and the e-mail is disputed. TLC checked `InvEmail` on the
instance of `cuenta_solape` before it was proved.

The refinement is for one request at a time (`UnaSola`: `Tareas` has one element), over any number of
accounts. `InvSola` adds to `InvPropia` what a request means to do with the codes: it changes
nothing, sets a password, stores a fresh code, or redeems the code of its row
(`Conserva`, `Estrena`, `Redime`). For the refinement each of the three writes, the UPDATE of
`save`, the INSERT of a sign-up and the removal, is one action of `Credencial`, chosen by that intent: a save
that stores a code is `Enviar`, one that redeems it `Canjear`, one that only sets a password
`Cambiar`; every other step is a stutter.

For any rows, authors, requests, pool and bounds that satisfy `AuditoriaAssumption` (row ids are
not 0, the pool has a connection, rows are created unremoved, `Nada` is a sentinel):

| Theorem | Statement | Invariant |
|---|---|---|
| `AuditoriaProofs!AuditoriaTipo` | `Spec => []TypeOK` | `TareaBien`: the row, the entity and the row as it was before are there at the steps that use them |
| `AuditoriaProofs!AuditoriaCambioConTraza` | `Spec => CambioConTraza` | `RegistroBien` and `RegistroPropio`: a write about to commit has its own entry, still pending, or changes no column but dates and excluded ones, or its insert failed |
| `AuditoriaProofs!AuditoriaTrazaReconstruye` | `Spec => []TrazaReconstruye` | `InvTraza`: of a row outside `solapadas`, one request at most is at work, its earlier row is the row, its entry comes after all confirmed ones, and the confirmed entries form a chain that ends at the row, as far as the comparison can tell (`Visto`) |

`TrazaReconstruye` is about the log, and what decides it is in the requests: a link holds because the
entity that was read is still the row when it is written (`EscribeEntidad`), and
then `UnEslabonMas` adds one link to a chain. An omitted entry leaves the chain as it is because
what the audit shows of the row does not change (`OmitidaInvisible`).

For any accounts, clients, external tokens and lifetimes that satisfy `SesionesAssumption` and
`ExternosAssumption` (the three secrets differ, ids are positive):

| Theorem | Statement | Invariant |
|---|---|---|
| `SesionesProofs!SesionesTipo` | `Spec => []TypeOK` | the user of a pair to be signed is an account |
| `SesionesProofs!SesionesIdentidadUnica` | `Spec => []IdentidadUnica` | `AuditoriaOK`: whatever the guard would say now is what the middleware noted, or a refusal. Time only turns answers into refusals, since each reader looks at the signature before the expiry |
| `SesionesProofs!SesionesAccesoAcotado` | `Spec => []AccesoAcotado` | `VidasOK`: no access token outlives the removal of its account by more than its life; `FirmaOK`: a pair signed after the removal is signed within the hour of it; `ProcedenciaOK`: a token with this API's signature was signed by it |

For any users, tokens, sends, page size and bounds that satisfy `NotificacionesAssumption` (lists are
sequences of users, pages are not empty, `Nada` is a sentinel):

| Theorem | Statement | Invariant |
|---|---|---|
| `NotificacionesProofs!NotificacionesTipo` | `Spec => []TypeOK` | `Inv`, whose parts the next rows name |
| `NotificacionesProofs!PushConSuAviso` | `Spec => []PushAbreSuAviso` | `TokensBien`: the tokens a send has read are still rows of its recipient, since rows are never removed |
| `NotificacionesProofs!PushUnaVez` | `Spec => []UnPushPorDispositivo` | `AvisoPropio`: no two sends hold the same notice; `RegistroBien`, `RegistroPropio`, `FilasUnicas`: a registration about to insert is the first of its device unless another overlapped it |
| `NotificacionesProofs!TodosConAviso` | `Spec => CadaDestinatario` | `EnvioBien`: the rows a send has inserted are, in order, those of the recipients it has attended to |
| `NotificacionesProofs!LecturaSinHuecos` | `Spec => LecturaCompleta` | `InvLectura`: whatever was unread at the start and not yet seen has a place after the pages that were read |

`LecturaSinHuecos` rests on facts about `Lugar`, the rank of a notice among the unread ones, newest first: a
new notice moves the others to later places only (`LugarCrece`), the places of a set are all taken
(`LugaresSeguidos`), and so a page after which something is left is full (`PaginaLlena`). The
model ranks rows instead of sorting them, which is what ORDER BY and OFFSET mean, and what makes
this provable: cardinalities of finite sets in place of a recursive sort.

For any processes, plans, catalogue, users and payloads that satisfy `FuncionesAssumption`:

| Theorem | Statement | Invariant |
|---|---|---|
| `FuncionesProofs!FuncionesTipo` | `Spec => []TypeOK` | `Inv`, whose parts the next rows name |
| `FuncionesProofs!CatalogoSembrado` | `Spec => []CatalogoCompleto` | `ReplicaBien`: in each process that seeds, each function of the catalogue is in the table, or about to be stored by it, or of a plan it has not looked at yet. Rows are only added, so what one process knows survives the others (`ReplicaSigue`) |
| `FuncionesProofs!FuncionesQuedan` | `Spec => FuncionesNoSePierden` | from the same invariant |
| `FuncionesProofs!BackupRecuperable` | `Spec => []BackupSeRecupera` | `TareaBien`: a request about to answer has its backup in the table |

For any photos, box, clock and failures that satisfy `AlmacenAssumption`:

| Theorem | Statement | Invariant |
|---|---|---|
| `AlmacenProofs!AlmacenTipo` | `Spec => []TypeOK` | `Inv`: `SubidaBien`, what a request holds; `ObjetoBien`, an object at a key or on its way there, however late, is of a request that was given that key; `Guardada`, an answered request left something there |
| `AlmacenProofs!FotoQueda` | `Spec => []SubidaQueda` | the same |
| `AlmacenProofs!Proporcion` | `Spec => []DimensionesEnCaja` | the same, and `RedondeoCerca`: rounding moves a quotient by half a unit at most |

Only model-checked: the liveness properties (`CobroSeRegistra`, `CobroSeAcredita`, `EnvioTermina`,
`EscrituraTermina`, `SubidaTermina`, `ReplicaEscucha`), since TLAPS does not prove
liveness under fairness. Every other property of a passing run is a theorem. None of them needed
an induction over data, whose theorems in the library take an operator that the provers here cannot
instantiate: days and places are counted as cardinalities of sets (`DiasComprados`, `Lugar`), about which
the library has facts, and where a proof needed a least element of a set of numbers
(`NotificacionesProofs!Minimo`) the well-foundedness of < gave it.

## 5. Plan

Done: `Suscripcion`, `Acreditacion`, `Cuenta`, `Credencial`, `Notificaciones`, `Auditoria`,
`Almacen`, `Funciones`, `Sesiones`, and proofs about all the components. Left, in order of worth:

1. Theorems: that the refinements hold per user and per account outside `solapados` and `solapadas`, when
   others overlap.
2. Composition: a sign-up as `Cuenta` and `Suscripcion` see it together, and the writes of
   `Cuenta` under the pool of `Auditoria`.
3. `Correo`: the three tries of a send, with a lost answer. It needs a model of the mail server and
   has no state on this side.
4. Pure operators against reference definitions: the shapes of a Mercado Pago notification, the dates
   in the Argentine format.

## 6. Not modelled

Everything with status `not_modelled` in `PROJECT.json`, with the reason there, and of the components that are
modelled partly: presigned URLs and thumbnails of the storage (nothing calls them), `AdminRoleAuthGuard` (on no
route), searches other than the audit's and the notifications' (they only build SQL), the
user names an external service adds to audit results, the last access of an account, hard removals and
restores under the audit (no code makes them). E-mail keeps no state: whether a message
arrives, late or twice, is the mail server's. The signature of a webhook is a pure check before the
handler, and the external authorisation client is used by nothing that changes state. The mapping of
errors to answers, DTO validation, HTTP parsing, Swagger, dates as text and logging have no state. Signing
and hashing (JWT, HMAC, bcrypt), sharp, the S3 client and FCM are libraries or services, modelled by what
the code sees of them.
