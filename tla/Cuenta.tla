------------------------------- MODULE Cuenta -------------------------------
(***************************************************************************)
(* Accounts (src/schematics/usuario and src/schematics/auth): sign-up,     *)
(* login, logout, password change and recovery, e-mail verification,       *)
(* update and removal run concurrently on the Node event loop.             *)
(*                                                                         *)
(* Every handler reads the whole row of user_01_cab_usuario, changes the   *)
(* entity in memory, awaits something (a bcrypt hash, the object store)    *)
(* and saves the entity.  TypeORM's save() SELECTs the row again and       *)
(* UPDATEs every column in which the entity differs from it, so a column   *)
(* the handler never touched goes back to what it was when the entity was  *)
(* read.  A request in flight is a task; its program counter names the     *)
(* next awaited call.  A request that is refused without having written    *)
(* anything changes no state and has no action.                            *)
(***************************************************************************)
EXTENDS Naturals

CONSTANTS
  Cuentas,      \* ids that account rows may take
  Emails, Claves,
  Tareas,       \* requests the model lets run at the same time
  Nada,         \* no row, no value
  Operaciones,  \* the kinds of request considered
  VIGENCIA,     \* how long a code is valid (15 minutes)
  MaxReloj,     \* bound on the clock
  MaxCodigos,   \* bound on codes sent by e-mail
  MaxFotos,     \* bound on uploaded pictures
  MaxFallas     \* bound on failed calls and restarts

(* The row of an account.  Codes and pictures are numbered as they are     *)
(* made, 0 stands for NULL.  rec and ver are the recovery and the          *)
(* verification code, recVence and verVence their expiry; borrado is       *)
(* deleted_date, set.  foto is a URL, which counts by the key its path     *)
(* names: the number of an upload, or Ajena for every other path.          *)
Fila ==
  [email: Emails, clave: Claves, activo: BOOLEAN, verificado: BOOLEAN, borrado: BOOLEAN,
   rec: Nat, recVence: Nat, ver: Nat, verVence: Nat, foto: Nat]

Columnas ==
  {"email", "clave", "activo", "verificado", "borrado",
   "rec", "recVence", "ver", "verVence", "foto"}

ASSUME CuentaAssumption ==
  /\ Nada \notin Cuentas \cup Claves \cup Fila
  /\ VIGENCIA \in Nat
  /\ MaxReloj \in Nat /\ MaxCodigos \in Nat /\ MaxFotos \in Nat /\ MaxFallas \in Nat

Ajena == MaxFotos + 1

VARIABLES
  reloj,
  cuenta,    \* table user_01_cab_usuario
  persona,   \* table user_02_cab_persona, one row per account
  fotos,     \* pictures in the object store
  subidas,   \* pictures uploaded so far
  codigos,   \* codes generated so far
  fallas,
  tarea,     \* the requests in flight
  claveVigente,  \* history: the last password whose write was answered
  emision,       \* history: when each code was generated
  usados,        \* history: the recovery codes that have set a password
  solapadas,     \* history: accounts two requests worked on at once
  disputados     \* history: e-mails two requests were giving an account at once

historia == <<claveVigente, emision, usados, solapadas, disputados>>
tablas == <<cuenta, persona, fotos>>
vars == <<reloj, tablas, subidas, codigos, fallas, tarea, historia>>

Pasos == {"libre", "validar", "porEmail", "codigo", "borrarFoto", "subirFoto", "persona",
          "insertar", "acceso", "verificar", "cargar", "guardar"}

(* What an update or a sign-up says about the picture: a file, a URL, or   *)
(* neither (an empty URL is treated as none).                              *)
Modos == {"archivo", "url", "nada"}

(* pone is the password the request sets, if it sets one; cod the code it  *)
(* presented; luego the step after the save.                               *)
Tarea ==
  [pc: Pasos, cuenta: Cuentas \cup {Nada}, alta: BOOLEAN, fila: Fila \cup {Nada},
   cols: SUBSET Columnas, pone: Claves \cup {Nada}, cod: Nat, modo: Modos,
   conPersona: BOOLEAN, luego: {"libre", "verificar"}]

Libre ==
  [pc |-> "libre", cuenta |-> Nada, alta |-> FALSE, fila |-> Nada, cols |-> {}, pone |-> Nada,
   cod |-> 0, modo |-> "nada", conPersona |-> FALSE, luego |-> "libre"]

Init ==
  /\ reloj = 0
  /\ cuenta = [c \in Cuentas |-> Nada]
  /\ persona = [c \in Cuentas |-> "ninguna"]
  /\ fotos = {}
  /\ subidas = 0 /\ codigos = 0 /\ fallas = 0
  /\ tarea = [t \in Tareas |-> Libre]
  /\ claveVigente = [c \in Cuentas |-> Nada]
  /\ emision = [n \in 1..MaxCodigos |-> 0]
  /\ usados = {}
  /\ solapadas = {}
  /\ disputados = {}

-----------------------------------------------------------------------------
En(t, paso) == tarea[t].pc = paso

(* Queries leave out the rows that were removed.                           *)
Viva(c) == cuenta[c] # Nada /\ ~cuenta[c].borrado

ConEmail(e) == {c \in Cuentas : Viva(c) /\ cuenta[c].email = e}

EnCurso(c) == \E t \in Tareas : tarea[t].cuenta = c

Marcar(c) == solapadas' = IF EnCurso(c) THEN solapadas \cup {c} ELSE solapadas

(* A request reads the account c and keeps the entity fila of it; the next *)
(* awaited call is paso.                                                   *)
Entidad(c, fila, paso) ==
  [Libre EXCEPT !.pc = paso, !.cuenta = c, !.fila = fila, !.conPersona = persona[c] = "viva"]

(* The request is going to give its account the e-mail e.                  *)
Toma(tr, e) ==
  tr.fila # Nada /\ tr.fila.email = e /\ (tr.alta \/ cuenta[tr.cuenta].email # e)

Empezar(t, c, tr) ==
  /\ En(t, "libre")
  /\ tarea' = [tarea EXCEPT ![t] = tr]
  /\ Marcar(c)
  /\ disputados' = disputados \cup
       {e \in Emails : Toma(tr, e) /\ \E o \in Tareas : Toma(tarea[o], e)}

Terminar(t) == tarea' = [tarea EXCEPT ![t] = Libre]

-----------------------------------------------------------------------------
(* save() of an account, in two statements.  A password is hashed with a   *)
(* new salt, so one that is set always differs from the row.               *)
ColumnasDistintas(tr, fila) ==
  {k \in Columnas : tr.fila[k] # fila[k]} \cup (IF tr.pone = Nada THEN {} ELSE {"clave"})

Fusion(fila, nueva, cols) == [k \in Columnas |-> IF k \in cols THEN nueva[k] ELSE fila[k]]

CargarCuenta(t) ==
  LET tr == tarea[t] IN
  /\ En(t, "cargar") \/ (En(t, "persona") /\ ~tr.alta)
  /\ tarea' = [tarea EXCEPT ![t].pc = "guardar",
                            ![t].cols = ColumnasDistintas(tr, cuenta[tr.cuenta])]
  /\ UNCHANGED <<reloj, tablas, subidas, codigos, fallas, historia>>

GuardarCuenta(t) ==
  LET tr == tarea[t]
      c == tr.cuenta
  IN
  /\ En(t, "guardar")
  /\ cuenta' = [cuenta EXCEPT ![c] = Fusion(@, tr.fila, tr.cols)]
  /\ tarea' = [tarea EXCEPT ![t] = IF tr.luego = "libre" THEN Libre
                                   ELSE [Libre EXCEPT !.pc = tr.luego, !.cuenta = c]]
  /\ claveVigente' = IF tr.pone = Nada THEN claveVigente
                     ELSE [claveVigente EXCEPT ![c] = tr.pone]
  /\ usados' = usados \cup ({tr.cod} \ {0})
  /\ UNCHANGED <<reloj, persona, fotos, subidas, codigos, fallas, emision, solapadas, disputados>>

-----------------------------------------------------------------------------
(* Login and logout only change the last access, which is not modelled:    *)
(* what they save is the entity as they read it.                           *)

Login(t, e, k) ==
  /\ "login" \in Operaciones
  /\ \E c \in ConEmail(e) :
       /\ cuenta[c].clave = k
       /\ cuenta[c].activo
       /\ Empezar(t, c, Entidad(c, cuenta[c], "cargar"))
  /\ UNCHANGED <<reloj, tablas, subidas, codigos, fallas, claveVigente, emision, usados>>

UpdateUltimoAcceso(t, c) ==
  /\ "logout" \in Operaciones
  /\ Viva(c)
  /\ Empezar(t, c, Entidad(c, cuenta[c], "cargar"))
  /\ UNCHANGED <<reloj, tablas, subidas, codigos, fallas, claveVigente, emision, usados>>

-----------------------------------------------------------------------------
(* Password change: the session's account is read to compare the e-mail,   *)
(* then the row is looked up again by that e-mail.  Whoever knows the      *)
(* password of an account can have a session, so the requests that need    *)
(* one only need the account here.                                         *)

PedirCambioClave(t, c, k) ==
  /\ "cambiar" \in Operaciones
  /\ Viva(c)
  /\ Empezar(t, c, [Entidad(c, cuenta[c], "porEmail") EXCEPT !.pone = k])
  /\ UNCHANGED <<reloj, tablas, subidas, codigos, fallas, claveVigente, emision, usados>>

(* Mutant of CambiarClave: the entity of the first read is the one saved.  *)
CambiarClaveEnVano(t) ==
  /\ En(t, "porEmail")
  /\ ConEmail(tarea[t].fila.email) # {}
  /\ tarea' = [tarea EXCEPT ![t].pc = "cargar"]
  /\ UNCHANGED <<reloj, tablas, subidas, codigos, fallas, historia>>

CambiarClave(t) ==
  /\ En(t, "porEmail")
  /\ \E c \in ConEmail(tarea[t].fila.email) :
       /\ tarea' = [tarea EXCEPT ![t] =
            [Entidad(c, [cuenta[c] EXCEPT !.clave = tarea[t].pone], "cargar")
               EXCEPT !.pone = tarea[t].pone]]
       /\ solapadas' = IF c # tarea[t].cuenta /\ EnCurso(c)
                       THEN solapadas \cup {c} ELSE solapadas
  /\ UNCHANGED <<reloj, tablas, subidas, codigos, fallas, claveVigente, emision, usados, disputados>>

(* What a second read of the account finds no more.                        *)
CuentaPerdida(t) ==
  /\ \/ En(t, "porEmail") /\ ConEmail(tarea[t].fila.email) = {}
     \/ tarea[t].pc \in {"codigo", "acceso", "verificar"} /\ ~Viva(tarea[t].cuenta)
  /\ Terminar(t)
  /\ UNCHANGED <<reloj, tablas, subidas, codigos, fallas, historia>>

-----------------------------------------------------------------------------
(* Password recovery.                                                      *)

Generar ==
  /\ codigos < MaxCodigos
  /\ codigos' = codigos + 1
  /\ emision' = [emision EXCEPT ![codigos'] = reloj]

CrearCodigoRecuperacion(t, e) ==
  /\ "recuperar" \in Operaciones
  /\ Generar
  /\ \E c \in ConEmail(e) :
       /\ cuenta[c].activo
       /\ Empezar(t, c, Entidad(c, [cuenta[c] EXCEPT !.rec = codigos',
                                                     !.recVence = reloj + VIGENCIA], "cargar"))
  /\ UNCHANGED <<reloj, tablas, subidas, fallas, claveVigente, usados>>

(* Mutant of TrasRestablecer: the code stays on the row.                   *)
TrasRestablecerConCodigo(fila, k) == [fila EXCEPT !.clave = k]

TrasRestablecer(fila, k) == [fila EXCEPT !.clave = k, !.rec = 0, !.recVence = 0]

RestablecerConCodigo(t, e, n, k) ==
  /\ "recuperar" \in Operaciones
  /\ n # 0
  /\ \E c \in ConEmail(e) :
       /\ cuenta[c].activo
       /\ cuenta[c].rec = n
       /\ reloj <= cuenta[c].recVence
       /\ Empezar(t, c, [Entidad(c, TrasRestablecer(cuenta[c], k), "cargar")
                           EXCEPT !.pone = k, !.cod = n])
  /\ UNCHANGED <<reloj, tablas, subidas, codigos, fallas, claveVigente, emision, usados>>

-----------------------------------------------------------------------------
(* E-mail verification.  A new code is drawn after a first read of the     *)
(* account and stored through a second one.                                *)

(* Mutant of ConCodigoVer: the expiry stays what it was.                   *)
ConCodigoVerSinPlazo(fila, n, vence) == [fila EXCEPT !.ver = n]

ConCodigoVer(fila, n, vence) == [fila EXCEPT !.ver = n, !.verVence = vence]

ResendVerificationCode(t, c) ==
  /\ "verificar" \in Operaciones
  /\ Viva(c) /\ ~cuenta[c].verificado
  /\ Generar
  /\ Empezar(t, c, Entidad(c, ConCodigoVer(cuenta[c], codigos', reloj + VIGENCIA), "codigo"))
  /\ UNCHANGED <<reloj, tablas, subidas, fallas, claveVigente, usados>>

SetVerificationCode(t) ==
  LET tr == tarea[t] IN
  /\ En(t, "codigo")
  /\ Viva(tr.cuenta)
  /\ tarea' = [tarea EXCEPT ![t].pc = "cargar",
       ![t].fila = ConCodigoVer(cuenta[tr.cuenta], tr.fila.ver, tr.fila.verVence)]
  /\ UNCHANGED <<reloj, tablas, subidas, codigos, fallas, historia>>

Verificada(fila) == [fila EXCEPT !.verificado = TRUE, !.ver = 0, !.verVence = 0]

VerifyCode(t, c, n) ==
  /\ "verificar" \in Operaciones
  /\ n # 0
  /\ Viva(c) /\ ~cuenta[c].verificado
  /\ cuenta[c].ver = n
  /\ reloj <= cuenta[c].verVence
  /\ Empezar(t, c, Entidad(c, Verificada(cuenta[c]), "cargar"))
  /\ UNCHANGED <<reloj, tablas, subidas, codigos, fallas, claveVigente, emision, usados>>

-----------------------------------------------------------------------------
(* Pictures.                                                               *)

(* Mutant of SubirFoto: the next upload gets the same key.                 *)
SubirFotoMismaClave(t) ==
  /\ En(t, "subirFoto")
  /\ subidas < MaxFotos
  /\ fotos' = fotos \cup {subidas + 1}
  /\ tarea' = [tarea EXCEPT ![t].pc = "persona", ![t].fila.foto = subidas + 1]
  /\ UNCHANGED <<reloj, cuenta, persona, subidas, codigos, fallas, historia>>

SubirFoto(t) ==
  /\ En(t, "subirFoto")
  /\ subidas < MaxFotos
  /\ subidas' = subidas + 1
  /\ fotos' = fotos \cup {subidas'}
  /\ tarea' = [tarea EXCEPT ![t].pc = "persona", ![t].fila.foto = subidas']
  /\ UNCHANGED <<reloj, cuenta, persona, codigos, fallas, historia>>

(* What resolveFotoPerfil does first.  A URL replaces the old one, whose   *)
(* picture stays in the store.                                             *)
PasoFoto(fila, modo) ==
  CASE modo # "url" /\ fila.foto # 0 -> "borrarFoto"
    [] modo = "archivo" /\ fila.foto = 0 -> "subirFoto"
    [] OTHER -> "persona"

SinFoto(t) ==
  tarea' = [tarea EXCEPT ![t].pc = IF tarea[t].modo = "archivo" THEN "subirFoto" ELSE "persona",
                         ![t].fila.foto = 0]

(* The key to delete comes from the URL on the row: it may be the picture  *)
(* of another account, or no picture at all.                               *)
BorrarFoto(t) ==
  /\ En(t, "borrarFoto")
  /\ fotos' = fotos \ {tarea[t].fila.foto}
  /\ SinFoto(t)
  /\ UNCHANGED <<reloj, cuenta, persona, subidas, codigos, fallas, historia>>

(* An error of the object store is logged and forgotten.                   *)
BorradoFallido(t) ==
  /\ En(t, "borrarFoto")
  /\ fallas < MaxFallas
  /\ fallas' = fallas + 1
  /\ SinFoto(t)
  /\ UNCHANGED <<reloj, tablas, subidas, codigos, historia>>

-----------------------------------------------------------------------------
(* Update by the account itself or by an administrator.  A field that the  *)
(* request leaves out is one that it sets to what it already is; a         *)
(* password that is left out is Nada.                                      *)

Actualizada(fila, e, k, activo) ==
  [fila EXCEPT !.email = e, !.clave = IF k = Nada THEN @ ELSE k, !.activo = activo]

(* The URLs a request may give: that of any picture uploaded so far, the   *)
(* current one sent back included, or another one.                         *)
Urls == 1..subidas \cup {Ajena}

ConUrl(fila, modo, url) == IF modo = "url" THEN [fila EXCEPT !.foto = url] ELSE fila

(* Mutant of HayQueValidar: an e-mail is only looked up at sign-up.        *)
NuncaValidar(c, e) == FALSE

HayQueValidar(c, e) == e # cuenta[c].email

Actualizar(t, c, e, k, activo, modo, url) ==
  /\ "actualizar" \in Operaciones
  /\ Viva(c)
  /\ Empezar(t, c, [Entidad(c, ConUrl(Actualizada(cuenta[c], e, k, activo), modo, url),
                            IF HayQueValidar(c, e) THEN "validar" ELSE PasoFoto(cuenta[c], modo))
                      EXCEPT !.pone = k, !.modo = modo])
  /\ UNCHANGED <<reloj, tablas, subidas, codigos, fallas, claveVigente, emision, usados>>

EmailTomado(t) ==
  /\ En(t, "validar")
  /\ ConEmail(tarea[t].fila.email) # {}
  /\ Terminar(t)
  /\ UNCHANGED <<reloj, tablas, subidas, codigos, fallas, historia>>

EmailLibre(t) ==
  /\ En(t, "validar")
  /\ ConEmail(tarea[t].fila.email) = {}
  /\ tarea' = [tarea EXCEPT ![t].pc = PasoFoto(tarea[t].fila, tarea[t].modo)]
  /\ UNCHANGED <<reloj, tablas, subidas, codigos, fallas, historia>>

(* The request names the person (if it does not, CargarCuenta is next):    *)
(* the person as it was read is saved, removed meanwhile or not.  An       *)
(* account read without one, which takes a removal undone by a save,       *)
(* makes the request fail.                                                 *)
GuardarPersona(t) ==
  LET conPersona == tarea[t].conPersona IN
  /\ En(t, "persona") /\ ~tarea[t].alta
  /\ persona' = IF conPersona THEN [persona EXCEPT ![tarea[t].cuenta] = "viva"] ELSE persona
  /\ tarea' = [tarea EXCEPT ![t] = IF conPersona THEN [@ EXCEPT !.pc = "cargar"] ELSE Libre]
  /\ UNCHANGED <<reloj, cuenta, fotos, subidas, codigos, fallas, historia>>

-----------------------------------------------------------------------------
(* Mutant of Eliminar: the person stays.                                   *)
EliminarSoloUsuario(t, c) ==
  /\ En(t, "libre")
  /\ "eliminar" \in Operaciones
  /\ Viva(c)
  /\ cuenta' = [cuenta EXCEPT ![c].borrado = TRUE]
  /\ Marcar(c)
  /\ UNCHANGED <<reloj, persona, fotos, subidas, codigos, fallas, tarea,
                 claveVigente, emision, usados, disputados>>

(* Removal marks the person and the account in one transaction, which is   *)
(* the whole request.                                                      *)
Eliminar(t, c) ==
  /\ En(t, "libre")
  /\ "eliminar" \in Operaciones
  /\ Viva(c)
  /\ cuenta' = [cuenta EXCEPT ![c].borrado = TRUE]
  /\ persona' = [persona EXCEPT ![c] = IF @ = "viva" THEN "borrada" ELSE @]
  /\ Marcar(c)
  /\ UNCHANGED <<reloj, fotos, subidas, codigos, fallas, tarea, claveVigente, emision, usados,
                 disputados>>

-----------------------------------------------------------------------------
(* Sign-up: the e-mail is looked up, then picture, person, account and     *)
(* default subscription (module Suscripcion) are written one after the     *)
(* other, and the account is saved twice more.  Failing in between undoes  *)
(* nothing.                                                                *)

FilaNueva(e, k) ==
  [email |-> e, clave |-> k, activo |-> TRUE, verificado |-> FALSE, borrado |-> FALSE,
   rec |-> 0, recVence |-> 0, ver |-> 0, verVence |-> 0, foto |-> 0]

(* Mutant of IdLibre: the row of a removed account is taken over.          *)
IdDeNadie(c) == ~Viva(c) /\ persona[c] # "viva" /\ ~EnCurso(c)

(* Mutant of EmailDisponible: sign-up does not look the e-mail up.         *)
SiempreDisponible(e) == TRUE

EmailDisponible(e) == ConEmail(e) = {}

(* No row, no person and no request has the id c yet.                      *)
IdLibre(c) == cuenta[c] = Nada /\ persona[c] = "ninguna" /\ ~EnCurso(c)

Registrar(t, c, e, k, modo) ==
  /\ "registrar" \in Operaciones
  /\ IdLibre(c)
  /\ EmailDisponible(e)
  /\ modo \in {"archivo", "nada"}
  /\ Empezar(t, c, [Entidad(c, FilaNueva(e, k), IF modo = "archivo" THEN "subirFoto" ELSE "persona")
                      EXCEPT !.alta = TRUE, !.pone = k])
  /\ UNCHANGED <<reloj, tablas, subidas, codigos, fallas, claveVigente, emision, usados>>

InsertarPersona(t) ==
  /\ En(t, "persona") /\ tarea[t].alta
  /\ persona' = [persona EXCEPT ![tarea[t].cuenta] = "viva"]
  /\ tarea' = [tarea EXCEPT ![t].pc = "insertar"]
  /\ UNCHANGED <<reloj, cuenta, fotos, subidas, codigos, fallas, historia>>

InsertarCuenta(t) ==
  LET c == tarea[t].cuenta IN
  /\ En(t, "insertar")
  /\ cuenta' = [cuenta EXCEPT ![c] = tarea[t].fila]
  /\ claveVigente' = [claveVigente EXCEPT ![c] = tarea[t].pone]
  /\ tarea' = [tarea EXCEPT ![t] = [Libre EXCEPT !.pc = "acceso", !.cuenta = c]]
  /\ UNCHANGED <<reloj, persona, fotos, subidas, codigos, fallas, emision, usados, solapadas,
                 disputados>>

AccesoTrasAlta(t) ==
  LET c == tarea[t].cuenta IN
  /\ En(t, "acceso")
  /\ Viva(c)
  /\ tarea' = [tarea EXCEPT ![t] = [Entidad(c, cuenta[c], "cargar") EXCEPT !.luego = "verificar"]]
  /\ UNCHANGED <<reloj, tablas, subidas, codigos, fallas, historia>>

MarkEmailVerified(t) ==
  LET c == tarea[t].cuenta IN
  /\ En(t, "verificar")
  /\ Viva(c)
  /\ tarea' = [tarea EXCEPT ![t] = Entidad(c, Verificada(cuenta[c]), "cargar")]
  /\ UNCHANGED <<reloj, tablas, subidas, codigos, fallas, historia>>

-----------------------------------------------------------------------------
(* The world around the handlers.                                          *)

(* A query or an upload fails, and the handler throws.                     *)
Fallar(t) ==
  /\ ~En(t, "libre")
  /\ fallas < MaxFallas
  /\ fallas' = fallas + 1
  /\ Terminar(t)
  /\ UNCHANGED <<reloj, tablas, subidas, codigos, historia>>

(* The process restarts: every request in flight is gone.                  *)
Reiniciar ==
  /\ \E t \in Tareas : ~En(t, "libre")
  /\ fallas < MaxFallas
  /\ fallas' = fallas + 1
  /\ tarea' = [t \in Tareas |-> Libre]
  /\ UNCHANGED <<reloj, tablas, subidas, codigos, historia>>

Tictac ==
  /\ reloj < MaxReloj
  /\ reloj' = reloj + 1
  /\ UNCHANGED <<tablas, subidas, codigos, fallas, tarea, historia>>

-----------------------------------------------------------------------------
Iniciar(t) ==
  \/ \E e \in Emails, k \in Claves :
       \/ Login(t, e, k)
       \/ \E n \in 1..codigos : RestablecerConCodigo(t, e, n, k)
       \/ \E c \in Cuentas, modo \in Modos : Registrar(t, c, e, k, modo)
  \/ \E e \in Emails : CrearCodigoRecuperacion(t, e)
  \/ \E c \in Cuentas :
       \/ UpdateUltimoAcceso(t, c) \/ ResendVerificationCode(t, c) \/ Eliminar(t, c)
       \/ \E k \in Claves : PedirCambioClave(t, c, k)
       \/ \E n \in 1..codigos : VerifyCode(t, c, n)
       \/ \E e \in Emails, k \in Claves \cup {Nada}, activo \in BOOLEAN, modo \in Modos, url \in Urls :
            Actualizar(t, c, e, k, activo, modo, url)

(* The next step of a request in flight.                                   *)
Avanzar(t) ==
  \/ CargarCuenta(t) \/ GuardarCuenta(t)
  \/ CambiarClave(t) \/ CuentaPerdida(t) \/ SetVerificationCode(t)
  \/ EmailTomado(t) \/ EmailLibre(t) \/ SubirFoto(t) \/ BorrarFoto(t) \/ BorradoFallido(t)
  \/ GuardarPersona(t)
  \/ InsertarPersona(t) \/ InsertarCuenta(t) \/ AccesoTrasAlta(t) \/ MarkEmailVerified(t)

Next ==
  \/ \E t \in Tareas : Iniciar(t) \/ Avanzar(t) \/ Fallar(t)
  \/ Reiniciar \/ Tictac

Spec == Init /\ [][Next]_vars

(* Requests in flight go on; users, failures and the clock owe nothing.    *)
SpecJusta == Spec /\ \A t \in Tareas : WF_vars(Avanzar(t))

-----------------------------------------------------------------------------
(* Properties.  Those that leave out solapadas speak of accounts on which  *)
(* two requests never worked at the same time.                             *)

(* Every variable keeps to the rows, codes and program points of the code. *)
TypeOK ==
  /\ reloj \in Nat /\ subidas \in Nat /\ fallas \in Nat
  /\ codigos \in 0..MaxCodigos
  /\ cuenta \in [Cuentas -> Fila \cup {Nada}]
  /\ persona \in [Cuentas -> {"ninguna", "viva", "borrada"}]
  /\ fotos \subseteq 1..subidas
  /\ tarea \in [Tareas -> Tarea]
  /\ claveVigente \in [Cuentas -> Claves \cup {Nada}]
  /\ emision \in [1..MaxCodigos -> Nat]
  /\ usados \subseteq 1..MaxCodigos
  /\ solapadas \subseteq Cuentas
  /\ disputados \subseteq Emails

(* A password whose change was answered is the password of the account     *)
(* until another one is: no login, logout, code or update, complete or     *)
(* failed half way, brings an older one back.                              *)
ClaveQueda ==
  \A c \in Cuentas \ solapadas : cuenta[c] # Nada => cuenta[c].clave = claveVigente[c]

(* A removed account stays removed: no later request, sign-up included,    *)
(* gives its row back (remove in usuario.service).                         *)
EliminadaQueda ==
  [][\A c \in Cuentas \ solapadas' :
       cuenta[c] # Nada /\ cuenta[c].borrado => cuenta'[c].borrado]_vars

(* The expiry next to a code on the row is that of this code, also after   *)
(* a resend, which draws the code before it reads the row it writes.       *)
VenceConSuCodigo ==
  \A c \in Cuentas \ solapadas : cuenta[c] # Nada =>
    /\ cuenta[c].rec # 0 => cuenta[c].recVence = emision[cuenta[c].rec] + VIGENCIA
    /\ cuenta[c].ver # 0 => cuenta[c].verVence = emision[cuenta[c].ver] + VIGENCIA

(* Wherever a sign-up or an update stops, an account has its person, and   *)
(* both are removed together.                                              *)
PersonaConCuenta ==
  \A c \in Cuentas \ solapadas : cuenta[c] # Nada =>
    persona[c] = IF cuenta[c].borrado THEN "borrada" ELSE "viva"

(* Two accounts share an e-mail only if two requests that were giving it   *)
(* to an account ran at the same time: validateUniqueEmail looks it up     *)
(* before a sign-up or an update writes it, and the column has no unique   *)
(* key.  No other request, failure or restart in between breaks it.        *)
EmailUnico ==
  \A c, d \in Cuentas \ solapadas :
    Viva(c) /\ Viva(d) /\ cuenta[c].email = cuenta[d].email =>
      c = d \/ cuenta[c].email \in disputados

-----------------------------------------------------------------------------
(* Refinement: what the handlers do to the credentials of an account.      *)
Promesa == INSTANCE Credencial WITH
  estado <- [c \in Cuentas |-> IF cuenta[c] = Nada THEN "libre"
                               ELSE IF cuenta[c].borrado THEN "eliminada" ELSE "viva"],
  clave <- [c \in Cuentas |-> IF cuenta[c] = Nada THEN Nada ELSE cuenta[c].clave],
  codigo <- [c \in Cuentas |-> IF cuenta[c] = Nada THEN 0 ELSE cuenta[c].rec]

(* With one request at a time the component keeps the promise of module    *)
(* Credencial, through failures and restarts.                              *)
CumpleCredencial == Promesa!Spec

=============================================================================
