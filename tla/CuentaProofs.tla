---------------------------- MODULE CuentaProofs ----------------------------
(***************************************************************************)
(* Proofs about Cuenta, for every set of accounts, e-mails, passwords and  *)
(* concurrent requests.  First part: types.  Second part: what an account  *)
(* keeps as long as no two requests work on it at the same time.  Third    *)
(* part: which e-mails two accounts may share.  Fourth part: with one      *)
(* request at a time the component implements module Credencial.           *)
(***************************************************************************)
EXTENDS Cuenta, TLAPS

(* The program points at which a task carries an entity.                   *)
ConEntidad ==
  {"validar", "porEmail", "codigo", "borrarFoto", "subirFoto", "persona",
   "insertar", "cargar", "guardar"}

(* What a task i carries at each program point.                            *)
Bien(i) ==
  /\ i.pc # "libre" => i.cuenta \in Cuentas
  /\ i.pc \in ConEntidad => i.fila \in Fila
  /\ i.pc = "porEmail" => i.pone \in Claves
  /\ i.alta => i.pone \in Claves /\ i.pc \in {"subirFoto", "persona", "insertar"}
  /\ i.pc = "insertar" => i.alta
  /\ i.pc = "codigo" => i.pone = Nada
  /\ i.cod <= MaxCodigos

(* A task past a sign-up's insert, or not of one, works on a row.          *)
FilaDe(i, filas) == i.pc # "libre" /\ ~i.alta => filas[i.cuenta] \in Fila

TareasOK == \A t \in Tareas : Bien(tarea[t]) /\ FilaDe(tarea[t], cuenta)

InvTipo == TypeOK /\ TareasOK

-----------------------------------------------------------------------------
LEMMA LibreTipo == Libre \in Tarea /\ Bien(Libre) /\ \A filas : FilaDe(Libre, filas)
  BY CuentaAssumption DEF Libre, Tarea, Pasos, Modos, Bien, FilaDe, ConEntidad

LEMMA FusionTipo ==
  ASSUME NEW fila \in Fila, NEW nueva \in Fila, NEW cols
  PROVE  Fusion(fila, nueva, cols) \in Fila
  BY DEF Fusion, Fila, Columnas

LEMMA FilaNuevaTipo ==
  ASSUME NEW e \in Emails, NEW k \in Claves
  PROVE  FilaNueva(e, k) \in Fila
  BY DEF FilaNueva, Fila

LEMMA VivaTipo ==
  ASSUME InvTipo, NEW c \in Cuentas, Viva(c)
  PROVE  cuenta[c] \in Fila
  BY DEF InvTipo, TypeOK, Viva

(* What a task carries that has just read the account c.                   *)
Leida(i, c, fila, paso) ==
  /\ i \in Tarea
  /\ i.pc = paso /\ i.cuenta = c /\ i.fila = fila /\ ~i.alta /\ i.pone = Nada
  /\ i.cod = 0 /\ i.luego = "libre"
  /\ paso \notin {"porEmail", "insertar"} => Bien(i)

LEMMA LeidaTipo ==
  ASSUME NEW c \in Cuentas, NEW fila \in Fila, NEW paso \in ConEntidad, NEW v \in BOOLEAN,
         NEW i, i = [Libre EXCEPT !.pc = paso, !.cuenta = c, !.fila = fila, !.conPersona = v]
  PROVE  Leida(i, c, fila, paso)
<1>1. i \in Tarea
  BY DEF Libre, Tarea, Pasos, Modos, ConEntidad
<1>2. paso \notin {"porEmail", "insertar"} => Bien(i)
  BY CuentaAssumption DEF Libre, Bien, ConEntidad
<1>3. QED
  BY <1>1, <1>2 DEF Libre, Leida

LEMMA EntidadTipo ==
  ASSUME NEW c \in Cuentas, NEW fila \in Fila, NEW paso \in ConEntidad
  PROVE  Leida(Entidad(c, fila, paso), c, fila, paso)
  BY LeidaTipo, Zenon DEF Entidad

(* A step of one task t, which leaves t in order and no row empty.         *)
LEMMA PasoDeTarea ==
  ASSUME InvTipo, NEW t \in Tareas, NEW i \in Tarea,
         tarea' = [tarea EXCEPT ![t] = i],
         \A c \in Cuentas : cuenta[c] \in Fila => cuenta'[c] \in Fila,
         Bien(i), FilaDe(i, cuenta')
  PROVE  tarea' \in [Tareas -> Tarea] /\ TareasOK'
<1>1. tarea' \in [Tareas -> Tarea]
  BY DEF InvTipo, TypeOK
<1>2. ASSUME NEW o \in Tareas PROVE Bien(tarea'[o]) /\ FilaDe(tarea'[o], cuenta')
  <2>1. CASE o = t
    BY <2>1 DEF InvTipo, TypeOK
  <2>2. CASE o # t
    <3>1. tarea'[o] = tarea[o] /\ Bien(tarea[o]) /\ FilaDe(tarea[o], cuenta)
      BY <2>2 DEF InvTipo, TypeOK, TareasOK
    <3>2. QED
      BY <3>1 DEF FilaDe, Bien
  <2>3. QED
    BY <2>1, <2>2
<1>3. QED
  BY <1>1, <1>2 DEF TareasOK, Bien

(* The same for a step that writes no row and no history.                  *)
LEMMA PasoSinEscribir ==
  ASSUME InvTipo, NEW t \in Tareas, NEW i \in Tarea,
         tarea' = [tarea EXCEPT ![t] = i],
         Bien(i), FilaDe(i, cuenta),
         UNCHANGED <<reloj, cuenta, subidas, claveVigente, usados>>,
         codigos' \in 0..MaxCodigos, emision' \in [1..MaxCodigos -> Nat],
         fallas' \in Nat, solapadas' \subseteq Cuentas, disputados' \subseteq Emails, fotos' \subseteq fotos,
         persona' \in [Cuentas -> {"ninguna", "viva", "borrada"}]
  PROVE  InvTipo'
<1>1. tarea' \in [Tareas -> Tarea] /\ TareasOK'
  BY PasoDeTarea
<1>2. TypeOK'
  BY <1>1 DEF InvTipo, TypeOK
<1>3. QED
  BY <1>1, <1>2 DEF InvTipo

LEMMA TerminarTipo ==
  ASSUME InvTipo, NEW t \in Tareas, Terminar(t), fallas' \in Nat,
         UNCHANGED <<reloj, tablas, subidas, codigos, historia>>
  PROVE  InvTipo'
<1>1. solapadas' \subseteq Cuentas /\ disputados' \subseteq Emails
      /\ persona' \in [Cuentas -> {"ninguna", "viva", "borrada"}]
      /\ fotos' = fotos /\ codigos' \in 0..MaxCodigos /\ emision' \in [1..MaxCodigos -> Nat]
  BY DEF InvTipo, TypeOK, tablas, historia
<1>2. QED
  BY <1>1, LibreTipo, PasoSinEscribir DEF Terminar, tablas, historia

-----------------------------------------------------------------------------
(* Requests that start.                                                    *)
LEMMA EmpezarTipo ==
  ASSUME InvTipo, NEW t \in Tareas, NEW c \in Cuentas, NEW i \in Tarea,
         Empezar(t, c, i), Bien(i), FilaDe(i, cuenta),
         UNCHANGED <<reloj, tablas, subidas, fallas, claveVigente, usados>>,
         codigos' \in 0..MaxCodigos, emision' \in [1..MaxCodigos -> Nat]
  PROVE  InvTipo'
<1>1. solapadas' \subseteq Cuentas /\ disputados' \subseteq Emails /\ fallas' \in Nat /\ fotos' = fotos /\ cuenta' = cuenta
      /\ persona' \in [Cuentas -> {"ninguna", "viva", "borrada"}]
  BY DEF Empezar, Marcar, InvTipo, TypeOK, tablas
<1>2. QED
  BY <1>1, PasoSinEscribir DEF Empezar

(* The request goes on with an entity read from a live account.            *)
LEMMA EmpezarConEntidad ==
  ASSUME InvTipo, NEW t \in Tareas, NEW c \in Cuentas, Viva(c),
         NEW fila \in Fila, NEW paso \in ConEntidad \ {"porEmail", "insertar"},
         Empezar(t, c, Entidad(c, fila, paso)),
         UNCHANGED <<reloj, tablas, subidas, fallas, claveVigente, usados>>,
         codigos' \in 0..MaxCodigos, emision' \in [1..MaxCodigos -> Nat]
  PROVE  InvTipo'
<1> DEFINE i == Entidad(c, fila, paso)
<1>1. i \in Tarea /\ Bien(i) /\ i.cuenta = c
  BY EntidadTipo DEF Leida
<1>2. FilaDe(i, cuenta)
  BY <1>1, VivaTipo DEF FilaDe
<1>3. QED
  BY <1>1, <1>2, EmpezarTipo

LEMMA GenerarTipo ==
  ASSUME InvTipo, Generar
  PROVE  /\ codigos' \in 0..MaxCodigos /\ codigos' \in Nat
         /\ emision' \in [1..MaxCodigos -> Nat]
         /\ reloj + VIGENCIA \in Nat
  BY CuentaAssumption DEF Generar, InvTipo, TypeOK

LEMMA LoginTipo ==
  ASSUME InvTipo, NEW t \in Tareas, NEW e \in Emails, NEW k \in Claves, Login(t, e, k)
  PROVE  InvTipo'
<1>1. PICK c \in ConEmail(e) : Empezar(t, c, Entidad(c, cuenta[c], "cargar"))
  BY DEF Login
<1>2. c \in Cuentas /\ Viva(c) /\ "cargar" \in ConEntidad \ {"porEmail", "insertar"}
      /\ codigos' \in 0..MaxCodigos /\ emision' \in [1..MaxCodigos -> Nat]
  BY DEF ConEmail, ConEntidad, Login, InvTipo, TypeOK
<1>3. QED
  BY <1>1, <1>2, VivaTipo, EmpezarConEntidad DEF Login

LEMMA LogoutTipo ==
  ASSUME InvTipo, NEW t \in Tareas, NEW c \in Cuentas, UpdateUltimoAcceso(t, c)
  PROVE  InvTipo'
<1>1. "cargar" \in ConEntidad \ {"porEmail", "insertar"}
      /\ codigos' \in 0..MaxCodigos /\ emision' \in [1..MaxCodigos -> Nat]
  BY DEF ConEntidad, UpdateUltimoAcceso, InvTipo, TypeOK
<1>2. QED
  BY <1>1, VivaTipo, EmpezarConEntidad DEF UpdateUltimoAcceso

LEMMA PedirCambioTipo ==
  ASSUME InvTipo, NEW t \in Tareas, NEW c \in Cuentas, NEW k \in Claves, PedirCambioClave(t, c, k)
  PROVE  InvTipo'
<1> DEFINE e == Entidad(c, cuenta[c], "porEmail")
           i == [e EXCEPT !.pone = k]
<1>1. cuenta[c] \in Fila /\ Empezar(t, c, i)
  BY VivaTipo DEF PedirCambioClave
<1>2. e \in Tarea /\ e.pc = "porEmail" /\ e.cuenta = c /\ e.fila = cuenta[c] /\ ~e.alta /\ e.cod = 0
  BY <1>1, EntidadTipo DEF Leida, ConEntidad
<1>3. i \in Tarea
  BY <1>2 DEF Tarea
<1>4. Bien(i) /\ FilaDe(i, cuenta)
  BY <1>1, <1>2, CuentaAssumption DEF Tarea, Bien, FilaDe, ConEntidad
<1>5. codigos' \in 0..MaxCodigos /\ emision' \in [1..MaxCodigos -> Nat]
  BY DEF PedirCambioClave, InvTipo, TypeOK
<1>6. QED
  BY <1>1, <1>3, <1>4, <1>5, EmpezarTipo DEF PedirCambioClave

LEMMA CrearCodigoTipo ==
  ASSUME InvTipo, NEW t \in Tareas, NEW e \in Emails, CrearCodigoRecuperacion(t, e)
  PROVE  InvTipo'
<1> DEFINE fila(c) == [cuenta[c] EXCEPT !.rec = codigos', !.recVence = reloj + VIGENCIA]
<1>1. PICK c \in ConEmail(e) : Empezar(t, c, Entidad(c, fila(c), "cargar"))
  BY DEF CrearCodigoRecuperacion
<1>2. c \in Cuentas /\ Viva(c) /\ "cargar" \in ConEntidad \ {"porEmail", "insertar"}
  BY DEF ConEmail, ConEntidad
<1>3. /\ codigos' \in 0..MaxCodigos /\ emision' \in [1..MaxCodigos -> Nat]
      /\ codigos' \in Nat /\ reloj + VIGENCIA \in Nat
  BY GenerarTipo DEF CrearCodigoRecuperacion
<1>4. fila(c) \in Fila
  BY <1>2, <1>3, VivaTipo DEF Fila
<1>5. QED
  BY <1>1, <1>2, <1>3, <1>4, EmpezarConEntidad DEF CrearCodigoRecuperacion

LEMMA RestablecerTipo ==
  ASSUME InvTipo, NEW t \in Tareas, NEW e \in Emails, NEW n \in 1..codigos, NEW k \in Claves,
         RestablecerConCodigo(t, e, n, k)
  PROVE  InvTipo'
<1> DEFINE fila(c) == TrasRestablecer(cuenta[c], k)
           lee(c) == Entidad(c, fila(c), "cargar")
           i(c) == [lee(c) EXCEPT !.pone = k, !.cod = n]
<1>1. PICK c \in ConEmail(e) : Empezar(t, c, i(c))
  BY DEF RestablecerConCodigo
<1>2. c \in Cuentas /\ Viva(c) /\ n \in 0..MaxCodigos
      /\ codigos' \in 0..MaxCodigos /\ emision' \in [1..MaxCodigos -> Nat]
  BY CuentaAssumption DEF ConEmail, RestablecerConCodigo, InvTipo, TypeOK
<1>3. cuenta[c] \in Fila /\ fila(c) \in Fila
  BY <1>2, VivaTipo DEF Fila, TrasRestablecer
<1>4. Leida(lee(c), c, fila(c), "cargar")
  BY <1>2, <1>3, EntidadTipo DEF ConEntidad
<1>5. i(c) \in Tarea
  <2>1. lee(c) \in Tarea /\ k \in Claves \cup {Nada} /\ n \in Nat
    BY <1>2, <1>4, CuentaAssumption DEF Leida
  <2> HIDE DEF lee
  <2>2. QED
    BY <2>1 DEF Tarea
<1>6. Bien(i(c)) /\ FilaDe(i(c), cuenta)
  BY <1>2, <1>3, <1>4 DEF Leida, Tarea, Bien, FilaDe
<1>7. QED
  BY <1>1, <1>2, <1>5, <1>6, EmpezarTipo DEF RestablecerConCodigo

LEMMA ResendTipo ==
  ASSUME InvTipo, NEW t \in Tareas, NEW c \in Cuentas, ResendVerificationCode(t, c)
  PROVE  InvTipo'
<1> DEFINE fila == ConCodigoVer(cuenta[c], codigos', reloj + VIGENCIA)
<1>1. /\ codigos' \in 0..MaxCodigos /\ emision' \in [1..MaxCodigos -> Nat]
      /\ codigos' \in Nat /\ reloj + VIGENCIA \in Nat
  BY GenerarTipo DEF ResendVerificationCode
<1>2. fila \in Fila
  BY <1>1, VivaTipo DEF Fila, ConCodigoVer, ResendVerificationCode
<1>3. "codigo" \in ConEntidad \ {"porEmail", "insertar"}
  BY DEF ConEntidad
<1>4. QED
  BY <1>1, <1>2, <1>3, EmpezarConEntidad DEF ResendVerificationCode

LEMMA VerifyTipo ==
  ASSUME InvTipo, NEW t \in Tareas, NEW c \in Cuentas, NEW n, VerifyCode(t, c, n)
  PROVE  InvTipo'
<1>1. Verificada(cuenta[c]) \in Fila
  BY VivaTipo DEF Fila, Verificada, VerifyCode
<1>2. "cargar" \in ConEntidad \ {"porEmail", "insertar"}
      /\ codigos' \in 0..MaxCodigos /\ emision' \in [1..MaxCodigos -> Nat]
  BY DEF ConEntidad, VerifyCode, InvTipo, TypeOK
<1>3. QED
  BY <1>1, <1>2, EmpezarConEntidad DEF VerifyCode

(* What an update makes of the entity it reads.                            *)
Renovada(nueva, fila, e, k) ==
  /\ nueva \in Fila /\ nueva.email = e /\ nueva.borrado = fila.borrado
  /\ nueva.clave = IF k = Nada THEN fila.clave ELSE k
  /\ nueva.rec = fila.rec /\ nueva.recVence = fila.recVence
  /\ nueva.ver = fila.ver /\ nueva.verVence = fila.verVence

LEMMA ActualizadaTipo ==
  ASSUME InvTipo, NEW fila \in Fila, NEW e \in Emails, NEW k \in Claves \cup {Nada},
         NEW activo \in BOOLEAN, NEW modo \in Modos, NEW url \in Urls
  PROVE  Renovada(ConUrl(Actualizada(fila, e, k, activo), modo, url), fila, e, k)
<1>1. (IF k = Nada THEN fila.clave ELSE k) \in Claves
  BY DEF Fila
<1>2. url \in Nat
  BY CuentaAssumption DEF Urls, Ajena, InvTipo, TypeOK
<1> QED
  BY <1>1, <1>2 DEF Fila, Actualizada, ConUrl, Renovada

LEMMA ActualizarTipo ==
  ASSUME InvTipo, NEW t \in Tareas, NEW c \in Cuentas, NEW e \in Emails,
         NEW k \in Claves \cup {Nada}, NEW activo \in BOOLEAN, NEW modo \in Modos,
         NEW url \in Urls, Actualizar(t, c, e, k, activo, modo, url)
  PROVE  InvTipo'
<1> DEFINE fila == ConUrl(Actualizada(cuenta[c], e, k, activo), modo, url)
           paso == IF HayQueValidar(c, e) THEN "validar" ELSE PasoFoto(cuenta[c], modo)
           lee == Entidad(c, fila, paso)
           i == [lee EXCEPT !.pone = k, !.modo = modo]
<1>1. Empezar(t, c, i) /\ Viva(c)
      /\ codigos' \in 0..MaxCodigos /\ emision' \in [1..MaxCodigos -> Nat]
  BY DEF Actualizar, InvTipo, TypeOK
<1>2. cuenta[c] \in Fila
  BY <1>1, VivaTipo
<1>3. fila \in Fila
  BY <1>2, ActualizadaTipo DEF Renovada
<1> HIDE DEF fila
<1>4. paso \in {"validar", "borrarFoto", "subirFoto", "persona"}
  BY DEF PasoFoto
<1>5. Leida(lee, c, fila, paso)
  BY <1>3, <1>4, EntidadTipo DEF ConEntidad
<1>6. i \in Tarea
  BY <1>5 DEF Leida, Tarea
<1>7. Bien(i) /\ FilaDe(i, cuenta)
  BY <1>2, <1>4, <1>5 DEF Leida, Tarea, Bien, FilaDe
<1>8. QED
  BY <1>1, <1>6, <1>7, EmpezarTipo DEF Actualizar

LEMMA RegistrarTipo ==
  ASSUME InvTipo, NEW t \in Tareas, NEW c \in Cuentas, NEW e \in Emails,
         NEW k \in Claves, NEW modo \in Modos, Registrar(t, c, e, k, modo)
  PROVE  InvTipo'
<1> DEFINE fila == FilaNueva(e, k)
           paso == IF modo = "archivo" THEN "subirFoto" ELSE "persona"
           lee == Entidad(c, fila, paso)
           i == [lee EXCEPT !.alta = TRUE, !.pone = k]
<1>1. Empezar(t, c, i)
      /\ codigos' \in 0..MaxCodigos /\ emision' \in [1..MaxCodigos -> Nat]
  BY DEF Registrar, InvTipo, TypeOK
<1>2. Leida(lee, c, fila, paso)
  BY FilaNuevaTipo, EntidadTipo DEF ConEntidad
<1>3. i \in Tarea
  BY <1>2 DEF Leida, Tarea
<1>4. Bien(i) /\ FilaDe(i, cuenta)
  BY <1>2 DEF Leida, Tarea, Bien, FilaDe
<1>5. QED
  BY <1>1, <1>3, <1>4, EmpezarTipo DEF Registrar

LEMMA EliminarTipo ==
  ASSUME InvTipo, NEW t \in Tareas, NEW c \in Cuentas, Eliminar(t, c)
  PROVE  InvTipo'
<1>1. cuenta[c] \in Fila
  BY VivaTipo DEF Eliminar
<1>2. cuenta' = [cuenta EXCEPT ![c].borrado = TRUE]
  BY DEF Eliminar
<1>3. cuenta' \in [Cuentas -> Fila \cup {Nada}] /\ \A d \in Cuentas : cuenta[d] \in Fila => cuenta'[d] \in Fila
  <2>1. [cuenta[c] EXCEPT !.borrado = TRUE] \in Fila
    BY <1>1 DEF Fila
  <2>2. QED
    BY <1>2, <2>1 DEF InvTipo, TypeOK
<1>4. persona' \in [Cuentas -> {"ninguna", "viva", "borrada"}] /\ solapadas' \subseteq Cuentas
  BY DEF Eliminar, Marcar, InvTipo, TypeOK
<1>5. TypeOK'
  BY <1>3, <1>4 DEF Eliminar, InvTipo, TypeOK
<1>6. TareasOK'
  <2>1. tarea' = tarea
    BY DEF Eliminar
  <2>2. QED
    BY <1>3, <2>1 DEF InvTipo, TypeOK, TareasOK, Bien, FilaDe
<1>7. QED
  BY <1>5, <1>6 DEF InvTipo

-----------------------------------------------------------------------------
(* Requests in flight.                                                     *)
LEMMA EnCursoTipo ==
  ASSUME InvTipo, NEW t \in Tareas
  PROVE  tarea[t] \in Tarea /\ Bien(tarea[t]) /\ FilaDe(tarea[t], cuenta)
  BY DEF InvTipo, TypeOK, TareasOK

(* Task t goes on to paso with the same account and with entity f.         *)
LEMMA SigueTipo ==
  ASSUME InvTipo, NEW t \in Tareas, ~En(t, "libre"), NEW f \in Fila,
         NEW paso \in ConEntidad \ {"porEmail", "codigo"},
         NEW i, i = [tarea[t] EXCEPT !.pc = paso, !.fila = f],
         tarea[t].alta => paso \in {"subirFoto", "persona", "insertar"},
         paso = "insertar" => tarea[t].alta
  PROVE  i \in Tarea /\ Bien(i) /\ FilaDe(i, cuenta)
<1>1. tarea[t] \in Tarea /\ Bien(tarea[t]) /\ FilaDe(tarea[t], cuenta)
  BY EnCursoTipo
<1>2. i \in Tarea
  BY <1>1 DEF Tarea, Pasos, ConEntidad
<1>3. Bien(i) /\ FilaDe(i, cuenta)
  BY <1>1 DEF Tarea, Bien, FilaDe, En, ConEntidad
<1>4. QED
  BY <1>2, <1>3

(* A step that writes nothing but, perhaps, pictures less and persons.     *)
LEMMA SoloTarea ==
  ASSUME InvTipo, NEW t \in Tareas, ~En(t, "libre"), NEW f \in Fila,
         NEW paso \in ConEntidad \ {"porEmail", "codigo"},
         tarea' = [tarea EXCEPT ![t].pc = paso, ![t].fila = f],
         tarea[t].alta => paso \in {"subirFoto", "persona", "insertar"},
         paso = "insertar" => tarea[t].alta,
         UNCHANGED <<reloj, cuenta, subidas, codigos, historia>>, fallas' \in Nat,
         fotos' \subseteq fotos, persona' \in [Cuentas -> {"ninguna", "viva", "borrada"}]
  PROVE  InvTipo'
<1> DEFINE i == [tarea[t] EXCEPT !.pc = paso, !.fila = f]
<1>1. i \in Tarea /\ Bien(i) /\ FilaDe(i, cuenta)
  BY SigueTipo
<1>2. tarea' = [tarea EXCEPT ![t] = i]
  BY DEF InvTipo, TypeOK
<1>3. solapadas' \subseteq Cuentas /\ disputados' \subseteq Emails /\ codigos' \in 0..MaxCodigos /\ emision' \in [1..MaxCodigos -> Nat]
      /\ UNCHANGED <<reloj, cuenta, subidas, claveVigente, usados>>
  BY DEF historia, InvTipo, TypeOK
<1>4. QED
  BY <1>1, <1>2, <1>3, PasoSinEscribir

(* The same with the entity as it is.                                      *)
LEMMA SoloPc ==
  ASSUME InvTipo, NEW t \in Tareas, tarea[t].pc \in ConEntidad,
         NEW paso \in ConEntidad \ {"porEmail", "codigo"},
         tarea' = [tarea EXCEPT ![t].pc = paso],
         tarea[t].alta => paso \in {"subirFoto", "persona", "insertar"},
         paso = "insertar" => tarea[t].alta,
         UNCHANGED <<reloj, cuenta, fotos, subidas, codigos, fallas, historia>>,
         persona' \in [Cuentas -> {"ninguna", "viva", "borrada"}]
  PROVE  InvTipo'
<1>1. tarea[t].fila \in Fila /\ ~En(t, "libre") /\ tarea[t] \in Tarea
  BY EnCursoTipo DEF Bien, ConEntidad, En
<1>2. [tarea[t] EXCEPT !.pc = paso, !.fila = tarea[t].fila] = [tarea[t] EXCEPT !.pc = paso]
  BY <1>1 DEF Tarea
<1>3. tarea' = [tarea EXCEPT ![t].pc = paso, ![t].fila = tarea[t].fila]
  BY <1>2 DEF InvTipo, TypeOK
<1>4. fallas' \in Nat /\ fotos' \subseteq fotos
  BY DEF InvTipo, TypeOK
<1>5. QED
  BY <1>1, <1>3, <1>4, SoloTarea

LEMMA CargarTipo ==
  ASSUME InvTipo, NEW t \in Tareas, CargarCuenta(t)
  PROVE  InvTipo'
<1> DEFINE i == [tarea[t] EXCEPT !.pc = "guardar",
                   !.cols = ColumnasDistintas(tarea[t], cuenta[tarea[t].cuenta])]
<1>1. tarea[t] \in Tarea /\ Bien(tarea[t]) /\ FilaDe(tarea[t], cuenta)
  BY EnCursoTipo
<1>2. tarea' = [tarea EXCEPT ![t] = i] /\ tarea[t].pc \in {"cargar", "persona"} /\ ~tarea[t].alta
  BY <1>1 DEF CargarCuenta, InvTipo, TypeOK, Bien, En
<1>3. ColumnasDistintas(tarea[t], cuenta[tarea[t].cuenta]) \subseteq Columnas
  BY DEF ColumnasDistintas, Columnas
<1>4. i \in Tarea
  <2> HIDE DEF ColumnasDistintas
  <2>1. QED
    BY <1>1, <1>3 DEF Tarea, Pasos
<1>5. Bien(i) /\ FilaDe(i, cuenta)
  BY <1>1, <1>2 DEF Bien, FilaDe, ConEntidad, Tarea
<1>6. codigos' \in 0..MaxCodigos /\ emision' \in [1..MaxCodigos -> Nat] /\ fallas' \in Nat
      /\ solapadas' \subseteq Cuentas /\ disputados' \subseteq Emails /\ fotos' \subseteq fotos
      /\ persona' \in [Cuentas -> {"ninguna", "viva", "borrada"}]
      /\ UNCHANGED <<reloj, cuenta, subidas, claveVigente, usados>>
  BY DEF CargarCuenta, historia, tablas, InvTipo, TypeOK
<1>7. QED
  BY <1>2, <1>4, <1>5, <1>6, PasoSinEscribir

(* A task between two saves of a sign-up.                                  *)
LEMMA EsperaTipo ==
  ASSUME NEW c \in Cuentas, NEW paso \in {"acceso", "verificar"}, NEW filas, filas[c] \in Fila,
         NEW i, i = [Libre EXCEPT !.pc = paso, !.cuenta = c]
  PROVE  i \in Tarea /\ Bien(i) /\ FilaDe(i, filas)
<1>1. i \in Tarea
  BY DEF Libre, Tarea, Pasos, Modos
<1>2. Bien(i) /\ FilaDe(i, filas)
  BY CuentaAssumption DEF Libre, Bien, FilaDe, ConEntidad
<1>3. QED
  BY <1>1, <1>2

(* A step that writes the row of an account, and its password.             *)
LEMMA PasoDeFila ==
  ASSUME InvTipo, NEW t \in Tareas, NEW c \in Cuentas, NEW fila \in Fila, NEW i \in Tarea,
         cuenta' = [cuenta EXCEPT ![c] = fila], tarea' = [tarea EXCEPT ![t] = i],
         Bien(i), FilaDe(i, cuenta'),
         claveVigente' \in [Cuentas -> Claves \cup {Nada}], usados' \subseteq 1..MaxCodigos,
         UNCHANGED <<reloj, persona, fotos, subidas, codigos, fallas, emision, solapadas, disputados>>
  PROVE  InvTipo'
<1>1. cuenta' \in [Cuentas -> Fila \cup {Nada}]
      /\ \A d \in Cuentas : cuenta[d] \in Fila => cuenta'[d] \in Fila
  BY DEF InvTipo, TypeOK
<1>2. tarea' \in [Tareas -> Tarea] /\ TareasOK'
  BY <1>1, PasoDeTarea
<1>3. TypeOK'
  BY <1>1, <1>2 DEF InvTipo, TypeOK
<1>4. QED
  BY <1>2, <1>3 DEF InvTipo

LEMMA GuardarTipo ==
  ASSUME InvTipo, NEW t \in Tareas, GuardarCuenta(t)
  PROVE  InvTipo'
<1> DEFINE c == tarea[t].cuenta
           fila == Fusion(cuenta[c], tarea[t].fila, tarea[t].cols)
           i == IF tarea[t].luego = "libre" THEN Libre
                ELSE [Libre EXCEPT !.pc = tarea[t].luego, !.cuenta = c]
<1>1. tarea[t] \in Tarea /\ Bien(tarea[t]) /\ FilaDe(tarea[t], cuenta) /\ tarea[t].pc = "guardar"
  BY EnCursoTipo DEF GuardarCuenta, En
<1>2. c \in Cuentas /\ cuenta[c] \in Fila /\ tarea[t].fila \in Fila /\ tarea[t].pone \in Claves \cup {Nada}
      /\ tarea[t].luego \in {"libre", "verificar"} /\ tarea[t].cod \in 0..MaxCodigos
  BY <1>1, CuentaAssumption DEF Bien, FilaDe, ConEntidad, Tarea
<1>3. fila \in Fila
  BY <1>2, FusionTipo
<1>4. cuenta' = [cuenta EXCEPT ![c] = fila] /\ cuenta'[c] \in Fila
  BY <1>2, <1>3 DEF GuardarCuenta, InvTipo, TypeOK
<1>5. i \in Tarea /\ Bien(i) /\ FilaDe(i, cuenta')
  BY <1>2, <1>4, LibreTipo, EsperaTipo
<1>6. claveVigente' \in [Cuentas -> Claves \cup {Nada}]
  BY <1>2 DEF GuardarCuenta, InvTipo, TypeOK
<1>7. usados' \subseteq 1..MaxCodigos
  BY <1>2 DEF GuardarCuenta, InvTipo, TypeOK
<1>8. QED
  BY <1>2, <1>3, <1>4, <1>5, <1>6, <1>7, PasoDeFila DEF GuardarCuenta

LEMMA CambiarTipo ==
  ASSUME InvTipo, NEW t \in Tareas, CambiarClave(t)
  PROVE  InvTipo'
<1> DEFINE k == tarea[t].pone
           fila(c) == [cuenta[c] EXCEPT !.clave = k]
           lee(c) == Entidad(c, fila(c), "cargar")
           i(c) == [lee(c) EXCEPT !.pone = k]
<1>1. PICK c \in ConEmail(tarea[t].fila.email) :
        /\ tarea' = [tarea EXCEPT ![t] = i(c)]
        /\ solapadas' = IF c # tarea[t].cuenta /\ EnCurso(c)
                        THEN solapadas \cup {c} ELSE solapadas
  BY DEF CambiarClave
<1>2. k \in Claves
  BY EnCursoTipo DEF Bien, CambiarClave, En
<1>3. c \in Cuentas /\ cuenta[c] \in Fila
  BY VivaTipo DEF ConEmail
<1>4. fila(c) \in Fila
  BY <1>2, <1>3 DEF Fila
<1>5. Leida(lee(c), c, fila(c), "cargar")
  BY <1>3, <1>4, EntidadTipo DEF ConEntidad
<1>6. i(c) \in Tarea
  BY <1>2, <1>5 DEF Leida, Tarea
<1>7. Bien(i(c)) /\ FilaDe(i(c), cuenta)
  BY <1>2, <1>3, <1>5 DEF Leida, Tarea, Bien, FilaDe
<1>8. codigos' \in 0..MaxCodigos /\ emision' \in [1..MaxCodigos -> Nat] /\ fallas' \in Nat
      /\ solapadas' \subseteq Cuentas /\ disputados' \subseteq Emails /\ fotos' \subseteq fotos
      /\ persona' \in [Cuentas -> {"ninguna", "viva", "borrada"}]
      /\ UNCHANGED <<reloj, cuenta, subidas, claveVigente, usados>>
  BY <1>1, <1>3 DEF CambiarClave, tablas, InvTipo, TypeOK
<1>9. QED
  BY <1>1, <1>6, <1>7, <1>8, PasoSinEscribir

LEMMA SetVerificationTipo ==
  ASSUME InvTipo, NEW t \in Tareas, SetVerificationCode(t)
  PROVE  InvTipo'
<1> DEFINE c == tarea[t].cuenta
           f == ConCodigoVer(cuenta[c], tarea[t].fila.ver, tarea[t].fila.verVence)
<1>1. tarea[t].pc = "codigo" /\ tarea[t].fila \in Fila /\ c \in Cuentas /\ ~tarea[t].alta
  BY EnCursoTipo DEF SetVerificationCode, En, Bien, ConEntidad
<1>2. cuenta[c] \in Fila
  BY <1>1, VivaTipo DEF SetVerificationCode
<1>3. f \in Fila
  BY <1>1, <1>2 DEF Fila, ConCodigoVer
<1>4. tarea' = [tarea EXCEPT ![t].pc = "cargar", ![t].fila = f]
  BY DEF SetVerificationCode
<1>5. fallas' \in Nat /\ fotos' \subseteq fotos
      /\ persona' \in [Cuentas -> {"ninguna", "viva", "borrada"}]
      /\ UNCHANGED <<reloj, cuenta, subidas, codigos, historia>>
  BY DEF SetVerificationCode, tablas, InvTipo, TypeOK
<1>6. ~En(t, "libre") /\ "cargar" \in ConEntidad \ {"porEmail", "codigo"}
  BY <1>1 DEF En, ConEntidad
<1>7. QED
  BY <1>1, <1>3, <1>4, <1>5, <1>6, SoloTarea

LEMMA EmailLibreTipo ==
  ASSUME InvTipo, NEW t \in Tareas, EmailLibre(t)
  PROVE  InvTipo'
<1> DEFINE paso == PasoFoto(tarea[t].fila, tarea[t].modo)
<1>1. tarea[t].pc \in ConEntidad /\ paso \in ConEntidad \ {"porEmail", "codigo", "insertar"} /\ ~tarea[t].alta
  BY EnCursoTipo DEF EmailLibre, En, Bien, ConEntidad, PasoFoto
<1>2. tarea' = [tarea EXCEPT ![t].pc = paso]
  BY DEF EmailLibre
<1>3. persona' \in [Cuentas -> {"ninguna", "viva", "borrada"}]
      /\ UNCHANGED <<reloj, cuenta, fotos, subidas, codigos, fallas, historia>>
  BY DEF EmailLibre, tablas, InvTipo, TypeOK
<1>4. QED
  BY <1>1, <1>2, <1>3, SoloPc

LEMMA SubirTipo ==
  ASSUME InvTipo, NEW t \in Tareas, SubirFoto(t)
  PROVE  InvTipo'
<1> DEFINE f == [tarea[t].fila EXCEPT !.foto = subidas']
           i == [tarea[t] EXCEPT !.pc = "persona", !.fila = f]
<1>1. tarea[t].fila \in Fila /\ ~En(t, "libre") /\ tarea[t] \in Tarea /\ subidas' \in Nat
      /\ subidas' = subidas + 1 /\ fotos' = fotos \cup {subidas'}
  BY EnCursoTipo DEF SubirFoto, En, Bien, ConEntidad, InvTipo, TypeOK
<1>2. f \in Fila
  BY <1>1 DEF Fila
<1>3. i \in Tarea /\ Bien(i) /\ FilaDe(i, cuenta)
  <2>1. "persona" \in ConEntidad \ {"porEmail", "codigo"} /\ "persona" # "insertar"
        /\ "persona" \in {"subirFoto", "persona", "insertar"}
    BY DEF ConEntidad
  <2> HIDE DEF f
  <2>2. QED
    BY <1>1, <1>2, <2>1, SigueTipo
<1>4. tarea' = [tarea EXCEPT ![t] = i]
  BY <1>1 DEF SubirFoto, InvTipo, TypeOK, Tarea
<1>5. tarea' \in [Tareas -> Tarea] /\ TareasOK'
  <2>1. cuenta' = cuenta
    BY DEF SubirFoto
  <2>2. QED
    BY <1>3, <1>4, <2>1, PasoDeTarea
<1>6. fotos' \subseteq 1..subidas'
  BY <1>1 DEF InvTipo, TypeOK
<1>7. TypeOK'
  BY <1>1, <1>5, <1>6 DEF SubirFoto, historia, InvTipo, TypeOK
<1>8. QED
  BY <1>5, <1>7 DEF InvTipo

LEMMA BorrarTipo ==
  ASSUME InvTipo, NEW t \in Tareas, BorrarFoto(t) \/ BorradoFallido(t)
  PROVE  InvTipo'
<1> DEFINE f == [tarea[t].fila EXCEPT !.foto = 0]
           paso == IF tarea[t].modo = "archivo" THEN "subirFoto" ELSE "persona"
<1>1. En(t, "borrarFoto") /\ tarea[t].fila \in Fila /\ tarea[t] \in Tarea /\ ~tarea[t].alta
  BY EnCursoTipo DEF BorrarFoto, BorradoFallido, En, Bien, ConEntidad
<1>2. f \in Fila
  BY <1>1 DEF Fila
<1>3. tarea' = [tarea EXCEPT ![t].pc = paso, ![t].fila = f]
  BY <1>1 DEF BorrarFoto, BorradoFallido, SinFoto, InvTipo, TypeOK, Tarea
<1>4. fallas' \in Nat /\ fotos' \subseteq fotos
      /\ persona' \in [Cuentas -> {"ninguna", "viva", "borrada"}]
      /\ UNCHANGED <<reloj, cuenta, subidas, codigos, historia>>
  BY DEF BorrarFoto, BorradoFallido, tablas, InvTipo, TypeOK
<1>5. ~En(t, "libre") /\ paso \in ConEntidad \ {"porEmail", "codigo", "insertar"}
  BY <1>1 DEF En, ConEntidad
<1>6. QED
  BY <1>1, <1>2, <1>3, <1>4, <1>5, SoloTarea

LEMMA PersonaTipo ==
  ASSUME InvTipo, NEW t \in Tareas, GuardarPersona(t) \/ InsertarPersona(t)
  PROVE  InvTipo'
<1>1. persona' \in [Cuentas -> {"ninguna", "viva", "borrada"}]
      /\ UNCHANGED <<reloj, cuenta, fotos, subidas, codigos, fallas, historia>>
  BY DEF GuardarPersona, InsertarPersona, InvTipo, TypeOK
<1>2. tarea[t] \in Tarea /\ tarea[t].pc = "persona"
  BY EnCursoTipo DEF GuardarPersona, InsertarPersona, En
<1>3. CASE InsertarPersona(t)
  BY <1>1, <1>2, <1>3, SoloPc DEF InsertarPersona, ConEntidad
<1>4. CASE GuardarPersona(t) /\ tarea[t].conPersona
  <2>1. tarea' = [tarea EXCEPT ![t].pc = "cargar"] /\ ~tarea[t].alta
    BY <1>4 DEF GuardarPersona, InvTipo, TypeOK
  <2>2. tarea[t].pc \in ConEntidad /\ "cargar" \in ConEntidad \ {"porEmail", "codigo"}
        /\ "cargar" # "insertar"
    BY <1>2 DEF ConEntidad
  <2>3. QED
    BY <1>1, <2>1, <2>2, SoloPc
<1>5. CASE GuardarPersona(t) /\ ~tarea[t].conPersona
  <2>1. Terminar(t) /\ persona' = persona /\ fallas' \in Nat
    BY <1>5 DEF GuardarPersona, Terminar, InvTipo, TypeOK
  <2>2. QED
    BY <1>1, <2>1, TerminarTipo DEF tablas
<1>6. QED
  BY <1>3, <1>4, <1>5

LEMMA InsertarTipo ==
  ASSUME InvTipo, NEW t \in Tareas, InsertarCuenta(t)
  PROVE  InvTipo'
<1> DEFINE c == tarea[t].cuenta
           fila == tarea[t].fila
           i == [Libre EXCEPT !.pc = "acceso", !.cuenta = c]
<1>1. c \in Cuentas /\ fila \in Fila /\ tarea[t].pone \in Claves
  BY EnCursoTipo DEF InsertarCuenta, En, Bien, ConEntidad
<1>2. cuenta' = [cuenta EXCEPT ![c] = fila] /\ cuenta'[c] \in Fila
  BY <1>1 DEF InsertarCuenta, InvTipo, TypeOK
<1>3. i \in Tarea /\ Bien(i) /\ FilaDe(i, cuenta')
  BY <1>1, <1>2, EsperaTipo
<1>4. claveVigente' \in [Cuentas -> Claves \cup {Nada}] /\ usados' \subseteq 1..MaxCodigos
  BY <1>1 DEF InsertarCuenta, InvTipo, TypeOK
<1>5. tarea' = [tarea EXCEPT ![t] = i]
  BY DEF InsertarCuenta
<1>6. QED
  BY <1>1, <1>2, <1>3, <1>4, <1>5, PasoDeFila DEF InsertarCuenta

LEMMA TrasAltaTipo ==
  ASSUME InvTipo, NEW t \in Tareas, AccesoTrasAlta(t) \/ MarkEmailVerified(t)
  PROVE  InvTipo'
<1> DEFINE c == tarea[t].cuenta
<1>1. c \in Cuentas /\ cuenta[c] \in Fila
  BY EnCursoTipo, VivaTipo DEF AccesoTrasAlta, MarkEmailVerified, En, Bien
<1>2. codigos' \in 0..MaxCodigos /\ emision' \in [1..MaxCodigos -> Nat] /\ fallas' \in Nat
      /\ solapadas' \subseteq Cuentas /\ disputados' \subseteq Emails /\ fotos' \subseteq fotos
      /\ persona' \in [Cuentas -> {"ninguna", "viva", "borrada"}]
      /\ UNCHANGED <<reloj, cuenta, subidas, claveVigente, usados>>
  BY DEF AccesoTrasAlta, MarkEmailVerified, historia, tablas, InvTipo, TypeOK
<1>3. ASSUME NEW f \in Fila, NEW i,
             i = Entidad(c, f, "cargar") \/ i = [Entidad(c, f, "cargar") EXCEPT !.luego = "verificar"],
             tarea' = [tarea EXCEPT ![t] = i]
      PROVE  InvTipo'
  <2>1. Leida(Entidad(c, f, "cargar"), c, f, "cargar")
    BY <1>1, EntidadTipo DEF ConEntidad
  <2>2. i \in Tarea
    BY <1>3, <2>1 DEF Leida, Tarea
  <2>3. Bien(i) /\ FilaDe(i, cuenta)
    BY <1>1, <1>3, <2>1 DEF Leida, Tarea, Bien, FilaDe
  <2>4. QED
    BY <1>2, <1>3, <2>2, <2>3, PasoSinEscribir
<1>4. Verificada(cuenta[c]) \in Fila
  BY <1>1 DEF Verificada, Fila
<1>5. QED
  BY <1>1, <1>3, <1>4 DEF AccesoTrasAlta, MarkEmailVerified

-----------------------------------------------------------------------------
LEMMA InitTipo == Init => InvTipo
<1>1. SUFFICES ASSUME Init PROVE InvTipo
  OBVIOUS
<1>2. TypeOK
  BY <1>1, LibreTipo, CuentaAssumption DEF Init, TypeOK
<1>3. TareasOK
  BY <1>1, LibreTipo DEF Init, TareasOK
<1>4. QED
  BY <1>2, <1>3 DEF InvTipo

LEMMA IniciarTipo ==
  ASSUME InvTipo, NEW t \in Tareas, Iniciar(t)
  PROVE  InvTipo'
  BY LoginTipo, RestablecerTipo, RegistrarTipo, CrearCodigoTipo, LogoutTipo, ResendTipo,
     EliminarTipo, PedirCambioTipo, VerifyTipo, ActualizarTipo DEF Iniciar

LEMMA AvanzarTipo ==
  ASSUME InvTipo, NEW t \in Tareas, Avanzar(t)
  PROVE  InvTipo'
<1>1. CASE CuentaPerdida(t) \/ EmailTomado(t)
  <2>1. Terminar(t) /\ fallas' \in Nat /\ UNCHANGED <<reloj, tablas, subidas, codigos, historia>>
    BY <1>1 DEF CuentaPerdida, EmailTomado, InvTipo, TypeOK
  <2>2. QED
    BY <2>1, TerminarTipo
<1>2. CASE ~CuentaPerdida(t) /\ ~EmailTomado(t)
  BY <1>2, CargarTipo, GuardarTipo, CambiarTipo, SetVerificationTipo, EmailLibreTipo, SubirTipo,
     BorrarTipo, PersonaTipo, InsertarTipo, TrasAltaTipo DEF Avanzar
<1>3. QED
  BY <1>1, <1>2

LEMMA NextTipo == InvTipo /\ [Next]_vars => InvTipo'
<1> SUFFICES ASSUME InvTipo, [Next]_vars PROVE InvTipo'
  OBVIOUS
<1>2. ASSUME NEW t \in Tareas, Iniciar(t) \/ Avanzar(t) PROVE InvTipo'
  BY <1>2, IniciarTipo, AvanzarTipo
<1>3. ASSUME NEW t \in Tareas, Fallar(t) PROVE InvTipo'
  <2>1. fallas' \in Nat
    BY <1>3 DEF Fallar, InvTipo, TypeOK
  <2>2. QED
    BY <1>3, <2>1, TerminarTipo DEF Fallar
<1>4. CASE Reiniciar
  <2>1. TypeOK'
    BY <1>4, LibreTipo DEF Reiniciar, tablas, historia, InvTipo, TypeOK
  <2>2. TareasOK'
    BY <1>4, LibreTipo DEF Reiniciar, TareasOK
  <2>3. QED
    BY <2>1, <2>2 DEF InvTipo
<1>5. CASE Tictac
  <2>1. TypeOK'
    BY <1>5 DEF Tictac, tablas, historia, InvTipo, TypeOK
  <2>2. TareasOK'
    BY <1>5 DEF Tictac, tablas, InvTipo, TareasOK, Bien, FilaDe
  <2>3. QED
    BY <2>1, <2>2 DEF InvTipo
<1>6. CASE UNCHANGED vars
  BY <1>6 DEF vars, tablas, historia, InvTipo, TypeOK, TareasOK, Bien, FilaDe
<1>7. QED
  BY <1>2, <1>3, <1>4, <1>5, <1>6 DEF Next

(* Every variable of Cuenta keeps its type: a request in flight carries    *)
(* the entity its next step needs, and its account has a row once the      *)
(* sign-up has inserted it.                                                *)
THEOREM Tipo == Spec => []TypeOK
<1>1. InvTipo => TypeOK
  BY DEF InvTipo
<1>2. QED
  BY <1>1, InitTipo, NextTipo, PTL DEF Spec

-----------------------------------------------------------------------------
(***************************************************************************)
(* What an account keeps as long as no two requests work on it at the same *)
(* time, for every instance of Cuenta and through failures and restarts:   *)
(* its password, the expiry of its codes, its person and its removal.      *)
(*                                                                         *)
(* The entity that a request carries must be the row plus what the request *)
(* means to change, up to its save: then writing the columns that differ   *)
(* is the same as writing the entity.                                      *)
(***************************************************************************)

(* Codes 1..n were made at the times em.                                   *)
VenceBien(fila, n, em) ==
  /\ fila.rec # 0 => fila.rec <= n /\ fila.recVence = em[fila.rec] + VIGENCIA
  /\ fila.ver # 0 => fila.ver <= n /\ fila.verVence = em[fila.ver] + VIGENCIA

(* The row of an account, whose person is per and last password clave.     *)
FilaBien(fila, per, clave, n, em) ==
  fila # Nada =>
    /\ fila.clave = clave
    /\ per = IF fila.borrado THEN "borrada" ELSE "viva"
    /\ VenceBien(fila, n, em)

ParaGuardar == {"validar", "borrarFoto", "subirFoto", "persona", "cargar", "guardar"}

(* A sign-up i at work on it, before its insert.                           *)
AltaBien(i, fila, per) ==
  /\ fila = Nada
  /\ i.fila.clave = i.pone /\ ~i.fila.borrado /\ i.fila.rec = 0 /\ i.fila.ver = 0
  /\ i.pc = "insertar" => per = "viva"

(* Any other request i at work on it.                                      *)
EnMarcha(i, fila, per, clave, n, em) ==
  /\ ~fila.borrado /\ per = "viva"
  /\ i.pc \in ConEntidad => ~i.fila.borrado /\ VenceBien(i.fila, n, em)
  /\ i.pc \in ParaGuardar => i.fila.clave = IF i.pone = Nada THEN clave ELSE i.pone
  /\ i.pc = "guardar" => \A k \in Columnas \ i.cols : i.fila[k] = fila[k]

Trabajo(i, fila, per, clave, n, em) ==
  IF i.alta THEN AltaBien(i, fila, per) ELSE EnMarcha(i, fila, per, clave, n, em)

Sola(c) == \A t, o \in Tareas : tarea[t].cuenta = c /\ tarea[o].cuenta = c => t = o

Propia(c) ==
  /\ Sola(c)
  /\ FilaBien(cuenta[c], persona[c], claveVigente[c], codigos, emision)
  /\ \A t \in Tareas : tarea[t].cuenta = c =>
       Trabajo(tarea[t], cuenta[c], persona[c], claveVigente[c], codigos, emision)

InvPropia == \A c \in Cuentas \ solapadas : Propia(c)

-----------------------------------------------------------------------------
LEMMA InitPropia == Init => InvPropia
<1> SUFFICES ASSUME Init, NEW c \in Cuentas PROVE Propia(c)
  BY DEF InvPropia
<1>1. \A t \in Tareas : tarea[t].cuenta # c
  BY CuentaAssumption DEF Init, Libre
<1>2. cuenta[c] = Nada
  BY DEF Init
<1>3. QED
  BY <1>1, <1>2 DEF Propia, Sola, FilaBien

(* New codes do not disturb those that rows and entities already have.     *)
Crece ==
  /\ codigos' \in Nat /\ codigos <= codigos'
  /\ \A m \in 1..codigos : emision'[m] = emision[m]

LEMMA VenceCrece ==
  ASSUME Crece, codigos \in Nat, NEW fila \in Fila, VenceBien(fila, codigos, emision)
  PROVE  VenceBien(fila, codigos', emision')
<1>1. fila.rec \in Nat /\ fila.ver \in Nat
  BY DEF Fila
<1>2. QED
  BY <1>1 DEF VenceBien, Crece

LEMMA GenerarCrece ==
  ASSUME InvTipo, Generar
  PROVE  Crece /\ codigos' # 0 /\ emision'[codigos'] = reloj
<1>1. codigos \in Nat /\ codigos' = codigos + 1 /\ codigos' \in 1..MaxCodigos
  BY CuentaAssumption DEF InvTipo, TypeOK, Generar
<1>2. emision \in [1..MaxCodigos -> Nat] /\ emision' = [emision EXCEPT ![codigos'] = reloj]
  BY DEF InvTipo, TypeOK, Generar
<1>3. QED
  BY <1>1, <1>2 DEF Crece

LEMMA QuietoCrece ==
  ASSUME InvTipo, UNCHANGED <<codigos, emision>>
  PROVE  Crece
  BY DEF Crece, InvTipo, TypeOK

(* A step of a request that has nothing to do with the account d.          *)
LEMMA PasoAjeno ==
  ASSUME InvTipo, NEW d \in Cuentas, Propia(d), NEW t \in Tareas, NEW i,
         tarea' = [tarea EXCEPT ![t] = i], i.cuenta # d, Crece,
         cuenta'[d] = cuenta[d], persona'[d] = persona[d], claveVigente'[d] = claveVigente[d]
  PROVE  Propia(d)'
<1>1. \A o \in Tareas : tarea'[o].cuenta = d => tarea'[o] = tarea[o]
  BY DEF InvTipo, TypeOK
<1>2. codigos \in Nat /\ cuenta[d] \in Fila \cup {Nada}
  BY DEF InvTipo, TypeOK
<1>3. FilaBien(cuenta'[d], persona'[d], claveVigente'[d], codigos', emision')
  BY <1>2, VenceCrece DEF Propia, FilaBien
<1>4. ASSUME NEW o \in Tareas, tarea'[o].cuenta = d
      PROVE  Trabajo(tarea'[o], cuenta'[d], persona'[d], claveVigente'[d], codigos', emision')
  <2>1. tarea'[o] = tarea[o] /\ Bien(tarea[o])
        /\ Trabajo(tarea[o], cuenta[d], persona[d], claveVigente[d], codigos, emision)
    BY <1>1, <1>4 DEF Propia, InvTipo, TareasOK
  <2>2. tarea[o].pc \in ConEntidad => tarea[o].fila \in Fila
    BY <2>1 DEF Bien
  <2>3. QED
    BY <1>2, <2>1, <2>2, VenceCrece DEF Trabajo, AltaBien, EnMarcha
<1>5. Sola(d)'
  BY <1>1 DEF Propia, Sola
<1>6. QED
  BY <1>3, <1>4, <1>5 DEF Propia

(* A step of the request that works on the account d, or of one that       *)
(* starts on it.                                                           *)
LEMMA PasoPropio ==
  ASSUME InvTipo, NEW d \in Cuentas, NEW t \in Tareas, NEW i,
         tarea' = [tarea EXCEPT ![t] = i],
         \A o \in Tareas \ {t} : tarea[o].cuenta # d,
         FilaBien(cuenta'[d], persona'[d], claveVigente'[d], codigos', emision'),
         i.cuenta = d =>
           Trabajo(i, cuenta'[d], persona'[d], claveVigente'[d], codigos', emision')
  PROVE  Propia(d)'
<1>1. \A o \in Tareas : tarea'[o].cuenta = d => o = t /\ tarea'[o] = i
  BY DEF InvTipo, TypeOK
<1>2. Sola(d)'
  BY <1>1 DEF Sola
<1>3. QED
  BY <1>1, <1>2 DEF Propia

-----------------------------------------------------------------------------
(* Requests that start with what they read from a live account.            *)
LEMMA EmpezarPropia ==
  ASSUME InvTipo, InvPropia, NEW t \in Tareas, NEW c \in Cuentas, NEW i,
         Viva(c), Empezar(t, c, i), i.cuenta = c, ~i.alta, i.pc # "guardar",
         Crece, UNCHANGED <<cuenta, persona, claveVigente>>,
         i.fila.borrado = cuenta[c].borrado,
         VenceBien(cuenta[c], codigos', emision') => VenceBien(i.fila, codigos', emision'),
         i.pc \in ParaGuardar => i.fila.clave = IF i.pone = Nada THEN cuenta[c].clave ELSE i.pone
  PROVE  InvPropia'
<1> SUFFICES ASSUME NEW d \in Cuentas \ solapadas' PROVE Propia(d)'
  BY DEF InvPropia
<1>1. tarea' = [tarea EXCEPT ![t] = i] /\ d \notin solapadas /\ (d = c => ~EnCurso(c))
  BY DEF Empezar, Marcar
<1>2. Propia(d)
  BY <1>1 DEF InvPropia
<1>3. CASE d # c
  BY <1>1, <1>2, <1>3, PasoAjeno
<1>4. CASE d = c
  <2>1. cuenta[c] \in Fila /\ cuenta[c] # Nada /\ ~cuenta[c].borrado /\ codigos \in Nat
    BY VivaTipo DEF Viva, InvTipo, TypeOK
  <2>2. /\ cuenta[c].clave = claveVigente[c] /\ persona[c] = "viva"
        /\ VenceBien(cuenta[c], codigos', emision')
    BY <1>2, <1>4, <2>1, VenceCrece DEF Propia, FilaBien
  <2>3. FilaBien(cuenta'[c], persona'[c], claveVigente'[c], codigos', emision')
    BY <2>1, <2>2 DEF FilaBien
  <2>4. Trabajo(i, cuenta'[c], persona'[c], claveVigente'[c], codigos', emision')
    BY <2>1, <2>2 DEF Trabajo, EnMarcha
  <2>5. \A o \in Tareas \ {t} : tarea[o].cuenta # c
    BY <1>1, <1>4 DEF EnCurso
  <2>6. QED
    BY <1>1, <1>4, <2>3, <2>4, <2>5, PasoPropio
<1>5. QED
  BY <1>3, <1>4

(* The same for the plain entity fila.                                     *)
LEMMA EmpezarLeida ==
  ASSUME InvTipo, InvPropia, NEW t \in Tareas, NEW c \in Cuentas,
         NEW fila \in Fila, NEW paso \in ConEntidad \ {"guardar"},
         Viva(c), Empezar(t, c, Entidad(c, fila, paso)),
         Crece, UNCHANGED <<cuenta, persona, claveVigente>>,
         fila.borrado = cuenta[c].borrado, fila.clave = cuenta[c].clave,
         VenceBien(cuenta[c], codigos', emision') => VenceBien(fila, codigos', emision')
  PROVE  InvPropia'
<1> DEFINE i == Entidad(c, fila, paso)
<1>1. i.pc = paso /\ i.cuenta = c /\ i.fila = fila /\ ~i.alta /\ i.pone = Nada
  BY EntidadTipo DEF Leida
<1>2. QED
  BY <1>1, EmpezarPropia

LEMMA LoginPropia ==
  ASSUME InvTipo, InvPropia, NEW t \in Tareas, NEW e \in Emails, NEW k \in Claves, Login(t, e, k)
  PROVE  InvPropia'
<1>1. PICK c \in ConEmail(e) : Empezar(t, c, Entidad(c, cuenta[c], "cargar"))
  BY DEF Login
<1>2. c \in Cuentas /\ Viva(c) /\ cuenta[c] \in Fila
  BY VivaTipo DEF ConEmail
<1>3. Crece /\ UNCHANGED <<cuenta, persona, claveVigente>>
  BY QuietoCrece DEF Login, tablas
<1>4. QED
  BY <1>1, <1>2, <1>3, EmpezarLeida DEF ConEntidad

LEMMA LogoutPropia ==
  ASSUME InvTipo, InvPropia, NEW t \in Tareas, NEW c \in Cuentas, UpdateUltimoAcceso(t, c)
  PROVE  InvPropia'
<1>1. Viva(c) /\ cuenta[c] \in Fila /\ Empezar(t, c, Entidad(c, cuenta[c], "cargar"))
  BY VivaTipo DEF UpdateUltimoAcceso
<1>2. Crece /\ UNCHANGED <<cuenta, persona, claveVigente>>
  BY QuietoCrece DEF UpdateUltimoAcceso, tablas
<1>3. QED
  BY <1>1, <1>2, EmpezarLeida DEF ConEntidad

LEMMA PedirCambioPropia ==
  ASSUME InvTipo, InvPropia, NEW t \in Tareas, NEW c \in Cuentas, NEW k \in Claves,
         PedirCambioClave(t, c, k)
  PROVE  InvPropia'
<1> DEFINE e == Entidad(c, cuenta[c], "porEmail")
           i == [e EXCEPT !.pone = k]
<1>1. Viva(c) /\ cuenta[c] \in Fila /\ Empezar(t, c, i)
  BY VivaTipo DEF PedirCambioClave
<1>2. Leida(e, c, cuenta[c], "porEmail")
  BY <1>1, EntidadTipo DEF ConEntidad
<1>3. i.pc = "porEmail" /\ i.cuenta = c /\ i.fila = cuenta[c] /\ ~i.alta
  BY <1>2 DEF Leida, Tarea
<1>4. Crece /\ UNCHANGED <<cuenta, persona, claveVigente>>
  BY QuietoCrece DEF PedirCambioClave, tablas
<1>5. QED
  BY <1>1, <1>3, <1>4, EmpezarPropia DEF ParaGuardar

LEMMA CrearCodigoPropia ==
  ASSUME InvTipo, InvPropia, NEW t \in Tareas, NEW e \in Emails, CrearCodigoRecuperacion(t, e)
  PROVE  InvPropia'
<1> DEFINE fila(c) == [cuenta[c] EXCEPT !.rec = codigos', !.recVence = reloj + VIGENCIA]
<1>1. PICK c \in ConEmail(e) : Empezar(t, c, Entidad(c, fila(c), "cargar"))
  BY DEF CrearCodigoRecuperacion
<1>2. c \in Cuentas /\ Viva(c) /\ cuenta[c] \in Fila
  BY VivaTipo DEF ConEmail
<1>3. Crece /\ codigos' \in Nat /\ emision'[codigos'] = reloj /\ reloj + VIGENCIA \in Nat
  BY GenerarCrece, GenerarTipo DEF CrearCodigoRecuperacion
<1>4. fila(c) \in Fila /\ fila(c).borrado = cuenta[c].borrado /\ fila(c).clave = cuenta[c].clave
  BY <1>2, <1>3 DEF Fila
<1>5. VenceBien(cuenta[c], codigos', emision') => VenceBien(fila(c), codigos', emision')
  BY <1>2, <1>3 DEF VenceBien, Fila
<1>6. UNCHANGED <<cuenta, persona, claveVigente>>
  BY DEF CrearCodigoRecuperacion, tablas
<1>7. QED
  BY <1>1, <1>2, <1>3, <1>4, <1>5, <1>6, EmpezarLeida DEF ConEntidad

LEMMA RestablecerPropia ==
  ASSUME InvTipo, InvPropia, NEW t \in Tareas, NEW e \in Emails, NEW n \in 1..codigos,
         NEW k \in Claves, RestablecerConCodigo(t, e, n, k)
  PROVE  InvPropia'
<1> DEFINE fila(c) == TrasRestablecer(cuenta[c], k)
           lee(c) == Entidad(c, fila(c), "cargar")
           i(c) == [lee(c) EXCEPT !.pone = k, !.cod = n]
<1>1. PICK c \in ConEmail(e) : Empezar(t, c, i(c))
  BY DEF RestablecerConCodigo
<1>2. c \in Cuentas /\ Viva(c) /\ cuenta[c] \in Fila
  BY VivaTipo DEF ConEmail
<1>3. /\ fila(c) \in Fila /\ fila(c).borrado = cuenta[c].borrado /\ fila(c).clave = k
      /\ fila(c).rec = 0 /\ fila(c).ver = cuenta[c].ver /\ fila(c).verVence = cuenta[c].verVence
  BY <1>2 DEF Fila, TrasRestablecer
<1>4. VenceBien(cuenta[c], codigos', emision') => VenceBien(fila(c), codigos', emision')
  BY <1>3 DEF VenceBien
<1>5. Leida(lee(c), c, fila(c), "cargar")
  BY <1>2, <1>3, EntidadTipo DEF ConEntidad
<1>6. i(c).pc = "cargar" /\ i(c).cuenta = c /\ i(c).fila = fila(c) /\ ~i(c).alta /\ i(c).pone = k
  <2> HIDE DEF lee, fila
  <2>1. QED
    BY <1>5 DEF Leida, Tarea
<1>7. Crece /\ UNCHANGED <<cuenta, persona, claveVigente>>
  BY QuietoCrece DEF RestablecerConCodigo, tablas
<1>8. k # Nada
  BY CuentaAssumption
<1> HIDE DEF i, fila
<1>9. QED
  BY <1>1, <1>2, <1>3, <1>4, <1>6, <1>7, <1>8, EmpezarPropia

LEMMA ResendPropia ==
  ASSUME InvTipo, InvPropia, NEW t \in Tareas, NEW c \in Cuentas, ResendVerificationCode(t, c)
  PROVE  InvPropia'
<1> DEFINE fila == ConCodigoVer(cuenta[c], codigos', reloj + VIGENCIA)
<1>1. Viva(c) /\ cuenta[c] \in Fila /\ Empezar(t, c, Entidad(c, fila, "codigo"))
  BY VivaTipo DEF ResendVerificationCode
<1>2. Crece /\ codigos' \in Nat /\ emision'[codigos'] = reloj /\ reloj + VIGENCIA \in Nat
  BY GenerarCrece, GenerarTipo DEF ResendVerificationCode
<1>3. fila \in Fila /\ fila.borrado = cuenta[c].borrado /\ fila.clave = cuenta[c].clave
  BY <1>1, <1>2 DEF Fila, ConCodigoVer
<1>4. VenceBien(cuenta[c], codigos', emision') => VenceBien(fila, codigos', emision')
  BY <1>1, <1>2 DEF VenceBien, Fila, ConCodigoVer
<1>5. UNCHANGED <<cuenta, persona, claveVigente>>
  BY DEF ResendVerificationCode, tablas
<1>6. QED
  BY <1>1, <1>2, <1>3, <1>4, <1>5, EmpezarLeida DEF ConEntidad

LEMMA VerifyPropia ==
  ASSUME InvTipo, InvPropia, NEW t \in Tareas, NEW c \in Cuentas, NEW n, VerifyCode(t, c, n)
  PROVE  InvPropia'
<1> DEFINE fila == Verificada(cuenta[c])
<1>1. Viva(c) /\ cuenta[c] \in Fila /\ Empezar(t, c, Entidad(c, fila, "cargar"))
  BY VivaTipo DEF VerifyCode
<1>2. fila \in Fila /\ fila.borrado = cuenta[c].borrado /\ fila.clave = cuenta[c].clave
  BY <1>1 DEF Fila, Verificada
<1>3. VenceBien(cuenta[c], codigos', emision') => VenceBien(fila, codigos', emision')
  BY <1>1 DEF VenceBien, Fila, Verificada
<1>4. Crece /\ UNCHANGED <<cuenta, persona, claveVigente>>
  BY QuietoCrece DEF VerifyCode, tablas
<1>5. QED
  BY <1>1, <1>2, <1>3, <1>4, EmpezarLeida DEF ConEntidad

LEMMA ActualizarPropia ==
  ASSUME InvTipo, InvPropia, NEW t \in Tareas, NEW c \in Cuentas, NEW e \in Emails,
         NEW k \in Claves \cup {Nada}, NEW activo \in BOOLEAN, NEW modo \in Modos, NEW url \in Urls,
         Actualizar(t, c, e, k, activo, modo, url)
  PROVE  InvPropia'
<1> DEFINE fila == ConUrl(Actualizada(cuenta[c], e, k, activo), modo, url)
           paso == IF HayQueValidar(c, e) THEN "validar" ELSE PasoFoto(cuenta[c], modo)
           lee == Entidad(c, fila, paso)
           i == [lee EXCEPT !.pone = k, !.modo = modo]
<1>1. Viva(c) /\ cuenta[c] \in Fila /\ Empezar(t, c, i)
  BY VivaTipo DEF Actualizar
<1>2. paso \in {"validar", "borrarFoto", "subirFoto", "persona"}
  BY DEF PasoFoto
<1>3. /\ fila \in Fila /\ fila.borrado = cuenta[c].borrado
      /\ fila.clave = IF k = Nada THEN cuenta[c].clave ELSE k
      /\ fila.rec = cuenta[c].rec /\ fila.recVence = cuenta[c].recVence
      /\ fila.ver = cuenta[c].ver /\ fila.verVence = cuenta[c].verVence
  <2>1. cuenta[c] \in Fila
    BY <1>1
  <2>2. Renovada(fila, cuenta[c], e, k)
    BY <2>1, ActualizadaTipo
  <2>3. QED
    BY <2>2 DEF Renovada
<1> HIDE DEF fila, paso
<1>4. VenceBien(cuenta[c], codigos', emision') => VenceBien(fila, codigos', emision')
  BY <1>3 DEF VenceBien
<1>5. Leida(lee, c, fila, paso)
  BY <1>2, <1>3, EntidadTipo DEF ConEntidad
<1> HIDE DEF lee
<1>6. i.pc = paso /\ i.cuenta = c /\ i.fila = fila /\ ~i.alta /\ i.pone = k
  BY <1>5 DEF Leida, Tarea
<1>7. Crece /\ UNCHANGED <<cuenta, persona, claveVigente>>
  BY QuietoCrece DEF Actualizar, tablas
<1>8. i.pc # "guardar"
  BY <1>2, <1>6
<1> HIDE DEF i
<1> QED
  BY <1>1, <1>3, <1>4, <1>6, <1>7, <1>8, EmpezarPropia

LEMMA RegistrarPropia ==
  ASSUME InvTipo, InvPropia, NEW t \in Tareas, NEW c \in Cuentas, NEW e \in Emails,
         NEW k \in Claves, NEW modo \in Modos, Registrar(t, c, e, k, modo)
  PROVE  InvPropia'
<1> DEFINE fila == FilaNueva(e, k)
           paso == IF modo = "archivo" THEN "subirFoto" ELSE "persona"
           lee == Entidad(c, fila, paso)
           i == [lee EXCEPT !.alta = TRUE, !.pone = k]
<1> SUFFICES ASSUME NEW d \in Cuentas \ solapadas' PROVE Propia(d)'
  BY DEF InvPropia
<1>1. /\ tarea' = [tarea EXCEPT ![t] = i] /\ d \notin solapadas
      /\ cuenta[c] = Nada /\ \A o \in Tareas : tarea[o].cuenta # c
  BY DEF Registrar, IdLibre, EnCurso, Empezar, Marcar
<1>2. Leida(lee, c, fila, paso)
  BY FilaNuevaTipo, EntidadTipo DEF ConEntidad
<1>3. i.pc = paso /\ i.cuenta = c /\ i.fila = fila /\ i.alta /\ i.pone = k
  <2> HIDE DEF lee, fila, paso
  <2>1. QED
    BY <1>2 DEF Leida, Tarea
<1>4. fila.clave = k /\ ~fila.borrado /\ fila.rec = 0 /\ fila.ver = 0
  BY DEF FilaNueva
<1>5. Propia(d) /\ Crece /\ UNCHANGED <<cuenta, persona, claveVigente>>
  BY <1>1, QuietoCrece DEF InvPropia, Registrar, tablas
<1>6. CASE d # c
  <2> HIDE DEF i
  <2>1. QED
    BY <1>1, <1>3, <1>5, <1>6, PasoAjeno
<1>7. CASE d = c
  <2> HIDE DEF i, fila
  <2>1. FilaBien(cuenta'[d], persona'[d], claveVigente'[d], codigos', emision')
    BY <1>1, <1>5, <1>7 DEF FilaBien
  <2>2. Trabajo(i, cuenta'[d], persona'[d], claveVigente'[d], codigos', emision')
    BY <1>1, <1>3, <1>4, <1>5, <1>7 DEF Trabajo, AltaBien
  <2>3. QED
    BY <1>1, <1>7, <2>1, <2>2, PasoPropio
<1>8. QED
  BY <1>6, <1>7

LEMMA EliminarPropia ==
  ASSUME InvTipo, InvPropia, NEW t \in Tareas, NEW c \in Cuentas, Eliminar(t, c)
  PROVE  InvPropia'
<1> SUFFICES ASSUME NEW d \in Cuentas \ solapadas' PROVE Propia(d)'
  BY DEF InvPropia
<1>1. d \notin solapadas /\ (d = c => ~EnCurso(c)) /\ UNCHANGED <<tarea, codigos, emision, claveVigente>>
  BY DEF Eliminar, Marcar
<1>2. Propia(d)
  BY <1>1 DEF InvPropia
<1>3. CASE d # c
  <2>1. cuenta'[d] = cuenta[d] /\ persona'[d] = persona[d]
    BY <1>3 DEF Eliminar, InvTipo, TypeOK
  <2>2. QED
    BY <1>1, <1>2, <2>1 DEF Propia, Sola
<1>4. CASE d = c
  <2>1. cuenta[c] \in Fila /\ cuenta[c] # Nada /\ ~cuenta[c].borrado
    BY VivaTipo DEF Eliminar, Viva
  <2>2. persona[c] = "viva" /\ cuenta[c].clave = claveVigente[c] /\ VenceBien(cuenta[c], codigos, emision)
    BY <1>2, <1>4, <2>1 DEF Propia, FilaBien
  <2>3. cuenta'[c] = [cuenta[c] EXCEPT !.borrado = TRUE] /\ persona'[c] = "borrada"
    BY <2>2 DEF Eliminar, InvTipo, TypeOK
  <2>4. FilaBien(cuenta'[c], persona'[c], claveVigente'[c], codigos', emision')
    BY <1>1, <2>1, <2>2, <2>3 DEF FilaBien, VenceBien, Fila
  <2>5. \A o \in Tareas : tarea'[o].cuenta # c
    BY <1>1, <1>4 DEF EnCurso
  <2>6. QED
    BY <1>4, <2>4, <2>5 DEF Propia, Sola
<1>5. QED
  BY <1>3, <1>4

-----------------------------------------------------------------------------
(* The next step of the request t, which works on its own account.         *)
LEMMA SeguirPropia ==
  ASSUME InvTipo, InvPropia, NEW t \in Tareas, NEW i, NEW c \in Cuentas, c = tarea[t].cuenta,
         tarea' = [tarea EXCEPT ![t] = i], i.cuenta \in {c, Nada},
         UNCHANGED <<codigos, emision, solapadas>>,
         \A d \in Cuentas \ {c} :
           cuenta'[d] = cuenta[d] /\ persona'[d] = persona[d] /\ claveVigente'[d] = claveVigente[d],
         FilaBien(cuenta[c], persona[c], claveVigente[c], codigos, emision)
           /\ Trabajo(tarea[t], cuenta[c], persona[c], claveVigente[c], codigos, emision) =>
             /\ FilaBien(cuenta'[c], persona'[c], claveVigente'[c], codigos, emision)
             /\ i.cuenta = c =>
                  Trabajo(i, cuenta'[c], persona'[c], claveVigente'[c], codigos, emision)
  PROVE  InvPropia'
<1> SUFFICES ASSUME NEW d \in Cuentas \ solapadas' PROVE Propia(d)'
  BY DEF InvPropia
<1>1. Propia(d) /\ Crece /\ Nada # d
  BY QuietoCrece, CuentaAssumption DEF InvPropia
<1>2. CASE d # c
  BY <1>1, <1>2, PasoAjeno
<1>3. CASE d = c
  <2>1. \A o \in Tareas \ {t} : tarea[o].cuenta # d
    BY <1>1, <1>3 DEF Propia, Sola
  <2>2. FilaBien(cuenta[c], persona[c], claveVigente[c], codigos, emision)
        /\ Trabajo(tarea[t], cuenta[c], persona[c], claveVigente[c], codigos, emision)
    BY <1>1, <1>3 DEF Propia
  <2>3. QED
    BY <1>3, <2>1, <2>2, PasoPropio
<1>4. QED
  BY <1>2, <1>3

LEMMA TerminarPropia ==
  ASSUME InvTipo, InvPropia, NEW t \in Tareas, ~En(t, "libre"), Terminar(t),
         UNCHANGED <<tablas, codigos, historia>>
  PROVE  InvPropia'
<1>1. tarea[t].cuenta \in Cuentas
  BY EnCursoTipo DEF Bien, En
<1>2. Libre.cuenta = Nada /\ Nada \notin Cuentas
  BY CuentaAssumption DEF Libre
<1>3. UNCHANGED <<cuenta, persona, claveVigente, codigos, emision, solapadas>>
  BY DEF tablas, historia
<1>4. QED
  BY <1>1, <1>2, <1>3, SeguirPropia DEF Terminar

(* A request of one account goes on with another entity; nothing is saved. *)
LEMMA MoverPropia ==
  ASSUME InvTipo, InvPropia, NEW t \in Tareas, NEW i, NEW c \in Cuentas, c = tarea[t].cuenta,
         tarea' = [tarea EXCEPT ![t] = i], i.cuenta = c,
         UNCHANGED <<cuenta, persona, claveVigente, codigos, emision, solapadas>>,
         FilaBien(cuenta[c], persona[c], claveVigente[c], codigos, emision)
           /\ Trabajo(tarea[t], cuenta[c], persona[c], claveVigente[c], codigos, emision) =>
             Trabajo(i, cuenta[c], persona[c], claveVigente[c], codigos, emision)
  PROVE  InvPropia'
  BY SeguirPropia

LEMMA CargarPropia ==
  ASSUME InvTipo, InvPropia, NEW t \in Tareas, CargarCuenta(t)
  PROVE  InvPropia'
<1> DEFINE c == tarea[t].cuenta
           cols == ColumnasDistintas(tarea[t], cuenta[c])
           i == [tarea[t] EXCEPT !.pc = "guardar", !.cols = cols]
<1>1. tarea[t] \in Tarea /\ Bien(tarea[t]) /\ FilaDe(tarea[t], cuenta)
  BY EnCursoTipo
<1>2. tarea[t].pc \in {"cargar", "persona"} /\ ~tarea[t].alta /\ c \in Cuentas
  BY <1>1 DEF CargarCuenta, Bien, En
<1>3. tarea' = [tarea EXCEPT ![t] = i]
      /\ UNCHANGED <<cuenta, persona, claveVigente, codigos, emision, solapadas>>
  BY DEF CargarCuenta, tablas, historia, InvTipo, TypeOK
<1>4. \A k \in Columnas \ cols : tarea[t].fila[k] = cuenta[c][k]
  BY DEF ColumnasDistintas
<1>5. /\ i.pc = "guardar" /\ i.cuenta = c /\ i.fila = tarea[t].fila /\ ~i.alta
      /\ i.pone = tarea[t].pone /\ i.cols = cols
  <2> HIDE DEF cols
  <2>1. QED
    BY <1>1, <1>2 DEF Tarea
<1> HIDE DEF i, cols
<1>6. Trabajo(tarea[t], cuenta[c], persona[c], claveVigente[c], codigos, emision) =>
        Trabajo(i, cuenta[c], persona[c], claveVigente[c], codigos, emision)
  BY <1>2, <1>4, <1>5 DEF Trabajo, EnMarcha, ConEntidad, ParaGuardar
<1>7. QED
  BY <1>2, <1>3, <1>5, <1>6, MoverPropia

(* With one request on the account, saving the columns that differ leaves  *)
(* the row as the entity has it.                                           *)
LEMMA FusionEsEntidad ==
  ASSUME NEW fila \in Fila, NEW nueva \in Fila, NEW cols,
         \A k \in Columnas \ cols : nueva[k] = fila[k]
  PROVE  Fusion(fila, nueva, cols) = nueva
<1>1. Fusion(fila, nueva, cols) = [k \in Columnas |-> nueva[k]]
  BY DEF Fusion
<1>2. QED
  BY <1>1 DEF Columnas, Fila

LEMMA GuardarPropia ==
  ASSUME InvTipo, InvPropia, NEW t \in Tareas, GuardarCuenta(t)
  PROVE  InvPropia'
<1> DEFINE c == tarea[t].cuenta
           f == tarea[t].fila
           i == IF tarea[t].luego = "libre" THEN Libre
                ELSE [Libre EXCEPT !.pc = tarea[t].luego, !.cuenta = c]
<1>1. tarea[t] \in Tarea /\ Bien(tarea[t]) /\ FilaDe(tarea[t], cuenta) /\ tarea[t].pc = "guardar"
  BY EnCursoTipo DEF GuardarCuenta, En
<1>2. c \in Cuentas /\ cuenta[c] \in Fila /\ f \in Fila /\ ~tarea[t].alta
      /\ tarea[t].luego \in {"libre", "verificar"}
  BY <1>1 DEF Bien, FilaDe, ConEntidad, Tarea
<1>3. /\ tarea' = [tarea EXCEPT ![t] = i] /\ cuenta'[c] = Fusion(cuenta[c], f, tarea[t].cols)
      /\ claveVigente'[c] = IF tarea[t].pone = Nada THEN claveVigente[c] ELSE tarea[t].pone
      /\ \A d \in Cuentas \ {c} : cuenta'[d] = cuenta[d] /\ claveVigente'[d] = claveVigente[d]
      /\ UNCHANGED <<persona, codigos, emision, solapadas>>
  BY <1>2 DEF GuardarCuenta, InvTipo, TypeOK
<1>4. i.cuenta \in {c, Nada} /\ (i.cuenta = c => ~i.alta /\ i.pc = "verificar")
  BY <1>2, CuentaAssumption DEF Libre
<1>5. ASSUME Trabajo(tarea[t], cuenta[c], persona[c], claveVigente[c], codigos, emision)
      PROVE  /\ FilaBien(cuenta'[c], persona'[c], claveVigente'[c], codigos, emision)
             /\ i.cuenta = c =>
                  Trabajo(i, cuenta'[c], persona'[c], claveVigente'[c], codigos, emision)
  <2>1. EnMarcha(tarea[t], cuenta[c], persona[c], claveVigente[c], codigos, emision)
    BY <1>2, <1>5 DEF Trabajo
  <2>2. cuenta'[c] = f
    BY <1>1, <1>2, <1>3, <2>1, FusionEsEntidad DEF EnMarcha
  <2>3. ~f.borrado /\ persona[c] = "viva" /\ VenceBien(f, codigos, emision) /\ f.clave = claveVigente'[c]
    BY <1>1, <1>3, <2>1 DEF EnMarcha, ConEntidad, ParaGuardar
  <2> HIDE DEF i
  <2>4. QED
    BY <1>3, <1>4, <2>2, <2>3 DEF FilaBien, Trabajo, EnMarcha, ConEntidad, ParaGuardar
<1> HIDE DEF i
<1>6. QED
  BY <1>2, <1>3, <1>4, <1>5, SeguirPropia

(* The second read of a password change may find another account.          *)
LEMMA CambiarPropia ==
  ASSUME InvTipo, InvPropia, NEW t \in Tareas, CambiarClave(t)
  PROVE  InvPropia'
<1> DEFINE k == tarea[t].pone
           fila(c) == [cuenta[c] EXCEPT !.clave = k]
           lee(c) == Entidad(c, fila(c), "cargar")
           i(c) == [lee(c) EXCEPT !.pone = k]
<1>1. PICK c \in ConEmail(tarea[t].fila.email) :
        /\ tarea' = [tarea EXCEPT ![t] = i(c)]
        /\ solapadas' = IF c # tarea[t].cuenta /\ EnCurso(c)
                        THEN solapadas \cup {c} ELSE solapadas
  BY DEF CambiarClave
<1>2. k \in Claves /\ k # Nada
  BY EnCursoTipo, CuentaAssumption DEF Bien, CambiarClave, En
<1>3. c \in Cuentas /\ cuenta[c] \in Fila /\ cuenta[c] # Nada /\ ~cuenta[c].borrado
  BY VivaTipo DEF ConEmail, Viva
<1>4. fila(c) \in Fila /\ fila(c).clave = k /\ ~fila(c).borrado
      /\ (VenceBien(cuenta[c], codigos, emision) => VenceBien(fila(c), codigos, emision))
  BY <1>2, <1>3 DEF Fila, VenceBien
<1>5. Leida(lee(c), c, fila(c), "cargar")
  BY <1>3, <1>4, EntidadTipo DEF ConEntidad
<1>6. i(c).pc = "cargar" /\ i(c).cuenta = c /\ i(c).fila = fila(c) /\ ~i(c).alta /\ i(c).pone = k
  <2> HIDE DEF lee, fila, k
  <2>1. QED
    BY <1>5 DEF Leida, Tarea
<1>7. Crece /\ UNCHANGED <<cuenta, persona, claveVigente, codigos, emision>>
  BY QuietoCrece DEF CambiarClave, tablas
<1> HIDE DEF i, fila, k
<1> SUFFICES ASSUME NEW d \in Cuentas \ solapadas' PROVE Propia(d)'
  BY DEF InvPropia
<1>8. Propia(d)
  BY <1>1 DEF InvPropia
<1>9. CASE d # c
  BY <1>1, <1>6, <1>7, <1>8, <1>9, PasoAjeno
<1>10. CASE d = c
  <2>1. \A o \in Tareas \ {t} : tarea[o].cuenta # d
    BY <1>1, <1>8, <1>10 DEF EnCurso, Propia, Sola
  <2>2. FilaBien(cuenta[c], persona[c], claveVigente[c], codigos, emision) /\ persona[c] = "viva"
        /\ VenceBien(cuenta[c], codigos, emision)
    BY <1>3, <1>8, <1>10 DEF Propia, FilaBien
  <2>3. Trabajo(i(c), cuenta[c], persona[c], claveVigente[c], codigos, emision)
    BY <1>2, <1>3, <1>4, <1>6, <2>2 DEF Trabajo, EnMarcha
  <2>4. QED
    BY <1>1, <1>7, <1>10, <2>1, <2>2, <2>3, PasoPropio
<1>11. QED
  BY <1>9, <1>10

LEMMA SetVerificationPropia ==
  ASSUME InvTipo, InvPropia, NEW t \in Tareas, SetVerificationCode(t)
  PROVE  InvPropia'
<1> DEFINE c == tarea[t].cuenta
           e == tarea[t].fila
           f == ConCodigoVer(cuenta[c], e.ver, e.verVence)
           i == [tarea[t] EXCEPT !.pc = "cargar", !.fila = f]
<1>1. /\ tarea[t] \in Tarea /\ tarea[t].pc = "codigo" /\ e \in Fila /\ c \in Cuentas
      /\ ~tarea[t].alta /\ tarea[t].pone = Nada
  BY EnCursoTipo DEF SetVerificationCode, En, Bien, ConEntidad
<1>2. cuenta[c] \in Fila /\ cuenta[c] # Nada /\ ~cuenta[c].borrado
  BY <1>1, VivaTipo DEF SetVerificationCode, Viva
<1>3. /\ f.clave = cuenta[c].clave /\ ~f.borrado /\ f.rec = cuenta[c].rec
      /\ f.recVence = cuenta[c].recVence /\ f.ver = e.ver /\ f.verVence = e.verVence
  BY <1>1, <1>2 DEF Fila, ConCodigoVer
<1>4. tarea' = [tarea EXCEPT ![t] = i]
      /\ UNCHANGED <<cuenta, persona, claveVigente, codigos, emision, solapadas>>
  BY <1>1 DEF SetVerificationCode, tablas, historia, InvTipo, TypeOK, Tarea
<1>5. i.pc = "cargar" /\ i.cuenta = c /\ i.fila = f /\ ~i.alta /\ i.pone = Nada
  <2> HIDE DEF f
  <2>1. QED
    BY <1>1 DEF Tarea
<1> HIDE DEF i, f
<1>6. ASSUME FilaBien(cuenta[c], persona[c], claveVigente[c], codigos, emision),
             Trabajo(tarea[t], cuenta[c], persona[c], claveVigente[c], codigos, emision)
      PROVE  Trabajo(i, cuenta[c], persona[c], claveVigente[c], codigos, emision)
  <2>1. VenceBien(e, codigos, emision) /\ persona[c] = "viva"
    BY <1>1, <1>6 DEF Trabajo, EnMarcha, ConEntidad
  <2>2. VenceBien(f, codigos, emision) /\ f.clave = claveVigente[c]
    BY <1>2, <1>3, <1>6, <2>1 DEF FilaBien, VenceBien
  <2>3. QED
    BY <1>2, <1>3, <1>5, <2>1, <2>2 DEF Trabajo, EnMarcha
<1>7. QED
  BY <1>1, <1>4, <1>5, <1>6, MoverPropia

SoloCambiaFoto(f, e) == \A k \in Columnas \ {"foto"} : f[k] = e[k]

(* The e-mail is free, or the picture is uploaded or deleted: what changes *)
(* of the entity is its picture.                                           *)
LEMMA FotoPropia ==
  ASSUME InvTipo, InvPropia, NEW t \in Tareas, NEW f \in Fila,
         NEW paso \in {"borrarFoto", "subirFoto", "persona"},
         tarea[t].pc \in {"validar", "borrarFoto", "subirFoto"},
         SoloCambiaFoto(f, tarea[t].fila),
         tarea' = [tarea EXCEPT ![t].pc = paso, ![t].fila = f],
         UNCHANGED <<cuenta, persona, claveVigente, codigos, emision, solapadas>>
  PROVE  InvPropia'
<1> DEFINE c == tarea[t].cuenta
           e == tarea[t].fila
           i == [tarea[t] EXCEPT !.pc = paso, !.fila = f]
<1>1. tarea[t] \in Tarea /\ c \in Cuentas /\ tarea' = [tarea EXCEPT ![t] = i]
  BY EnCursoTipo DEF Bien, ConEntidad, InvTipo, TypeOK
<1>2. i.pc = paso /\ i.cuenta = c /\ i.fila = f /\ i.alta = tarea[t].alta /\ i.pone = tarea[t].pone
  BY <1>1 DEF Tarea
<1>3. /\ f.clave = e.clave /\ f.borrado = e.borrado /\ f.rec = e.rec /\ f.recVence = e.recVence
      /\ f.ver = e.ver /\ f.verVence = e.verVence
  BY DEF Columnas, SoloCambiaFoto
<1> HIDE DEF i
<1>4. Trabajo(tarea[t], cuenta[c], persona[c], claveVigente[c], codigos, emision) =>
        Trabajo(i, cuenta[c], persona[c], claveVigente[c], codigos, emision)
  BY <1>2, <1>3 DEF Trabajo, AltaBien, EnMarcha, VenceBien, ConEntidad, ParaGuardar
<1>5. QED
  BY <1>1, <1>2, <1>4, MoverPropia

LEMMA PasosDeFoto ==
  ASSUME InvTipo, InvPropia, NEW t \in Tareas,
         EmailLibre(t) \/ SubirFoto(t) \/ BorrarFoto(t) \/ BorradoFallido(t)
  PROVE  InvPropia'
<1> DEFINE e == tarea[t].fila
<1>1. /\ tarea[t] \in Tarea /\ e \in Fila /\ tarea[t].pc \in {"validar", "borrarFoto", "subirFoto"}
      /\ UNCHANGED <<cuenta, persona, claveVigente, codigos, emision, solapadas>>
  BY EnCursoTipo DEF EmailLibre, SubirFoto, BorrarFoto, BorradoFallido, En, Bien, ConEntidad,
                     tablas, historia
<1>2. CASE EmailLibre(t)
  <2> DEFINE paso == PasoFoto(e, tarea[t].modo)
  <2>1. paso \in {"borrarFoto", "subirFoto", "persona"}
    BY DEF PasoFoto
  <2>2. tarea' = [tarea EXCEPT ![t].pc = paso]
    BY <1>2 DEF EmailLibre
  <2> HIDE DEF paso
  <2>3. [tarea[t] EXCEPT !.pc = paso, !.fila = e] = [tarea[t] EXCEPT !.pc = paso]
    BY <1>1 DEF Tarea
  <2>4. tarea' = [tarea EXCEPT ![t].pc = paso, ![t].fila = e]
    BY <2>2, <2>3 DEF InvTipo, TypeOK
  <2>5. SoloCambiaFoto(e, e)
    BY DEF SoloCambiaFoto
  <2>6. QED
    BY <1>1, <2>1, <2>4, <2>5, FotoPropia
<1>3. ASSUME NEW n \in Nat, NEW paso \in {"subirFoto", "persona"},
             tarea' = [tarea EXCEPT ![t].pc = paso, ![t].fila.foto = n]
      PROVE  InvPropia'
  <2> DEFINE f == [e EXCEPT !.foto = n]
  <2>1. f \in Fila /\ SoloCambiaFoto(f, e)
    BY <1>1 DEF Fila, Columnas, SoloCambiaFoto
  <2>2. tarea' = [tarea EXCEPT ![t].pc = paso, ![t].fila = f]
    BY <1>1, <1>3 DEF InvTipo, TypeOK, Tarea
  <2> HIDE DEF f
  <2>3. QED
    BY <1>1, <2>1, <2>2, FotoPropia
<1>4. CASE SubirFoto(t)
  <2>1. subidas' \in Nat
    BY <1>4 DEF SubirFoto, InvTipo, TypeOK
  <2>2. QED
    BY <1>3, <1>4, <2>1 DEF SubirFoto
<1>5. CASE BorrarFoto(t) \/ BorradoFallido(t)
  <2> DEFINE paso == IF tarea[t].modo = "archivo" THEN "subirFoto" ELSE "persona"
  <2>1. tarea' = [tarea EXCEPT ![t].pc = paso, ![t].fila.foto = 0] /\ paso \in {"subirFoto", "persona"}
    BY <1>5 DEF BorrarFoto, BorradoFallido, SinFoto
  <2>2. QED
    BY <1>3, <2>1
<1>6. QED
  BY <1>2, <1>4, <1>5

LEMMA PersonaPropia ==
  ASSUME InvTipo, InvPropia, NEW t \in Tareas, GuardarPersona(t) \/ InsertarPersona(t)
  PROVE  InvPropia'
<1> DEFINE c == tarea[t].cuenta
<1>1. tarea[t] \in Tarea /\ tarea[t].pc = "persona" /\ c \in Cuentas
      /\ UNCHANGED <<cuenta, claveVigente, codigos, emision, solapadas>>
  BY EnCursoTipo DEF GuardarPersona, InsertarPersona, En, Bien, historia
<1>2. CASE GuardarPersona(t) /\ ~tarea[t].conPersona
  <2>1. Terminar(t) /\ UNCHANGED <<tablas, codigos, historia>> /\ ~En(t, "libre")
    BY <1>2 DEF GuardarPersona, Terminar, tablas, En, InvTipo, TypeOK
  <2>2. QED
    BY <2>1, TerminarPropia
<1>3. ASSUME NEW paso \in {"cargar", "insertar"}, tarea' = [tarea EXCEPT ![t].pc = paso],
             persona' = [persona EXCEPT ![c] = "viva"],
             paso = "cargar" <=> ~tarea[t].alta
      PROVE  InvPropia'
  <2> DEFINE i == [tarea[t] EXCEPT !.pc = paso]
  <2>1. /\ tarea' = [tarea EXCEPT ![t] = i] /\ persona'[c] = "viva"
        /\ \A d \in Cuentas \ {c} : persona'[d] = persona[d]
    BY <1>1, <1>3 DEF InvTipo, TypeOK
  <2>2. /\ i.pc = paso /\ i.cuenta = c /\ i.fila = tarea[t].fila /\ i.alta = tarea[t].alta
        /\ i.pone = tarea[t].pone
    BY <1>1 DEF Tarea
  <2> HIDE DEF i
  <2>3. ASSUME FilaBien(cuenta[c], persona[c], claveVigente[c], codigos, emision),
               Trabajo(tarea[t], cuenta[c], persona[c], claveVigente[c], codigos, emision)
        PROVE  /\ FilaBien(cuenta'[c], persona'[c], claveVigente'[c], codigos, emision)
               /\ Trabajo(i, cuenta'[c], persona'[c], claveVigente'[c], codigos, emision)
    <3>1. CASE tarea[t].alta
      BY <1>1, <1>3, <2>1, <2>2, <2>3, <3>1 DEF Trabajo, AltaBien, FilaBien
    <3>2. CASE ~tarea[t].alta
      BY <1>1, <1>3, <2>1, <2>2, <2>3, <3>2
         DEF Trabajo, EnMarcha, FilaBien, ConEntidad, ParaGuardar
    <3>3. QED
      BY <3>1, <3>2
  <2>4. QED
    BY <1>1, <2>1, <2>2, <2>3, SeguirPropia
<1>4. CASE InsertarPersona(t)
  BY <1>3, <1>4 DEF InsertarPersona
<1>5. CASE GuardarPersona(t) /\ tarea[t].conPersona
  <2>1. tarea' = [tarea EXCEPT ![t].pc = "cargar"] /\ persona' = [persona EXCEPT ![c] = "viva"]
        /\ ~tarea[t].alta
    BY <1>5 DEF GuardarPersona, InvTipo, TypeOK
  <2>2. QED
    BY <1>3, <2>1
<1>6. QED
  BY <1>2, <1>4, <1>5

LEMMA InsertarPropia ==
  ASSUME InvTipo, InvPropia, NEW t \in Tareas, InsertarCuenta(t)
  PROVE  InvPropia'
<1> DEFINE c == tarea[t].cuenta
           f == tarea[t].fila
           i == [Libre EXCEPT !.pc = "acceso", !.cuenta = c]
<1>1. c \in Cuentas /\ tarea[t].pc = "insertar" /\ tarea[t].alta
  BY EnCursoTipo DEF InsertarCuenta, En, Bien
<1>2. /\ tarea' = [tarea EXCEPT ![t] = i] /\ cuenta'[c] = f /\ claveVigente'[c] = tarea[t].pone
      /\ \A d \in Cuentas \ {c} : cuenta'[d] = cuenta[d] /\ claveVigente'[d] = claveVigente[d]
      /\ UNCHANGED <<persona, codigos, emision, solapadas>>
  BY <1>1 DEF InsertarCuenta, InvTipo, TypeOK
<1>3. i.pc = "acceso" /\ i.cuenta = c /\ ~i.alta
  BY DEF Libre
<1> HIDE DEF i
<1>4. Trabajo(tarea[t], cuenta[c], persona[c], claveVigente[c], codigos, emision) =>
        /\ FilaBien(cuenta'[c], persona'[c], claveVigente'[c], codigos, emision)
        /\ Trabajo(i, cuenta'[c], persona'[c], claveVigente'[c], codigos, emision)
  BY <1>1, <1>2, <1>3
     DEF Trabajo, AltaBien, EnMarcha, FilaBien, VenceBien, ConEntidad, ParaGuardar
<1>5. QED
  BY <1>1, <1>2, <1>3, <1>4, SeguirPropia

LEMMA TrasAltaPropia ==
  ASSUME InvTipo, InvPropia, NEW t \in Tareas, AccesoTrasAlta(t) \/ MarkEmailVerified(t)
  PROVE  InvPropia'
<1> DEFINE c == tarea[t].cuenta
<1>1. /\ c \in Cuentas /\ cuenta[c] \in Fila /\ cuenta[c] # Nada /\ ~cuenta[c].borrado
      /\ UNCHANGED <<cuenta, persona, claveVigente, codigos, emision, solapadas>>
  BY EnCursoTipo, VivaTipo
     DEF AccesoTrasAlta, MarkEmailVerified, En, Bien, Viva, tablas, historia
<1>2. ASSUME NEW f \in Fila, NEW i,
             i = Entidad(c, f, "cargar") \/ i = [Entidad(c, f, "cargar") EXCEPT !.luego = "verificar"],
             tarea' = [tarea EXCEPT ![t] = i],
             f.clave = cuenta[c].clave, f.borrado = cuenta[c].borrado,
             VenceBien(cuenta[c], codigos, emision) => VenceBien(f, codigos, emision)
      PROVE  InvPropia'
  <2>1. Leida(Entidad(c, f, "cargar"), c, f, "cargar")
    BY <1>1, EntidadTipo DEF ConEntidad
  <2>2. i.pc = "cargar" /\ i.cuenta = c /\ i.fila = f /\ ~i.alta /\ i.pone = Nada
    BY <1>2, <2>1 DEF Leida, Tarea
  <2>3. FilaBien(cuenta[c], persona[c], claveVigente[c], codigos, emision) =>
          Trabajo(i, cuenta[c], persona[c], claveVigente[c], codigos, emision)
    BY <1>1, <1>2, <2>2 DEF FilaBien, Trabajo, EnMarcha
  <2>4. QED
    BY <1>1, <1>2, <2>2, <2>3, MoverPropia
<1>3. CASE AccesoTrasAlta(t)
  BY <1>1, <1>2, <1>3 DEF AccesoTrasAlta
<1>4. CASE MarkEmailVerified(t)
  <2> DEFINE f == Verificada(cuenta[c])
  <2>1. f \in Fila /\ f.clave = cuenta[c].clave /\ f.borrado = cuenta[c].borrado
    BY <1>1 DEF Verificada, Fila
  <2>2. VenceBien(cuenta[c], codigos, emision) => VenceBien(f, codigos, emision)
    BY <1>1 DEF Verificada, Fila, VenceBien
  <2>3. tarea' = [tarea EXCEPT ![t] = Entidad(c, f, "cargar")]
    BY <1>4 DEF MarkEmailVerified
  <2>4. QED
    BY <1>2, <2>1, <2>2, <2>3
<1>5. QED
  BY <1>3, <1>4

-----------------------------------------------------------------------------
LEMMA IniciarPropia ==
  ASSUME InvTipo, InvPropia, NEW t \in Tareas, Iniciar(t)
  PROVE  InvPropia'
  BY LoginPropia, RestablecerPropia, RegistrarPropia, CrearCodigoPropia, LogoutPropia, ResendPropia,
     EliminarPropia, PedirCambioPropia, VerifyPropia, ActualizarPropia DEF Iniciar

LEMMA AvanzarPropia ==
  ASSUME InvTipo, InvPropia, NEW t \in Tareas, Avanzar(t)
  PROVE  InvPropia'
<1>1. CASE CuentaPerdida(t) \/ EmailTomado(t)
  <2>1. Terminar(t) /\ UNCHANGED <<tablas, codigos, historia>> /\ ~En(t, "libre")
    BY <1>1 DEF CuentaPerdida, EmailTomado, En
  <2>2. QED
    BY <2>1, TerminarPropia
<1>2. CASE ~CuentaPerdida(t) /\ ~EmailTomado(t)
  BY <1>2, CargarPropia, GuardarPropia, CambiarPropia, SetVerificationPropia, PasosDeFoto,
     PersonaPropia, InsertarPropia, TrasAltaPropia DEF Avanzar
<1>3. QED
  BY <1>1, <1>2

LEMMA NextPropia == InvTipo /\ InvPropia /\ [Next]_vars => InvPropia'
<1> SUFFICES ASSUME InvTipo, InvPropia, [Next]_vars PROVE InvPropia'
  OBVIOUS
<1>1. ASSUME NEW t \in Tareas, Iniciar(t) \/ Avanzar(t) PROVE InvPropia'
  BY <1>1, IniciarPropia, AvanzarPropia
<1>2. ASSUME NEW t \in Tareas, Fallar(t) PROVE InvPropia'
  BY <1>2, TerminarPropia DEF Fallar
<1>3. CASE Reiniciar
  <2> SUFFICES ASSUME NEW d \in Cuentas \ solapadas' PROVE Propia(d)'
    BY DEF InvPropia
  <2>1. Propia(d) /\ UNCHANGED <<cuenta, persona, claveVigente, codigos, emision>>
    BY <1>3 DEF InvPropia, Reiniciar, tablas, historia
  <2>2. \A o \in Tareas : tarea'[o].cuenta # d
    BY <1>3, CuentaAssumption DEF Reiniciar, Libre
  <2>3. QED
    BY <2>1, <2>2 DEF Propia, Sola
<1>4. CASE Tictac \/ UNCHANGED vars
  <2>1. UNCHANGED <<cuenta, persona, claveVigente, codigos, emision, solapadas, tarea>>
    BY <1>4 DEF Tictac, vars, tablas, historia
  <2>2. QED
    BY <2>1 DEF InvPropia, Propia, Sola
<1>5. QED
  BY <1>1, <1>2, <1>3, <1>4 DEF Next

LEMMA SpecPropia == Spec => [](InvTipo /\ InvPropia)
  BY InitTipo, NextTipo, InitPropia, NextPropia, PTL DEF Spec

(* An answered password change or recovery stands until the next one, on   *)
(* an account no two requests worked on at once: the entity of every other *)
(* request has the password of the row, so its save writes none.           *)
THEOREM ClaveNoSePierde == Spec => []ClaveQueda
<1>1. InvPropia => ClaveQueda
  BY DEF InvPropia, Propia, FilaBien, ClaveQueda
<1>2. QED
  BY <1>1, SpecPropia, PTL

(* The expiry on such a row is that of the code next to it.                *)
THEOREM CodigosConSuVencimiento == Spec => []VenceConSuCodigo
<1>1. InvPropia => VenceConSuCodigo
  BY DEF InvPropia, Propia, FilaBien, VenceBien, VenceConSuCodigo
<1>2. QED
  BY <1>1, SpecPropia, PTL

(* Such an account has a person, and is removed with it: a sign-up writes  *)
(* the person first, and every handler that saves found both alive.        *)
THEOREM PersonasConCuenta == Spec => []PersonaConCuenta
<1>1. InvPropia => PersonaConCuenta
  BY DEF InvPropia, Propia, FilaBien, PersonaConCuenta
<1>2. QED
  BY <1>1, SpecPropia, PTL

(* The history of overlaps only grows, and only three actions write a row. *)
LEMMA IniciarEscribe ==
  ASSUME NEW t \in Tareas, Iniciar(t)
  PROVE  /\ \E c \in Cuentas : Marcar(c)
         /\ UNCHANGED <<cuenta, usados>> \/ \E c \in Cuentas : Eliminar(t, c)
<1>1. ASSUME NEW e \in Emails, NEW c \in ConEmail(e) PROVE c \in Cuentas
  BY DEF ConEmail
<1>2. CASE \E e \in Emails, k \in Claves : Login(t, e, k)
  BY <1>1, <1>2 DEF Login, Empezar, tablas
<1>3. CASE \E e \in Emails, k \in Claves, n \in 1..codigos : RestablecerConCodigo(t, e, n, k)
  BY <1>1, <1>3 DEF RestablecerConCodigo, Empezar, tablas
<1>4. CASE \E e \in Emails, k \in Claves, c \in Cuentas, modo \in Modos : Registrar(t, c, e, k, modo)
  BY <1>4 DEF Registrar, Empezar, tablas
<1>5. CASE \E e \in Emails : CrearCodigoRecuperacion(t, e)
  BY <1>1, <1>5 DEF CrearCodigoRecuperacion, Empezar, tablas
<1>6. CASE \E c \in Cuentas : UpdateUltimoAcceso(t, c) \/ ResendVerificationCode(t, c)
  BY <1>6 DEF UpdateUltimoAcceso, ResendVerificationCode, Empezar, tablas
<1>7. CASE \E c \in Cuentas : Eliminar(t, c)
  BY <1>7 DEF Eliminar
<1>8. CASE \E c \in Cuentas : \/ \E k \in Claves : PedirCambioClave(t, c, k)
                             \/ \E n \in 1..codigos : VerifyCode(t, c, n)
  BY <1>8 DEF PedirCambioClave, VerifyCode, Empezar, tablas
<1>9. CASE \E c \in Cuentas, e \in Emails, k \in Claves \cup {Nada}, activo \in BOOLEAN, modo \in Modos, url \in Urls :
             Actualizar(t, c, e, k, activo, modo, url)
  BY <1>9 DEF Actualizar, Empezar, tablas
<1>10. QED
  BY <1>2, <1>3, <1>4, <1>5, <1>6, <1>7, <1>8, <1>9 DEF Iniciar

LEMMA NextEscribe ==
  ASSUME Next
  PROVE  /\ solapadas \subseteq solapadas'
         /\ \/ UNCHANGED <<cuenta, usados>>
            \/ \E t \in Tareas : \/ GuardarCuenta(t) \/ InsertarCuenta(t)
                                 \/ \E c \in Cuentas : Eliminar(t, c)
<1>1. \A c : Marcar(c) => solapadas \subseteq solapadas'
  BY DEF Marcar
<1>2. ASSUME NEW t \in Tareas, Iniciar(t)
      PROVE  solapadas \subseteq solapadas' /\ (UNCHANGED <<cuenta, usados>> \/ \E c \in Cuentas : Eliminar(t, c))
  BY <1>1, <1>2, IniciarEscribe
<1>3. ASSUME NEW t \in Tareas, Avanzar(t)
      PROVE  /\ solapadas \subseteq solapadas'
             /\ UNCHANGED <<cuenta, usados>> \/ GuardarCuenta(t) \/ InsertarCuenta(t)
  <2>1. CASE CambiarClave(t)
    BY <2>1 DEF CambiarClave, tablas
  <2>2. CASE GuardarCuenta(t) \/ InsertarCuenta(t)
    BY <2>2 DEF GuardarCuenta, InsertarCuenta
  <2>3. CASE CargarCuenta(t) \/ CuentaPerdida(t) \/ SetVerificationCode(t)
             \/ EmailTomado(t) \/ EmailLibre(t)
    BY <2>3 DEF CargarCuenta, CuentaPerdida, SetVerificationCode, EmailTomado, EmailLibre,
                tablas, historia
  <2>4. CASE SubirFoto(t) \/ BorrarFoto(t) \/ BorradoFallido(t) \/ GuardarPersona(t)
             \/ InsertarPersona(t) \/ AccesoTrasAlta(t) \/ MarkEmailVerified(t)
    BY <2>4 DEF SubirFoto, BorrarFoto, BorradoFallido, GuardarPersona, InsertarPersona,
                AccesoTrasAlta, MarkEmailVerified, tablas, historia
  <2>5. QED
    BY <1>3, <2>1, <2>2, <2>3, <2>4 DEF Avanzar
<1>4. ASSUME NEW t \in Tareas, Fallar(t) PROVE UNCHANGED <<solapadas, cuenta, usados>>
  BY <1>4 DEF Fallar, tablas, historia
<1>5. CASE Reiniciar \/ Tictac
  BY <1>5 DEF Reiniciar, Tictac, tablas, historia
<1>6. QED
  BY <1>2, <1>3, <1>4, <1>5 DEF Next

(* No step brings such an account back once it is removed: the only writes *)
(* of a row are those of a request at work on it, and no request works on  *)
(* a removed account unless it overlapped the removal.                     *)
THEOREM EliminadaParaSiempre == Spec => EliminadaQueda
<1> DEFINE Queda ==
      \A c \in Cuentas \ solapadas' : cuenta[c] # Nada /\ cuenta[c].borrado => cuenta'[c].borrado
<1>1. ASSUME InvTipo, InvPropia, [Next]_vars PROVE [Queda]_vars
  <2> SUFFICES ASSUME Next, NEW c \in Cuentas \ solapadas', cuenta[c] # Nada, cuenta[c].borrado
               PROVE  cuenta'[c].borrado
    BY <1>1
  <2>1. /\ solapadas \subseteq solapadas'
        /\ \/ cuenta' = cuenta
           \/ \E t \in Tareas : \/ GuardarCuenta(t) \/ InsertarCuenta(t)
                                \/ \E d \in Cuentas : Eliminar(t, d)
    BY NextEscribe
  <2>2. Propia(c)
    BY <1>1, <2>1 DEF InvPropia
  <2>3. \A t \in Tareas : tarea[t].cuenta # c
    BY <2>2 DEF Propia, Trabajo, AltaBien, EnMarcha
  <2>4. cuenta \in [Cuentas -> Fila \cup {Nada}] /\ cuenta[c] \in Fila
    BY <1>1 DEF InvTipo, TypeOK
  <2>5. ASSUME NEW t \in Tareas, GuardarCuenta(t) \/ InsertarCuenta(t) PROVE cuenta'[c] = cuenta[c]
    BY <2>3, <2>4, <2>5 DEF GuardarCuenta, InsertarCuenta
  <2>6. ASSUME NEW t \in Tareas, NEW d \in Cuentas, Eliminar(t, d) PROVE cuenta'[c].borrado
    BY <2>4, <2>6 DEF Eliminar, Fila
  <2>7. QED
    BY <2>1, <2>5, <2>6
<1>2. QED
  BY <1>1, SpecPropia, PTL DEF Spec, EliminadaQueda

-----------------------------------------------------------------------------
(***************************************************************************)
(* Third part: e-mails, for every instance and any number of requests at   *)
(* the same time.  A request that is going to give its account an e-mail   *)
(* has looked it up; whoever else can get it written meanwhile is another  *)
(* such request, and then the e-mail is disputed.                          *)
(***************************************************************************)
EnUso(fila) == fila # Nada /\ ~fila.borrado

(* Toma, as a function of the rows.                                        *)
Da(i, filas, e) ==
  i.fila # Nada /\ i.fila.email = e /\ (i.alta \/ filas[i.cuenta].email # e)

TrasMirar == {"borrarFoto", "subirFoto", "persona", "insertar", "cargar", "guardar"}

SinDueno(e, filas) == \A d \in Cuentas : EnUso(filas[d]) => filas[d].email # e

Limpia(i, solape) == i.cuenta \in Cuentas \ solape

CuentasBien ==
  \A c, d \in Cuentas \ solapadas :
    c # d /\ EnUso(cuenta[c]) /\ EnUso(cuenta[d]) /\ cuenta[c].email = cuenta[d].email =>
      cuenta[c].email \in disputados

MiradasBien ==
  \A t \in Tareas, d \in Cuentas \ solapadas, e \in Emails :
    /\ Limpia(tarea[t], solapadas) /\ tarea[t].pc \in TrasMirar /\ Da(tarea[t], cuenta, e)
    /\ EnUso(cuenta[d]) /\ cuenta[d].email = e
    => e \in disputados

TomasBien ==
  \A t, o \in Tareas, e \in Emails :
    /\ t # o /\ Limpia(tarea[t], solapadas) /\ Limpia(tarea[o], solapadas)
    /\ Da(tarea[t], cuenta, e) /\ Da(tarea[o], cuenta, e)
    => e \in disputados

InvEmail == CuentasBien /\ MiradasBien /\ TomasBien

-----------------------------------------------------------------------------
(* A request without an entity gives no e-mail.                            *)
LEMMA SinFilaNoDa ==
  ASSUME NEW i, i.fila = Nada, NEW filas, NEW e
  PROVE  ~Da(i, filas, e)
  BY DEF Da

LEMMA InitEmail == Init => InvEmail
<1> SUFFICES ASSUME Init PROVE InvEmail
  OBVIOUS
<1>1. \A t \in Tareas, e \in Emails : ~Da(tarea[t], cuenta, e)
  <2> SUFFICES ASSUME NEW t \in Tareas, NEW e \in Emails PROVE ~Da(tarea[t], cuenta, e)
    OBVIOUS
  <2>1. tarea[t] = Libre /\ Libre.fila = Nada
    BY DEF Init, Libre
  <2> QED
    BY <2>1, SinFilaNoDa
<1>2. \A c \in Cuentas : ~EnUso(cuenta[c])
  BY DEF Init, EnUso
<1> QED
  BY <1>1, <1>2 DEF InvEmail, CuentasBien, MiradasBien, TomasBien

(* What i gives, j was already giving to the same account.                 *)
YaDaba(i, j, e) == i.cuenta = j.cuenta /\ Da(j, cuenta, e)

(* A step that writes no row.                                              *)
LEMMA PasoEmail ==
  ASSUME InvTipo, InvEmail, NEW t \in Tareas, NEW i, tarea' = [tarea EXCEPT ![t] = i],
         cuenta' = cuenta, solapadas \subseteq solapadas', disputados \subseteq disputados',
         \A e \in Emails : Da(i, cuenta, e) =>
           /\ YaDaba(i, tarea[t], e)
                \/ \A o \in Tareas : Da(tarea[o], cuenta, e) => e \in disputados'
           /\ i.pc \in TrasMirar =>
                (YaDaba(i, tarea[t], e) /\ tarea[t].pc \in TrasMirar) \/ SinDueno(e, cuenta)
  PROVE  InvEmail'
<1>1. tarea'[t] = i /\ \A o \in Tareas \ {t} : tarea'[o] = tarea[o]
  BY DEF InvTipo, TypeOK
<1>2. CuentasBien'
  BY DEF InvEmail, CuentasBien, EnUso
<1>3. MiradasBien'
  <2> SUFFICES ASSUME NEW o \in Tareas, NEW d \in Cuentas \ solapadas', NEW e \in Emails,
                      Limpia(tarea'[o], solapadas'), tarea'[o].pc \in TrasMirar, Da(tarea'[o], cuenta, e),
                      EnUso(cuenta[d]), cuenta[d].email = e
               PROVE  e \in disputados'
    BY DEF MiradasBien, EnUso, Da
  <2>1. CASE o # t
    <3>1. tarea'[o] = tarea[o] /\ Limpia(tarea[o], solapadas)
      BY <1>1, <2>1 DEF Limpia
    <3> QED
      BY <3>1 DEF InvEmail, MiradasBien
  <2>2. CASE o = t
    <3>1. tarea'[o] = i /\ ~SinDueno(e, cuenta)
      BY <1>1, <2>2 DEF SinDueno
    <3>2. YaDaba(i, tarea[t], e) /\ tarea[t].pc \in TrasMirar
      BY <3>1
    <3>3. Limpia(tarea[t], solapadas) /\ Da(tarea[t], cuenta, e)
      BY <3>1, <3>2 DEF Limpia, YaDaba
    <3> QED
      BY <3>2, <3>3 DEF InvEmail, MiradasBien
  <2> QED
    BY <2>1, <2>2
<1>4. ASSUME NEW o \in Tareas \ {t}, NEW e \in Emails, Limpia(i, solapadas'), Limpia(tarea[o], solapadas),
             Da(i, cuenta, e), Da(tarea[o], cuenta, e)
      PROVE  e \in disputados'
  <2>1. CASE YaDaba(i, tarea[t], e)
    <3>1. Limpia(tarea[t], solapadas) /\ Da(tarea[t], cuenta, e)
      BY <1>4, <2>1 DEF Limpia, YaDaba
    <3> QED
      BY <1>4, <3>1 DEF InvEmail, TomasBien
  <2> QED
    BY <1>4, <2>1
<1>5. TomasBien'
  <2> SUFFICES ASSUME NEW o \in Tareas, NEW u \in Tareas, NEW e \in Emails, o # u,
                      Limpia(tarea'[o], solapadas'), Limpia(tarea'[u], solapadas'),
                      Da(tarea'[o], cuenta, e), Da(tarea'[u], cuenta, e)
               PROVE  e \in disputados'
    BY DEF TomasBien, Da
  <2>1. CASE o # t /\ u # t
    <3>1. tarea'[o] = tarea[o] /\ tarea'[u] = tarea[u] /\ Limpia(tarea[o], solapadas) /\ Limpia(tarea[u], solapadas)
      BY <1>1, <2>1 DEF Limpia
    <3> QED
      BY <3>1 DEF InvEmail, TomasBien
  <2>2. CASE o = t
    <3>1. tarea'[o] = i /\ tarea'[u] = tarea[u] /\ Limpia(tarea[u], solapadas) /\ u \in Tareas \ {t}
      BY <1>1, <2>2 DEF Limpia
    <3> QED
      BY <1>4, <3>1
  <2>3. CASE u = t
    <3>1. tarea'[u] = i /\ tarea'[o] = tarea[o] /\ Limpia(tarea[o], solapadas) /\ o \in Tareas \ {t}
      BY <1>1, <2>3 DEF Limpia
    <3> QED
      BY <1>4, <3>1
  <2> QED
    BY <2>1, <2>2, <2>3
<1> QED
  BY <1>2, <1>3, <1>5 DEF InvEmail

(* The request carries its row's e-mail, or nothing, from now on.          *)
LEMMA NadaQueDar ==
  ASSUME InvTipo, InvEmail, NEW t \in Tareas, NEW i, tarea' = [tarea EXCEPT ![t] = i],
         cuenta' = cuenta, solapadas \subseteq solapadas', disputados \subseteq disputados',
         i.fila = Nada \/ (~i.alta /\ i.fila.email = cuenta[i.cuenta].email)
  PROVE  InvEmail'
<1>1. \A e \in Emails : ~Da(i, cuenta, e)
  BY DEF Da
<1> QED
  BY <1>1, PasoEmail

(* The request goes on with the same e-mail for the same account.          *)
LEMMA SeguirEmail ==
  ASSUME InvTipo, InvEmail, NEW t \in Tareas, NEW i, tarea' = [tarea EXCEPT ![t] = i],
         UNCHANGED <<cuenta, solapadas, disputados>>,
         i.cuenta = tarea[t].cuenta, i.alta = tarea[t].alta, tarea[t].fila \in Fila,
         i.fila.email = tarea[t].fila.email,
         tarea[t].pc \in TrasMirar \/ SinDueno(i.fila.email, cuenta)
  PROVE  InvEmail'
<1>1. tarea[t].fila # Nada
  BY CuentaAssumption
<1>2. ASSUME NEW e \in Emails, Da(i, cuenta, e)
      PROVE  YaDaba(i, tarea[t], e) /\ (tarea[t].pc \in TrasMirar \/ SinDueno(e, cuenta))
  BY <1>1, <1>2 DEF Da, YaDaba
<1> QED
  BY <1>2, PasoEmail

(* The row of the request's account is written, and the request carries no *)
(* entity any more.                                                        *)
LEMMA EscribirEmail ==
  ASSUME InvTipo, InvPropia, InvEmail, NEW t \in Tareas, NEW c \in Cuentas, c = tarea[t].cuenta,
         NEW f \in Fila, cuenta' = [cuenta EXCEPT ![c] = f],
         NEW i, i.fila = Nada, tarea' = [tarea EXCEPT ![t] = i], UNCHANGED <<solapadas, disputados>>,
         c \notin solapadas =>
           \/ EnUso(cuenta[c]) /\ f.email = cuenta[c].email
           \/ tarea[t].pc \in TrasMirar /\ Da(tarea[t], cuenta, f.email)
  PROVE  InvEmail'
<1>1. /\ tarea'[t] = i /\ \A o \in Tareas \ {t} : tarea'[o] = tarea[o]
      /\ cuenta'[c] = f /\ \A d \in Cuentas \ {c} : cuenta'[d] = cuenta[d]
  BY DEF InvTipo, TypeOK
<1>2. \A e \in Emails : ~Da(tarea'[t], cuenta', e)
  BY <1>1, SinFilaNoDa
<1>3. f.email \in Emails
  BY DEF Fila
<1>4. ASSUME NEW d \in Cuentas \ solapadas, d # c, c \notin solapadas,
             EnUso(cuenta[d]), cuenta[d].email = f.email
      PROVE  f.email \in disputados
  <2>1. CASE EnUso(cuenta[c]) /\ f.email = cuenta[c].email
    BY <1>4, <2>1 DEF InvEmail, CuentasBien
  <2>2. CASE tarea[t].pc \in TrasMirar /\ Da(tarea[t], cuenta, f.email)
    <3>1. Limpia(tarea[t], solapadas)
      BY <1>4 DEF Limpia
    <3> QED
      BY <1>3, <1>4, <2>2, <3>1 DEF InvEmail, MiradasBien
  <2> QED
    BY <1>4, <2>1, <2>2
<1>5. CuentasBien'
  <2> SUFFICES ASSUME NEW x \in Cuentas \ solapadas, NEW y \in Cuentas \ solapadas, x # y,
                      EnUso(cuenta'[x]), EnUso(cuenta'[y]), cuenta'[x].email = cuenta'[y].email
               PROVE  cuenta'[x].email \in disputados
    BY DEF CuentasBien, EnUso
  <2>1. CASE x # c /\ y # c
    BY <1>1, <2>1 DEF InvEmail, CuentasBien
  <2>2. CASE x = c
    BY <1>1, <1>4, <2>2
  <2>3. CASE y = c
    BY <1>1, <1>4, <2>3
  <2> QED
    BY <2>1, <2>2, <2>3
<1>6. ASSUME NEW o \in Tareas, NEW e \in Emails, Limpia(tarea'[o], solapadas), Da(tarea'[o], cuenta', e)
      PROVE  /\ o # t /\ tarea'[o] = tarea[o] /\ Limpia(tarea[o], solapadas) /\ Da(tarea[o], cuenta, e)
  <2>1. o # t
    BY <1>2, <1>6
  <2>2. tarea'[o] = tarea[o] /\ Limpia(tarea[o], solapadas)
    BY <1>1, <1>6, <2>1
  <2>3. tarea[o].cuenta # c
    BY <2>1, <2>2 DEF Limpia, InvPropia, Propia, Sola
  <2>4. cuenta'[tarea[o].cuenta] = cuenta[tarea[o].cuenta]
    BY <1>1, <2>2, <2>3 DEF Limpia
  <2> QED
    BY <1>6, <2>1, <2>2, <2>4 DEF Da
<1>7. MiradasBien'
  <2> SUFFICES ASSUME NEW o \in Tareas, NEW d \in Cuentas \ solapadas, NEW e \in Emails,
                      Limpia(tarea'[o], solapadas), tarea'[o].pc \in TrasMirar, Da(tarea'[o], cuenta', e),
                      EnUso(cuenta'[d]), cuenta'[d].email = e
               PROVE  e \in disputados
    BY DEF MiradasBien, EnUso, Da, Limpia
  <2>1. o # t /\ tarea'[o] = tarea[o] /\ Limpia(tarea[o], solapadas) /\ Da(tarea[o], cuenta, e)
    BY <1>6
  <2>2. CASE d # c
    BY <1>1, <2>1, <2>2 DEF InvEmail, MiradasBien
  <2>3. CASE d = c /\ EnUso(cuenta[c]) /\ f.email = cuenta[c].email
    BY <1>1, <2>1, <2>3 DEF InvEmail, MiradasBien
  <2>4. CASE d = c /\ Da(tarea[t], cuenta, f.email)
    <3>1. f.email = e /\ Limpia(tarea[t], solapadas)
      BY <1>1, <2>4 DEF Limpia
    <3> QED
      BY <2>1, <2>4, <3>1 DEF InvEmail, TomasBien
  <2> QED
    BY <2>2, <2>3, <2>4
<1>8. TomasBien'
  <2> SUFFICES ASSUME NEW o \in Tareas, NEW u \in Tareas, NEW e \in Emails, o # u,
                      Limpia(tarea'[o], solapadas), Limpia(tarea'[u], solapadas),
                      Da(tarea'[o], cuenta', e), Da(tarea'[u], cuenta', e)
               PROVE  e \in disputados
    BY DEF TomasBien, Da, Limpia
  <2> QED
    BY <1>6 DEF InvEmail, TomasBien
<1> QED
  BY <1>5, <1>7, <1>8 DEF InvEmail

-----------------------------------------------------------------------------
(* Requests that start.  What one gives while another one gives it too is  *)
(* disputed.                                                               *)
LEMMA EmpezarEmail ==
  ASSUME InvTipo, InvEmail, NEW t \in Tareas, NEW c \in Cuentas, NEW i, Empezar(t, c, i),
         cuenta' = cuenta,
         \A e \in Emails : Da(i, cuenta, e) /\ i.pc \in TrasMirar => SinDueno(e, cuenta)
  PROVE  InvEmail'
<1>1. tarea' = [tarea EXCEPT ![t] = i] /\ solapadas \subseteq solapadas'
  BY DEF Empezar, Marcar
<1>2. disputados \subseteq disputados'
  BY DEF Empezar
<1>3. ASSUME NEW e \in Emails, Da(i, cuenta, e), NEW o \in Tareas, Da(tarea[o], cuenta, e)
      PROVE  e \in disputados'
  <2>1. Toma(i, e) /\ Toma(tarea[o], e)
    BY <1>3 DEF Da, Toma
  <2> QED
    BY <2>1 DEF Empezar
<1> QED
  BY <1>1, <1>2, <1>3, PasoEmail

(* Those that keep the e-mail of the row they read.                        *)
LEMMA EmpezarSinDar ==
  ASSUME InvTipo, InvEmail, NEW t \in Tareas, NEW c \in Cuentas, NEW i, Empezar(t, c, i),
         cuenta' = cuenta, i.cuenta = c, ~i.alta, i.fila.email = cuenta[c].email
  PROVE  InvEmail'
<1>1. \A e \in Emails : ~Da(i, cuenta, e)
  BY DEF Da
<1> QED
  BY <1>1, EmpezarEmail

LEMMA EntidadEmail ==
  ASSUME InvTipo, InvEmail, NEW t \in Tareas, NEW c \in Cuentas, NEW fila \in Fila,
         NEW paso \in ConEntidad, Empezar(t, c, Entidad(c, fila, paso)),
         cuenta' = cuenta, fila.email = cuenta[c].email
  PROVE  InvEmail'
<1> DEFINE i == Entidad(c, fila, paso)
<1>1. i.cuenta = c /\ i.fila = fila /\ ~i.alta
  BY EntidadTipo DEF Leida
<1>2. Empezar(t, c, i)
  OBVIOUS
<1> HIDE DEF i
<1> QED
  BY <1>1, <1>2, EmpezarSinDar

LEMMA LoginEmail ==
  ASSUME InvTipo, InvEmail, NEW t \in Tareas, NEW e \in Emails, NEW k \in Claves, Login(t, e, k)
  PROVE  InvEmail'
<1>1. PICK c \in ConEmail(e) : Empezar(t, c, Entidad(c, cuenta[c], "cargar"))
  BY DEF Login
<1>2. c \in Cuentas /\ cuenta[c] \in Fila /\ "cargar" \in ConEntidad /\ cuenta' = cuenta
  BY VivaTipo DEF ConEmail, ConEntidad, Login, tablas
<1> QED
  BY <1>1, <1>2, EntidadEmail

LEMMA LogoutEmail ==
  ASSUME InvTipo, InvEmail, NEW t \in Tareas, NEW c \in Cuentas, UpdateUltimoAcceso(t, c)
  PROVE  InvEmail'
<1>1. cuenta[c] \in Fila /\ "cargar" \in ConEntidad /\ cuenta' = cuenta
      /\ Empezar(t, c, Entidad(c, cuenta[c], "cargar"))
  BY VivaTipo DEF ConEntidad, UpdateUltimoAcceso, tablas
<1> QED
  BY <1>1, EntidadEmail

LEMMA PedirCambioEmail ==
  ASSUME InvTipo, InvEmail, NEW t \in Tareas, NEW c \in Cuentas, NEW k \in Claves,
         PedirCambioClave(t, c, k)
  PROVE  InvEmail'
<1> DEFINE e == Entidad(c, cuenta[c], "porEmail")
           i == [e EXCEPT !.pone = k]
<1>1. cuenta[c] \in Fila /\ Empezar(t, c, i) /\ cuenta' = cuenta
  BY VivaTipo DEF PedirCambioClave, tablas
<1>2. Leida(e, c, cuenta[c], "porEmail")
  BY <1>1, EntidadTipo DEF ConEntidad
<1>3. i.cuenta = c /\ i.fila = cuenta[c] /\ ~i.alta
  BY <1>2 DEF Leida, Tarea
<1> HIDE DEF i
<1> QED
  BY <1>1, <1>3, EmpezarSinDar

LEMMA CrearCodigoEmail ==
  ASSUME InvTipo, InvEmail, NEW t \in Tareas, NEW e \in Emails, CrearCodigoRecuperacion(t, e)
  PROVE  InvEmail'
<1> DEFINE fila(c) == [cuenta[c] EXCEPT !.rec = codigos', !.recVence = reloj + VIGENCIA]
<1>1. PICK c \in ConEmail(e) : Empezar(t, c, Entidad(c, fila(c), "cargar"))
  BY DEF CrearCodigoRecuperacion
<1>2. c \in Cuentas /\ cuenta[c] \in Fila /\ "cargar" \in ConEntidad /\ cuenta' = cuenta
  BY VivaTipo DEF ConEmail, ConEntidad, CrearCodigoRecuperacion, tablas
<1>3. codigos' \in Nat /\ reloj + VIGENCIA \in Nat
  BY GenerarTipo DEF CrearCodigoRecuperacion
<1>4. fila(c) \in Fila /\ fila(c).email = cuenta[c].email
  BY <1>2, <1>3 DEF Fila
<1> HIDE DEF fila
<1> QED
  BY <1>1, <1>2, <1>4, EntidadEmail

LEMMA RestablecerEmail ==
  ASSUME InvTipo, InvEmail, NEW t \in Tareas, NEW e \in Emails, NEW n \in 1..codigos,
         NEW k \in Claves, RestablecerConCodigo(t, e, n, k)
  PROVE  InvEmail'
<1> DEFINE fila(c) == TrasRestablecer(cuenta[c], k)
           lee(c) == Entidad(c, fila(c), "cargar")
           i(c) == [lee(c) EXCEPT !.pone = k, !.cod = n]
<1>1. PICK c \in ConEmail(e) : Empezar(t, c, i(c))
  BY DEF RestablecerConCodigo
<1>2. c \in Cuentas /\ cuenta[c] \in Fila /\ cuenta' = cuenta
  BY VivaTipo DEF ConEmail, RestablecerConCodigo, tablas
<1>3. fila(c) \in Fila /\ fila(c).email = cuenta[c].email
  BY <1>2 DEF Fila, TrasRestablecer
<1> HIDE DEF fila
<1>4. Leida(lee(c), c, fila(c), "cargar")
  BY <1>2, <1>3, EntidadTipo DEF ConEntidad
<1> HIDE DEF lee
<1>5. i(c).cuenta = c /\ i(c).fila = fila(c) /\ ~i(c).alta
  BY <1>4 DEF Leida, Tarea
<1> HIDE DEF i
<1> QED
  BY <1>1, <1>2, <1>3, <1>5, EmpezarSinDar

LEMMA ResendEmail ==
  ASSUME InvTipo, InvEmail, NEW t \in Tareas, NEW c \in Cuentas, ResendVerificationCode(t, c)
  PROVE  InvEmail'
<1> DEFINE fila == ConCodigoVer(cuenta[c], codigos', reloj + VIGENCIA)
<1>1. cuenta[c] \in Fila /\ Empezar(t, c, Entidad(c, fila, "codigo"))
      /\ "codigo" \in ConEntidad /\ cuenta' = cuenta
  BY VivaTipo DEF ResendVerificationCode, ConEntidad, tablas
<1>2. codigos' \in Nat /\ reloj + VIGENCIA \in Nat
  BY GenerarTipo DEF ResendVerificationCode
<1>3. fila \in Fila /\ fila.email = cuenta[c].email
  BY <1>1, <1>2 DEF Fila, ConCodigoVer
<1> HIDE DEF fila
<1> QED
  BY <1>1, <1>3, EntidadEmail

LEMMA VerifyEmail ==
  ASSUME InvTipo, InvEmail, NEW t \in Tareas, NEW c \in Cuentas, NEW n, VerifyCode(t, c, n)
  PROVE  InvEmail'
<1> DEFINE fila == Verificada(cuenta[c])
<1>1. cuenta[c] \in Fila /\ Empezar(t, c, Entidad(c, fila, "cargar"))
      /\ "cargar" \in ConEntidad /\ cuenta' = cuenta
  BY VivaTipo DEF VerifyCode, ConEntidad, tablas
<1>2. fila \in Fila /\ fila.email = cuenta[c].email
  BY <1>1 DEF Fila, Verificada
<1> HIDE DEF fila
<1> QED
  BY <1>1, <1>2, EntidadEmail

(* An update is past the look-up at once only if it keeps the e-mail.      *)
LEMMA ActualizarEmail ==
  ASSUME InvTipo, InvEmail, NEW t \in Tareas, NEW c \in Cuentas, NEW e \in Emails,
         NEW k \in Claves \cup {Nada}, NEW activo \in BOOLEAN, NEW modo \in Modos, NEW url \in Urls,
         Actualizar(t, c, e, k, activo, modo, url)
  PROVE  InvEmail'
<1> DEFINE fila == ConUrl(Actualizada(cuenta[c], e, k, activo), modo, url)
           paso == IF HayQueValidar(c, e) THEN "validar" ELSE PasoFoto(cuenta[c], modo)
           lee == Entidad(c, fila, paso)
           i == [lee EXCEPT !.pone = k, !.modo = modo]
<1>1. cuenta[c] \in Fila /\ Empezar(t, c, i) /\ cuenta' = cuenta
  BY VivaTipo DEF Actualizar, tablas
<1>2. paso \in {"validar", "borrarFoto", "subirFoto", "persona"}
      /\ (paso # "validar" => e = cuenta[c].email)
  BY DEF PasoFoto, HayQueValidar
<1>3. fila \in Fila /\ fila.email = e
  BY <1>1, ActualizadaTipo DEF Renovada
<1> HIDE DEF fila, paso
<1>4. Leida(lee, c, fila, paso)
  BY <1>2, <1>3, EntidadTipo DEF ConEntidad
<1> HIDE DEF lee
<1>5. i.pc = paso /\ i.cuenta = c /\ i.fila = fila /\ ~i.alta
  BY <1>4 DEF Leida, Tarea
<1> HIDE DEF i
<1>6. ASSUME NEW d \in Emails, Da(i, cuenta, d), i.pc \in TrasMirar PROVE FALSE
  BY <1>2, <1>3, <1>5, <1>6 DEF Da, TrasMirar
<1> QED
  BY <1>1, <1>6, EmpezarEmail

LEMMA RegistrarEmail ==
  ASSUME InvTipo, InvEmail, NEW t \in Tareas, NEW c \in Cuentas, NEW e \in Emails,
         NEW k \in Claves, NEW modo \in Modos, Registrar(t, c, e, k, modo)
  PROVE  InvEmail'
<1> DEFINE fila == FilaNueva(e, k)
           paso == IF modo = "archivo" THEN "subirFoto" ELSE "persona"
           lee == Entidad(c, fila, paso)
           i == [lee EXCEPT !.alta = TRUE, !.pone = k]
<1>1. Empezar(t, c, i) /\ cuenta' = cuenta
  BY DEF Registrar, tablas
<1>2. SinDueno(e, cuenta)
  BY DEF Registrar, EmailDisponible, ConEmail, Viva, SinDueno, EnUso
<1>3. fila.email = e /\ Leida(lee, c, fila, paso)
  BY FilaNuevaTipo, EntidadTipo DEF ConEntidad, FilaNueva
<1>4. i.fila = fila
  <2> HIDE DEF lee, fila, paso
  <2> QED
    BY <1>3 DEF Leida, Tarea
<1> HIDE DEF i, fila, paso
<1>5. ASSUME NEW d \in Emails, Da(i, cuenta, d), i.pc \in TrasMirar PROVE SinDueno(d, cuenta)
  BY <1>2, <1>3, <1>4, <1>5 DEF Da
<1> QED
  BY <1>1, <1>5, EmpezarEmail

LEMMA EliminarEmail ==
  ASSUME InvTipo, InvEmail, NEW t \in Tareas, NEW c \in Cuentas, Eliminar(t, c)
  PROVE  InvEmail'
<1>1. /\ tarea' = tarea /\ disputados' = disputados /\ solapadas \subseteq solapadas'
      /\ EnCurso(c) => c \in solapadas'
      /\ cuenta' = [cuenta EXCEPT ![c].borrado = TRUE] /\ cuenta[c] \in Fila
  BY VivaTipo DEF Eliminar, Marcar
<1>2. ~EnUso(cuenta'[c]) /\ \A d \in Cuentas \ {c} : cuenta'[d] = cuenta[d]
  BY <1>1 DEF EnUso, Fila, InvTipo, TypeOK
<1>3. CuentasBien'
  <2> SUFFICES ASSUME NEW x \in Cuentas \ solapadas', NEW y \in Cuentas \ solapadas', x # y,
                      EnUso(cuenta'[x]), EnUso(cuenta'[y]), cuenta'[x].email = cuenta'[y].email
               PROVE  cuenta'[x].email \in disputados
    BY <1>1 DEF CuentasBien, EnUso
  <2>1. cuenta'[x] = cuenta[x] /\ cuenta'[y] = cuenta[y]
    BY <1>2
  <2> QED
    BY <1>1, <2>1 DEF InvEmail, CuentasBien
<1>4. ASSUME NEW o \in Tareas, NEW e \in Emails, Limpia(tarea[o], solapadas'), Da(tarea[o], cuenta', e)
      PROVE  Limpia(tarea[o], solapadas) /\ Da(tarea[o], cuenta, e)
  <2>1. tarea[o].cuenta # c /\ tarea[o].cuenta \in Cuentas \ solapadas'
    BY <1>1, <1>4 DEF Limpia, EnCurso
  <2>2. cuenta'[tarea[o].cuenta] = cuenta[tarea[o].cuenta] /\ Limpia(tarea[o], solapadas)
    BY <1>1, <1>2, <2>1 DEF Limpia
  <2> QED
    BY <1>4, <2>2 DEF Da
<1>5. MiradasBien'
  <2> SUFFICES ASSUME NEW o \in Tareas, NEW d \in Cuentas \ solapadas', NEW e \in Emails,
                      Limpia(tarea[o], solapadas'), tarea[o].pc \in TrasMirar, Da(tarea[o], cuenta', e),
                      EnUso(cuenta'[d]), cuenta'[d].email = e
               PROVE  e \in disputados
    BY <1>1 DEF MiradasBien, EnUso, Da, Limpia
  <2>1. Limpia(tarea[o], solapadas) /\ Da(tarea[o], cuenta, e)
    BY <1>4
  <2>2. cuenta'[d] = cuenta[d]
    BY <1>2
  <2> QED
    BY <1>1, <2>1, <2>2 DEF InvEmail, MiradasBien
<1>6. TomasBien'
  <2> SUFFICES ASSUME NEW o \in Tareas, NEW u \in Tareas, NEW e \in Emails, o # u,
                      Limpia(tarea[o], solapadas'), Limpia(tarea[u], solapadas'),
                      Da(tarea[o], cuenta', e), Da(tarea[u], cuenta', e)
               PROVE  e \in disputados
    BY <1>1 DEF TomasBien, Da, Limpia
  <2> QED
    BY <1>4 DEF InvEmail, TomasBien
<1> QED
  BY <1>3, <1>5, <1>6 DEF InvEmail

-----------------------------------------------------------------------------
(* Requests in flight.                                                     *)
LEMMA TerminarEmail ==
  ASSUME InvTipo, InvEmail, NEW t \in Tareas, Terminar(t), cuenta' = cuenta,
         UNCHANGED <<solapadas, disputados>>
  PROVE  InvEmail'
<1>1. Libre.fila = Nada
  BY DEF Libre
<1> QED
  BY <1>1, NadaQueDar DEF Terminar

(* The request goes to paso, with at most another picture.                 *)
LEMMA MoverEmail ==
  ASSUME InvTipo, InvEmail, NEW t \in Tareas, tarea[t].pc \in TrasMirar, NEW i,
         tarea' = [tarea EXCEPT ![t] = i],
         i.cuenta = tarea[t].cuenta, i.alta = tarea[t].alta, i.fila.email = tarea[t].fila.email,
         UNCHANGED <<cuenta, solapadas, disputados>>
  PROVE  InvEmail'
<1>1. tarea[t].fila \in Fila
  BY EnCursoTipo DEF Bien, ConEntidad, TrasMirar
<1> QED
  BY <1>1, SeguirEmail

LEMMA CargarEmail ==
  ASSUME InvTipo, InvEmail, NEW t \in Tareas, CargarCuenta(t)
  PROVE  InvEmail'
<1> DEFINE cols == ColumnasDistintas(tarea[t], cuenta[tarea[t].cuenta])
           i == [tarea[t] EXCEPT !.pc = "guardar", !.cols = cols]
<1>1. tarea[t] \in Tarea /\ tarea[t].pc \in TrasMirar
  BY EnCursoTipo DEF CargarCuenta, En, TrasMirar
<1>2. tarea' = [tarea EXCEPT ![t] = i] /\ UNCHANGED <<cuenta, solapadas, disputados>>
  BY DEF CargarCuenta, tablas, historia, InvTipo, TypeOK
<1> HIDE DEF cols
<1>3. i.cuenta = tarea[t].cuenta /\ i.alta = tarea[t].alta /\ i.fila = tarea[t].fila
  BY <1>1 DEF Tarea
<1> HIDE DEF i
<1> QED
  BY <1>1, <1>2, <1>3, MoverEmail

LEMMA EmailLibreEmail ==
  ASSUME InvTipo, InvEmail, NEW t \in Tareas, EmailLibre(t)
  PROVE  InvEmail'
<1> DEFINE paso == PasoFoto(tarea[t].fila, tarea[t].modo)
           i == [tarea[t] EXCEPT !.pc = paso]
<1>1. tarea[t] \in Tarea /\ tarea[t].fila \in Fila
  BY EnCursoTipo DEF EmailLibre, En, Bien, ConEntidad
<1>2. tarea' = [tarea EXCEPT ![t] = i] /\ UNCHANGED <<cuenta, solapadas, disputados>>
  BY DEF EmailLibre, tablas, historia, InvTipo, TypeOK
<1>3. SinDueno(tarea[t].fila.email, cuenta)
  BY DEF EmailLibre, ConEmail, Viva, SinDueno, EnUso
<1> HIDE DEF paso
<1>4. i.cuenta = tarea[t].cuenta /\ i.alta = tarea[t].alta /\ i.fila = tarea[t].fila
  BY <1>1 DEF Tarea
<1> HIDE DEF i
<1> QED
  BY <1>1, <1>2, <1>3, <1>4, SeguirEmail

LEMMA FotosEmail ==
  ASSUME InvTipo, InvEmail, NEW t \in Tareas, SubirFoto(t) \/ BorrarFoto(t) \/ BorradoFallido(t)
  PROVE  InvEmail'
<1>1. PICK n, paso : tarea' = [tarea EXCEPT ![t].pc = paso, ![t].fila.foto = n]
  BY DEF SubirFoto, BorrarFoto, BorradoFallido, SinFoto
<1>2. tarea[t] \in Tarea /\ tarea[t].pc \in TrasMirar /\ tarea[t].fila \in Fila
  BY EnCursoTipo DEF SubirFoto, BorrarFoto, BorradoFallido, En, TrasMirar, Bien, ConEntidad
<1>3. UNCHANGED <<cuenta, solapadas, disputados>>
  BY DEF SubirFoto, BorrarFoto, BorradoFallido, tablas, historia
<1> DEFINE f == [tarea[t].fila EXCEPT !.foto = n]
           i == [tarea[t] EXCEPT !.pc = paso, !.fila = f]
<1>4. f.email = tarea[t].fila.email
  BY <1>2 DEF Fila
<1>5. tarea' = [tarea EXCEPT ![t] = i]
  BY <1>1, <1>2 DEF InvTipo, TypeOK, Tarea
<1> HIDE DEF f
<1>6. i.cuenta = tarea[t].cuenta /\ i.alta = tarea[t].alta /\ i.fila = f
  BY <1>2 DEF Tarea
<1> HIDE DEF i
<1> QED
  BY <1>2, <1>3, <1>4, <1>5, <1>6, MoverEmail

LEMMA PersonaEmail ==
  ASSUME InvTipo, InvEmail, NEW t \in Tareas, GuardarPersona(t) \/ InsertarPersona(t)
  PROVE  InvEmail'
<1>1. /\ tarea[t] \in Tarea /\ tarea[t].pc \in TrasMirar
      /\ UNCHANGED <<cuenta, solapadas, disputados>>
  BY EnCursoTipo DEF GuardarPersona, InsertarPersona, En, TrasMirar, historia
<1>2. ASSUME NEW paso, tarea' = [tarea EXCEPT ![t].pc = paso] PROVE InvEmail'
  <2> DEFINE i == [tarea[t] EXCEPT !.pc = paso]
  <2>1. tarea' = [tarea EXCEPT ![t] = i]
    BY <1>2 DEF InvTipo, TypeOK
  <2>2. i.cuenta = tarea[t].cuenta /\ i.alta = tarea[t].alta /\ i.fila = tarea[t].fila
    BY <1>1 DEF Tarea
  <2> HIDE DEF i
  <2> QED
    BY <1>1, <2>1, <2>2, MoverEmail
<1>3. CASE InsertarPersona(t)
  BY <1>2, <1>3 DEF InsertarPersona
<1>4. CASE GuardarPersona(t) /\ tarea[t].conPersona
  <2>1. tarea' = [tarea EXCEPT ![t].pc = "cargar"]
    BY <1>4 DEF GuardarPersona, InvTipo, TypeOK
  <2> QED
    BY <1>2, <2>1
<1>5. CASE GuardarPersona(t) /\ ~tarea[t].conPersona
  <2>1. Terminar(t)
    BY <1>5 DEF GuardarPersona, Terminar, InvTipo, TypeOK
  <2> QED
    BY <1>1, <2>1, TerminarEmail
<1> QED
  BY <1>3, <1>4, <1>5

(* The request goes on with what it reads of the account c.                *)
LEMMA LeerEmail ==
  ASSUME InvTipo, InvEmail, NEW t \in Tareas, NEW c \in Cuentas, NEW i,
         tarea' = [tarea EXCEPT ![t] = i], i.cuenta = c, ~i.alta, i.fila.email = cuenta[c].email,
         cuenta' = cuenta, solapadas \subseteq solapadas', disputados' = disputados
  PROVE  InvEmail'
  BY NadaQueDar

LEMMA CambiarEmail ==
  ASSUME InvTipo, InvEmail, NEW t \in Tareas, CambiarClave(t)
  PROVE  InvEmail'
<1> DEFINE k == tarea[t].pone
           fila(c) == [cuenta[c] EXCEPT !.clave = k]
           lee(c) == Entidad(c, fila(c), "cargar")
           i(c) == [lee(c) EXCEPT !.pone = k]
<1>1. PICK c \in ConEmail(tarea[t].fila.email) :
        tarea' = [tarea EXCEPT ![t] = i(c)] /\ solapadas \subseteq solapadas'
  BY DEF CambiarClave
<1>2. k \in Claves
  BY EnCursoTipo DEF Bien, CambiarClave, En
<1>3. c \in Cuentas /\ cuenta[c] \in Fila
  BY VivaTipo DEF ConEmail
<1>4. fila(c) \in Fila /\ fila(c).email = cuenta[c].email
  BY <1>2, <1>3 DEF Fila
<1> HIDE DEF fila
<1>5. Leida(lee(c), c, fila(c), "cargar")
  BY <1>3, <1>4, EntidadTipo DEF ConEntidad
<1> HIDE DEF lee
<1>6. i(c).cuenta = c /\ i(c).fila = fila(c) /\ ~i(c).alta
  BY <1>5 DEF Leida, Tarea
<1> HIDE DEF i
<1>7. cuenta' = cuenta /\ disputados' = disputados
  BY DEF CambiarClave, tablas
<1> QED
  BY <1>1, <1>3, <1>4, <1>6, <1>7, LeerEmail

LEMMA SetVerificationEmail ==
  ASSUME InvTipo, InvEmail, NEW t \in Tareas, SetVerificationCode(t)
  PROVE  InvEmail'
<1> DEFINE c == tarea[t].cuenta
           e == tarea[t].fila
           f == ConCodigoVer(cuenta[c], e.ver, e.verVence)
           i == [tarea[t] EXCEPT !.pc = "cargar", !.fila = f]
<1>1. /\ tarea[t] \in Tarea /\ c \in Cuentas /\ ~tarea[t].alta /\ cuenta[c] \in Fila
  BY EnCursoTipo, VivaTipo DEF SetVerificationCode, En, Bien
<1>2. f.email = cuenta[c].email
  BY <1>1 DEF Fila, ConCodigoVer
<1>3. tarea' = [tarea EXCEPT ![t] = i] /\ UNCHANGED <<cuenta, solapadas, disputados>>
  BY <1>1 DEF SetVerificationCode, tablas, historia, InvTipo, TypeOK, Tarea
<1> HIDE DEF f
<1>4. i.cuenta = c /\ i.fila = f /\ ~i.alta
  BY <1>1 DEF Tarea
<1> HIDE DEF i
<1> QED
  BY <1>1, <1>2, <1>3, <1>4, LeerEmail

LEMMA TrasAltaEmail ==
  ASSUME InvTipo, InvEmail, NEW t \in Tareas, AccesoTrasAlta(t) \/ MarkEmailVerified(t)
  PROVE  InvEmail'
<1> DEFINE c == tarea[t].cuenta
<1>1. /\ c \in Cuentas /\ cuenta[c] \in Fila /\ UNCHANGED <<cuenta, solapadas, disputados>>
  BY EnCursoTipo, VivaTipo DEF AccesoTrasAlta, MarkEmailVerified, En, Bien, tablas, historia
<1>2. ASSUME NEW f \in Fila, NEW i, f.email = cuenta[c].email,
             i = Entidad(c, f, "cargar") \/ i = [Entidad(c, f, "cargar") EXCEPT !.luego = "verificar"],
             tarea' = [tarea EXCEPT ![t] = i]
      PROVE  InvEmail'
  <2>1. Leida(Entidad(c, f, "cargar"), c, f, "cargar")
    BY <1>1, EntidadTipo DEF ConEntidad
  <2>2. i.cuenta = c /\ i.fila = f /\ ~i.alta
    BY <1>2, <2>1 DEF Leida, Tarea
  <2> QED
    BY <1>1, <1>2, <2>2, LeerEmail
<1>3. Verificada(cuenta[c]) \in Fila /\ Verificada(cuenta[c]).email = cuenta[c].email
  BY <1>1 DEF Verificada, Fila
<1> QED
  BY <1>1, <1>2, <1>3 DEF AccesoTrasAlta, MarkEmailVerified

LEMMA GuardarEmail ==
  ASSUME InvTipo, InvPropia, InvEmail, NEW t \in Tareas, GuardarCuenta(t)
  PROVE  InvEmail'
<1> DEFINE c == tarea[t].cuenta
           e == tarea[t].fila
           f == Fusion(cuenta[c], e, tarea[t].cols)
           i == IF tarea[t].luego = "libre" THEN Libre
                ELSE [Libre EXCEPT !.pc = tarea[t].luego, !.cuenta = c]
<1>1. tarea[t] \in Tarea /\ Bien(tarea[t]) /\ FilaDe(tarea[t], cuenta) /\ tarea[t].pc = "guardar"
  BY EnCursoTipo DEF GuardarCuenta, En
<1>2. c \in Cuentas /\ cuenta[c] \in Fila /\ e \in Fila /\ ~tarea[t].alta
  BY <1>1 DEF Bien, FilaDe, ConEntidad
<1>3. f \in Fila
  BY <1>2, FusionTipo
<1>4. cuenta' = [cuenta EXCEPT ![c] = f] /\ tarea' = [tarea EXCEPT ![t] = i]
      /\ UNCHANGED <<solapadas, disputados>>
  BY <1>2 DEF GuardarCuenta, InvTipo, TypeOK
<1>5. i.fila = Nada
  BY DEF Libre
<1>6. ASSUME c \notin solapadas
      PROVE  \/ EnUso(cuenta[c]) /\ f.email = cuenta[c].email
             \/ tarea[t].pc \in TrasMirar /\ Da(tarea[t], cuenta, f.email)
  <2>1. EnMarcha(tarea[t], cuenta[c], persona[c], claveVigente[c], codigos, emision)
    BY <1>2, <1>6 DEF InvPropia, Propia, Trabajo
  <2>2. f = e
    BY <1>1, <1>2, <2>1, FusionEsEntidad DEF EnMarcha
  <2>3. EnUso(cuenta[c]) /\ e # Nada
    BY <1>2, <2>1, CuentaAssumption DEF EnMarcha, EnUso
  <2> HIDE DEF f
  <2> QED
    BY <1>1, <2>2, <2>3 DEF Da, TrasMirar
<1> HIDE DEF i, f
<1> QED
  BY <1>2, <1>3, <1>4, <1>5, <1>6, EscribirEmail

LEMMA InsertarEmail ==
  ASSUME InvTipo, InvPropia, InvEmail, NEW t \in Tareas, InsertarCuenta(t)
  PROVE  InvEmail'
<1> DEFINE c == tarea[t].cuenta
           f == tarea[t].fila
           i == [Libre EXCEPT !.pc = "acceso", !.cuenta = c]
<1>1. c \in Cuentas /\ f \in Fila /\ tarea[t].pc = "insertar" /\ tarea[t].alta
  BY EnCursoTipo DEF InsertarCuenta, En, Bien, ConEntidad
<1>2. /\ tarea' = [tarea EXCEPT ![t] = i] /\ cuenta' = [cuenta EXCEPT ![c] = f]
      /\ UNCHANGED <<solapadas, disputados>>
  BY DEF InsertarCuenta
<1>3. i.fila = Nada
  BY DEF Libre
<1>4. tarea[t].pc \in TrasMirar /\ Da(tarea[t], cuenta, f.email)
  BY <1>1, CuentaAssumption DEF Da, TrasMirar
<1> HIDE DEF i
<1> QED
  BY <1>1, <1>2, <1>3, <1>4, EscribirEmail

-----------------------------------------------------------------------------
LEMMA IniciarEmail ==
  ASSUME InvTipo, InvEmail, NEW t \in Tareas, Iniciar(t)
  PROVE  InvEmail'
  BY LoginEmail, RestablecerEmail, RegistrarEmail, CrearCodigoEmail, LogoutEmail, ResendEmail,
     EliminarEmail, PedirCambioEmail, VerifyEmail, ActualizarEmail DEF Iniciar

LEMMA AvanzarEmail ==
  ASSUME InvTipo, InvPropia, InvEmail, NEW t \in Tareas, Avanzar(t)
  PROVE  InvEmail'
<1>1. CASE CuentaPerdida(t) \/ EmailTomado(t)
  BY <1>1, TerminarEmail DEF CuentaPerdida, EmailTomado, tablas, historia
<1>2. CASE ~CuentaPerdida(t) /\ ~EmailTomado(t)
  BY <1>2, CargarEmail, GuardarEmail, CambiarEmail, SetVerificationEmail, EmailLibreEmail,
     FotosEmail, PersonaEmail, InsertarEmail, TrasAltaEmail DEF Avanzar
<1> QED
  BY <1>1, <1>2

LEMMA NextEmail == InvTipo /\ InvPropia /\ InvEmail /\ [Next]_vars => InvEmail'
<1> SUFFICES ASSUME InvTipo, InvPropia, InvEmail, [Next]_vars PROVE InvEmail'
  OBVIOUS
<1>1. ASSUME NEW t \in Tareas, Iniciar(t) \/ Avanzar(t) PROVE InvEmail'
  BY <1>1, IniciarEmail, AvanzarEmail
<1>2. ASSUME NEW t \in Tareas, Fallar(t) PROVE InvEmail'
  BY <1>2, TerminarEmail DEF Fallar, tablas, historia
<1>3. CASE Reiniciar
  <2>1. UNCHANGED <<cuenta, solapadas, disputados>> /\ \A t \in Tareas : tarea'[t].fila = Nada
    BY <1>3 DEF Reiniciar, tablas, historia, Libre
  <2>2. \A t \in Tareas, e \in Emails : ~Da(tarea'[t], cuenta, e)
    BY <2>1, SinFilaNoDa
  <2>3. CuentasBien'
    BY <2>1 DEF InvEmail, CuentasBien, EnUso
  <2>4. MiradasBien' /\ TomasBien'
    BY <2>1, <2>2 DEF MiradasBien, TomasBien, Da
  <2> QED
    BY <2>3, <2>4 DEF InvEmail
<1>4. CASE Tictac \/ UNCHANGED vars
  <2>1. UNCHANGED <<cuenta, tarea, solapadas, disputados>>
    BY <1>4 DEF Tictac, vars, tablas, historia
  <2> QED
    BY <2>1 DEF InvEmail, CuentasBien, MiradasBien, TomasBien, Limpia, Da, EnUso
<1> QED
  BY <1>1, <1>2, <1>3, <1>4 DEF Next

(* However many requests run at the same time, and through failures and    *)
(* restarts, two live accounts share an e-mail only if two sign-ups or     *)
(* updates that were giving it to an account overlapped: what              *)
(* validateUniqueEmail found free is otherwise still free when the row is  *)
(* written.                                                                *)
THEOREM EmailsUnicos == Spec => []EmailUnico
<1>1. InvEmail => EmailUnico
  BY DEF InvEmail, CuentasBien, EnUso, EmailUnico, Viva
<1>2. Init => InvTipo /\ InvPropia /\ InvEmail
  BY InitTipo, InitPropia, InitEmail
<1>3. InvTipo /\ InvPropia /\ InvEmail /\ [Next]_vars => (InvTipo /\ InvPropia /\ InvEmail)'
  BY NextTipo, NextPropia, NextEmail
<1> QED
  BY <1>1, <1>2, <1>3, PTL DEF Spec

-----------------------------------------------------------------------------
(***************************************************************************)
(* Fourth part: with one request at a time, what a save does to the        *)
(* credentials of its account is one step of module Credencial.  The       *)
(* entity in flight is the row plus one of four intents: nothing, a        *)
(* password, a fresh code, or a code that is redeemed.                     *)
(***************************************************************************)
UnaSola == \E unica : Tareas = {unica}

Conserva(i, fila) == i.cod = 0 /\ i.fila.rec = fila.rec

Redime(i, fila) == i.cod # 0 /\ i.cod = fila.rec /\ i.fila.rec = 0 /\ i.pone \in Claves

Estrena(i, filas, n, gastados) ==
  /\ i.cod = 0 /\ i.pone = Nada
  /\ i.fila.rec \in 1..n /\ i.fila.rec \notin gastados
  /\ \A d \in Cuentas : filas[d] # Nada => filas[d].rec # i.fila.rec

CodigoBien(i, filas, n, gastados) ==
  /\ i.pc = "codigo" => i.cod = 0
  /\ i.pc \in ParaGuardar /\ ~i.alta =>
       \/ Conserva(i, filas[i.cuenta])
       \/ Redime(i, filas[i.cuenta])
       \/ Estrena(i, filas, n, gastados)

InvSola ==
  /\ solapadas = {}
  /\ usados \subseteq 1..codigos
  /\ \A t \in Tareas :
       /\ En(t, "libre") => tarea[t] = Libre
       /\ CodigoBien(tarea[t], cuenta, codigos, usados)

-----------------------------------------------------------------------------
(* A request that carries no entity.                                       *)
LEMMA SinEntidadSola ==
  ASSUME NEW i, i.pc \notin ConEntidad, NEW filas, NEW n, NEW gastados
  PROVE  CodigoBien(i, filas, n, gastados)
  BY DEF CodigoBien, ConEntidad, ParaGuardar

LEMMA LibreSinEntidad == Libre.pc \notin ConEntidad /\ Libre.pc = "libre"
  BY DEF Libre, ConEntidad

LEMMA InitSola == Init => InvSola
<1> SUFFICES ASSUME Init PROVE InvSola
  OBVIOUS
<1>1. ASSUME NEW t \in Tareas
      PROVE  tarea[t] = Libre /\ CodigoBien(tarea[t], cuenta, codigos, usados)
  <2>1. tarea[t] = Libre
    BY DEF Init
  <2> QED
    BY <2>1, LibreSinEntidad, SinEntidadSola
<1>2. solapadas = {} /\ usados \subseteq 1..codigos
  BY DEF Init
<1> QED
  BY <1>1, <1>2 DEF InvSola

(* What is known of the request in flight.                                 *)
LEMMA SolaActual ==
  ASSUME InvTipo, InvPropia, InvSola, NEW t \in Tareas, NEW c, c = tarea[t].cuenta,
         ~En(t, "libre")
  PROVE  /\ tarea[t] \in Tarea /\ Bien(tarea[t]) /\ FilaDe(tarea[t], cuenta) /\ c \in Cuentas
         /\ FilaBien(cuenta[c], persona[c], claveVigente[c], codigos, emision)
         /\ Trabajo(tarea[t], cuenta[c], persona[c], claveVigente[c], codigos, emision)
         /\ CodigoBien(tarea[t], cuenta, codigos, usados)
<1>1. tarea[t] \in Tarea /\ Bien(tarea[t]) /\ FilaDe(tarea[t], cuenta) /\ c \in Cuentas
  BY EnCursoTipo DEF Bien, En
<1>2. Propia(c)
  BY <1>1 DEF InvPropia, InvSola
<1> QED
  BY <1>1, <1>2 DEF Propia, InvSola

(* A step of the only request.                                             *)
LEMMA PasoSola ==
  ASSUME UnaSola, InvTipo, NEW t \in Tareas, NEW i,
         tarea' = [tarea EXCEPT ![t] = i], i.pc = "libre" => i = Libre,
         solapadas' = {}, usados' \subseteq 1..codigos',
         CodigoBien(i, cuenta', codigos', usados')
  PROVE  InvSola'
<1>1. ASSUME NEW o \in Tareas PROVE tarea'[o] = i
  BY DEF UnaSola, InvTipo, TypeOK
<1> QED
  BY <1>1 DEF InvSola, En

-----------------------------------------------------------------------------
(* Requests that start.                                                    *)
LEMMA SinSolape ==
  ASSUME UnaSola, InvSola, NEW t \in Tareas, NEW c \in Cuentas, En(t, "libre"), Marcar(c)
  PROVE  solapadas' = {}
<1>1. \A o \in Tareas : tarea[o] = Libre
  BY DEF UnaSola, InvSola
<1>2. ~EnCurso(c)
  BY <1>1, CuentaAssumption DEF EnCurso, Libre
<1> QED
  BY <1>2 DEF Marcar, InvSola

LEMMA EmpezarSola ==
  ASSUME UnaSola, InvTipo, InvSola, NEW t \in Tareas, NEW c \in Cuentas,
         NEW i, Empezar(t, c, i), i.pc # "libre",
         CodigoBien(i, cuenta, codigos', usados),
         codigos' \in Nat, codigos <= codigos', UNCHANGED <<cuenta, usados>>
  PROVE  InvSola'
<1>1. En(t, "libre") /\ tarea' = [tarea EXCEPT ![t] = i] /\ Marcar(c)
  BY DEF Empezar
<1>2. solapadas' = {}
  BY <1>1, SinSolape
<1>3. CodigoBien(i, cuenta', codigos', usados')
  OBVIOUS
<1>4. usados' \subseteq 1..codigos'
  BY DEF InvSola, InvTipo, TypeOK
<1> QED
  BY <1>1, <1>2, <1>3, <1>4, PasoSola

(* The plain entity fila: the row, but perhaps for its codes.              *)
LEMMA EmpezarLeidaSola ==
  ASSUME UnaSola, InvTipo, InvPropia, InvSola, NEW t \in Tareas, NEW c \in Cuentas, Viva(c),
         NEW fila \in Fila, NEW paso \in {"cargar", "codigo"},
         Empezar(t, c, Entidad(c, fila, paso)),
         \/ fila.rec = cuenta[c].rec
         \/ fila.rec = codigos' /\ codigos' = codigos + 1,
         codigos' \in Nat, codigos <= codigos', UNCHANGED <<cuenta, usados>>
  PROVE  InvSola'
<1> DEFINE i == Entidad(c, fila, paso)
<1>1. i.pc = paso /\ i.cuenta = c /\ i.fila = fila /\ ~i.alta /\ i.pone = Nada /\ i.cod = 0
  BY EntidadTipo DEF Leida, ConEntidad
<1>2. Empezar(t, c, i)
  OBVIOUS
<1> HIDE DEF i
<1>3. CodigoBien(i, cuenta, codigos', usados)
  <2>1. CASE fila.rec = cuenta[c].rec
    BY <1>1, <2>1 DEF CodigoBien, Conserva
  <2>2. CASE fila.rec = codigos' /\ codigos' = codigos + 1
    <3>1. codigos \in Nat /\ usados \subseteq 1..codigos
      BY DEF InvTipo, TypeOK, InvSola
    <3>2. ASSUME NEW d \in Cuentas, cuenta[d] # Nada PROVE cuenta[d].rec # fila.rec
      <4>1. cuenta[d] \in Fila /\ VenceBien(cuenta[d], codigos, emision)
        BY <3>2 DEF InvTipo, TypeOK, InvPropia, InvSola, Propia, FilaBien
      <4> QED
        BY <2>2, <3>1, <4>1 DEF VenceBien, Fila
    <3>3. fila.rec \in 1..codigos' /\ fila.rec \notin usados
      BY <2>2, <3>1
    <3> QED
      BY <1>1, <3>2, <3>3 DEF CodigoBien, Estrena
  <2> QED
    BY <2>1, <2>2
<1> QED
  BY <1>1, <1>2, <1>3, EmpezarSola

LEMMA QuietoCodigos ==
  ASSUME InvTipo, codigos' = codigos
  PROVE  codigos' \in Nat /\ codigos <= codigos'
  BY DEF InvTipo, TypeOK

LEMMA LoginSola ==
  ASSUME UnaSola, InvTipo, InvPropia, InvSola, NEW t \in Tareas, NEW e \in Emails, NEW k \in Claves,
         Login(t, e, k)
  PROVE  InvSola'
<1>1. PICK c \in ConEmail(e) : Empezar(t, c, Entidad(c, cuenta[c], "cargar"))
  BY DEF Login
<1>2. c \in Cuentas /\ Viva(c) /\ cuenta[c] \in Fila
  BY VivaTipo DEF ConEmail
<1>3. codigos' = codigos /\ UNCHANGED <<cuenta, usados>>
  BY DEF Login, tablas
<1> QED
  BY <1>1, <1>2, <1>3, QuietoCodigos, EmpezarLeidaSola

LEMMA LogoutSola ==
  ASSUME UnaSola, InvTipo, InvPropia, InvSola, NEW t \in Tareas, NEW c \in Cuentas,
         UpdateUltimoAcceso(t, c)
  PROVE  InvSola'
<1>1. Viva(c) /\ cuenta[c] \in Fila /\ Empezar(t, c, Entidad(c, cuenta[c], "cargar"))
  BY VivaTipo DEF UpdateUltimoAcceso
<1>2. codigos' = codigos /\ UNCHANGED <<cuenta, usados>>
  BY DEF UpdateUltimoAcceso, tablas
<1> QED
  BY <1>1, <1>2, QuietoCodigos, EmpezarLeidaSola

LEMMA VerifySola ==
  ASSUME UnaSola, InvTipo, InvPropia, InvSola, NEW t \in Tareas, NEW c \in Cuentas, NEW n,
         VerifyCode(t, c, n)
  PROVE  InvSola'
<1> DEFINE fila == Verificada(cuenta[c])
<1>1. Viva(c) /\ cuenta[c] \in Fila /\ Empezar(t, c, Entidad(c, fila, "cargar"))
  BY VivaTipo DEF VerifyCode
<1>2. /\ fila \in Fila /\ fila.rec = cuenta[c].rec
  BY <1>1 DEF Fila, Verificada
<1>3. codigos' = codigos /\ UNCHANGED <<cuenta, usados>>
  BY DEF VerifyCode, tablas
<1> HIDE DEF fila
<1> QED
  BY <1>1, <1>2, <1>3, QuietoCodigos, EmpezarLeidaSola

LEMMA GenerarCodigos ==
  ASSUME InvTipo, Generar
  PROVE  /\ codigos' = codigos + 1 /\ codigos' \in Nat /\ codigos <= codigos'
         /\ reloj + VIGENCIA \in Nat
  BY CuentaAssumption DEF Generar, InvTipo, TypeOK

LEMMA CrearCodigoSola ==
  ASSUME UnaSola, InvTipo, InvPropia, InvSola, NEW t \in Tareas, NEW e \in Emails,
         CrearCodigoRecuperacion(t, e)
  PROVE  InvSola'
<1> DEFINE fila(c) == [cuenta[c] EXCEPT !.rec = codigos', !.recVence = reloj + VIGENCIA]
<1>1. PICK c \in ConEmail(e) : Empezar(t, c, Entidad(c, fila(c), "cargar"))
  BY DEF CrearCodigoRecuperacion
<1>2. c \in Cuentas /\ Viva(c) /\ cuenta[c] \in Fila
  BY VivaTipo DEF ConEmail
<1>3. /\ codigos' = codigos + 1 /\ codigos' \in Nat /\ codigos <= codigos'
      /\ reloj + VIGENCIA \in Nat
  BY GenerarCodigos DEF CrearCodigoRecuperacion
<1>4. fila(c) \in Fila /\ fila(c).rec = codigos'
  BY <1>2, <1>3 DEF Fila
<1>5. UNCHANGED <<cuenta, usados>>
  BY DEF CrearCodigoRecuperacion, tablas
<1> HIDE DEF fila
<1> QED
  BY <1>1, <1>2, <1>3, <1>4, <1>5, EmpezarLeidaSola

LEMMA ResendSola ==
  ASSUME UnaSola, InvTipo, InvPropia, InvSola, NEW t \in Tareas, NEW c \in Cuentas,
         ResendVerificationCode(t, c)
  PROVE  InvSola'
<1> DEFINE fila == ConCodigoVer(cuenta[c], codigos', reloj + VIGENCIA)
<1>1. Viva(c) /\ cuenta[c] \in Fila /\ Empezar(t, c, Entidad(c, fila, "codigo"))
  BY VivaTipo DEF ResendVerificationCode
<1>2. /\ codigos' = codigos + 1 /\ codigos' \in Nat /\ codigos <= codigos'
      /\ reloj + VIGENCIA \in Nat
  BY GenerarCodigos DEF ResendVerificationCode
<1>3. /\ fila \in Fila /\ fila.rec = cuenta[c].rec
  BY <1>1, <1>2 DEF Fila, ConCodigoVer
<1>4. UNCHANGED <<cuenta, usados>>
  BY DEF ResendVerificationCode, tablas
<1> HIDE DEF fila
<1> QED
  BY <1>1, <1>2, <1>3, <1>4, EmpezarLeidaSola

LEMMA PedirCambioSola ==
  ASSUME UnaSola, InvTipo, InvPropia, InvSola, NEW t \in Tareas, NEW c \in Cuentas, NEW k \in Claves,
         PedirCambioClave(t, c, k)
  PROVE  InvSola'
<1> DEFINE e == Entidad(c, cuenta[c], "porEmail")
           i == [e EXCEPT !.pone = k]
<1>1. Viva(c) /\ cuenta[c] \in Fila /\ Empezar(t, c, i)
  BY VivaTipo DEF PedirCambioClave
<1>2. Leida(e, c, cuenta[c], "porEmail") 
  BY <1>1, EntidadTipo DEF ConEntidad
<1> HIDE DEF e
<1>3. i.pc = "porEmail"
  BY <1>2 DEF Leida, Tarea
<1> HIDE DEF i
<1>4. CodigoBien(i, cuenta, codigos', usados)
  BY <1>3 DEF CodigoBien, ParaGuardar
<1>5. codigos' = codigos /\ UNCHANGED <<cuenta, usados>>
  BY DEF PedirCambioClave, tablas
<1> QED
  BY <1>1, <1>3, <1>4, <1>5, QuietoCodigos, EmpezarSola DEF ConEntidad

LEMMA RestablecerSola ==
  ASSUME UnaSola, InvTipo, InvPropia, InvSola, NEW t \in Tareas, NEW e \in Emails,
         NEW n \in 1..codigos, NEW k \in Claves, RestablecerConCodigo(t, e, n, k)
  PROVE  InvSola'
<1> DEFINE fila(c) == TrasRestablecer(cuenta[c], k)
           lee(c) == Entidad(c, fila(c), "cargar")
           i(c) == [lee(c) EXCEPT !.pone = k, !.cod = n]
<1>1. PICK c \in ConEmail(e) : Empezar(t, c, i(c)) /\ cuenta[c].rec = n
  BY DEF RestablecerConCodigo
<1>2. c \in Cuentas /\ Viva(c) /\ cuenta[c] \in Fila /\ n # 0
  BY VivaTipo DEF ConEmail, RestablecerConCodigo
<1>3. fila(c) \in Fila /\ fila(c).rec = 0
  BY <1>2 DEF Fila, TrasRestablecer
<1> HIDE DEF fila
<1>4. Leida(lee(c), c, fila(c), "cargar") 
  BY <1>2, <1>3, EntidadTipo DEF ConEntidad
<1> HIDE DEF lee
<1>5. /\ i(c).pc = "cargar" /\ i(c).cuenta = c /\ i(c).fila = fila(c) /\ ~i(c).alta
      /\ i(c).pone = k /\ i(c).cod = n
  BY <1>4 DEF Leida, Tarea
<1> HIDE DEF i
<1>6. CodigoBien(i(c), cuenta, codigos', usados)
  BY <1>1, <1>2, <1>3, <1>5 DEF CodigoBien, Redime
<1>7. codigos' = codigos /\ UNCHANGED <<cuenta, usados>>
  BY DEF RestablecerConCodigo, tablas
<1> QED
  BY <1>1, <1>2, <1>3, <1>5, <1>6, <1>7, QuietoCodigos, EmpezarSola DEF ConEntidad

LEMMA ActualizarSola ==
  ASSUME UnaSola, InvTipo, InvPropia, InvSola, NEW t \in Tareas, NEW c \in Cuentas, NEW e \in Emails,
         NEW k \in Claves \cup {Nada}, NEW activo \in BOOLEAN, NEW modo \in Modos, NEW url \in Urls,
         Actualizar(t, c, e, k, activo, modo, url)
  PROVE  InvSola'
<1> DEFINE fila == ConUrl(Actualizada(cuenta[c], e, k, activo), modo, url)
           paso == IF HayQueValidar(c, e) THEN "validar" ELSE PasoFoto(cuenta[c], modo)
           lee == Entidad(c, fila, paso)
           i == [lee EXCEPT !.pone = k, !.modo = modo]
<1>1. cuenta[c] \in Fila /\ Empezar(t, c, i)
  BY VivaTipo DEF Actualizar
<1>2. paso \in {"validar", "borrarFoto", "subirFoto", "persona"}
  BY DEF PasoFoto
<1>3. fila \in Fila /\ fila.rec = cuenta[c].rec
  <2>1. cuenta[c] \in Fila
    BY <1>1
  <2>2. Renovada(fila, cuenta[c], e, k)
    BY <2>1, ActualizadaTipo
  <2>3. QED
    BY <2>2 DEF Renovada
<1> HIDE DEF fila, paso
<1>4. Leida(lee, c, fila, paso)
  BY <1>2, <1>3, EntidadTipo DEF ConEntidad
<1> HIDE DEF lee
<1>5. i.pc = paso /\ i.cuenta = c /\ i.fila = fila /\ ~i.alta /\ i.cod = 0
  BY <1>4 DEF Leida, Tarea
<1> HIDE DEF i
<1>6. CodigoBien(i, cuenta, codigos', usados)
  BY <1>2, <1>3, <1>5 DEF CodigoBien, Conserva
<1>7. codigos' = codigos /\ UNCHANGED <<cuenta, usados>>
  BY DEF Actualizar, tablas
<1>8. i.pc # "libre"
  BY <1>2, <1>5
<1> QED
  BY <1>1, <1>6, <1>7, <1>8, QuietoCodigos, EmpezarSola

LEMMA RegistrarSola ==
  ASSUME UnaSola, InvTipo, InvPropia, InvSola, NEW t \in Tareas, NEW c \in Cuentas, NEW e \in Emails,
         NEW k \in Claves, NEW modo \in Modos, Registrar(t, c, e, k, modo)
  PROVE  InvSola'
<1> DEFINE fila == FilaNueva(e, k)
           paso == IF modo = "archivo" THEN "subirFoto" ELSE "persona"
           lee == Entidad(c, fila, paso)
           i == [lee EXCEPT !.alta = TRUE, !.pone = k]
<1>1. Empezar(t, c, i) /\ codigos' = codigos /\ UNCHANGED <<cuenta, usados>>
  BY DEF Registrar, tablas
<1>2. Leida(lee, c, fila, paso)
  BY FilaNuevaTipo, EntidadTipo DEF ConEntidad
<1>3. i.pc \in {"subirFoto", "persona"} /\ i.alta
  <2> HIDE DEF lee, fila
  <2> QED
    BY <1>2 DEF Leida, Tarea
<1> HIDE DEF i
<1>4. CodigoBien(i, cuenta, codigos', usados)
  BY <1>3 DEF CodigoBien
<1> QED
  BY <1>1, <1>3, <1>4, QuietoCodigos, EmpezarSola

LEMMA EliminarSola ==
  ASSUME UnaSola, InvTipo, InvPropia, InvSola, NEW t \in Tareas, NEW c \in Cuentas, Eliminar(t, c)
  PROVE  InvSola'
<1>1. En(t, "libre") /\ Marcar(c) /\ UNCHANGED <<tarea, codigos, usados>>
  BY DEF Eliminar
<1>2. solapadas' = {} /\ usados' \subseteq 1..codigos' /\ tarea[t] = Libre
  BY <1>1, SinSolape DEF InvSola
<1>3. tarea' = [tarea EXCEPT ![t] = Libre]
  BY <1>1, <1>2 DEF InvTipo, TypeOK
<1>4. CodigoBien(Libre, cuenta', codigos', usados')
  BY LibreSinEntidad, SinEntidadSola
<1> QED
  BY <1>2, <1>3, <1>4, PasoSola

-----------------------------------------------------------------------------
(* Requests in flight.                                                     *)
LEMMA TerminarSola ==
  ASSUME UnaSola, InvTipo, InvSola, NEW t \in Tareas, Terminar(t),
         UNCHANGED <<codigos, usados, solapadas>>
  PROVE  InvSola'
<1>1. tarea' = [tarea EXCEPT ![t] = Libre]
  BY DEF Terminar
<1>2. CodigoBien(Libre, cuenta', codigos', usados')
  BY LibreSinEntidad, SinEntidadSola
<1>3. solapadas' = {} /\ usados' \subseteq 1..codigos'
  BY DEF InvSola
<1> QED
  BY <1>1, <1>2, <1>3, PasoSola

(* The request j goes on as i with what it means to save.                  *)
MismoIntento(i, j) ==
  /\ j.pc \in {"validar", "borrarFoto", "subirFoto", "persona", "cargar"}
  /\ i.pc \in {"borrarFoto", "subirFoto", "persona", "cargar", "guardar"} \/ (i.pc = "insertar" /\ i.alta)
  /\ i.cuenta = j.cuenta /\ (i.alta <=> j.alta) /\ i.cod = j.cod /\ i.pone = j.pone
  /\ i.fila.rec = j.fila.rec

LEMMA SeguirSola ==
  ASSUME UnaSola, InvTipo, InvSola, NEW t \in Tareas, NEW i,
         tarea' = [tarea EXCEPT ![t] = i], MismoIntento(i, tarea[t]),
         UNCHANGED <<cuenta, codigos, usados, solapadas>>
  PROVE  InvSola'
<1>1. CodigoBien(tarea[t], cuenta, codigos, usados)
  BY DEF InvSola
<1>2. CodigoBien(i, cuenta, codigos, usados)
  BY <1>1 DEF CodigoBien, Conserva, Redime, Estrena, ParaGuardar, MismoIntento
<1>3. solapadas' = {} /\ usados' \subseteq 1..codigos' /\ i.pc # "libre"
  BY DEF InvSola, MismoIntento
<1> QED
  BY <1>2, <1>3, PasoSola

LEMMA CargarSola ==
  ASSUME UnaSola, InvTipo, InvPropia, InvSola, NEW t \in Tareas, CargarCuenta(t)
  PROVE  InvSola'
<1> DEFINE cols == ColumnasDistintas(tarea[t], cuenta[tarea[t].cuenta])
           i == [tarea[t] EXCEPT !.pc = "guardar", !.cols = cols]
<1>1. tarea[t] \in Tarea /\ tarea[t].pc \in {"cargar", "persona"}
  BY EnCursoTipo DEF CargarCuenta, En
<1>2. tarea' = [tarea EXCEPT ![t] = i]
      /\ UNCHANGED <<cuenta, codigos, usados, solapadas>>
  BY DEF CargarCuenta, tablas, historia, InvTipo, TypeOK
<1> HIDE DEF cols
<1>3. MismoIntento(i, tarea[t])
  BY <1>1 DEF Tarea, MismoIntento
<1> HIDE DEF i
<1> QED
  BY <1>2, <1>3, SeguirSola

LEMMA EmailLibreSola ==
  ASSUME UnaSola, InvTipo, InvPropia, InvSola, NEW t \in Tareas, EmailLibre(t)
  PROVE  InvSola'
<1> DEFINE paso == PasoFoto(tarea[t].fila, tarea[t].modo)
           i == [tarea[t] EXCEPT !.pc = paso]
<1>1. tarea[t] \in Tarea /\ tarea[t].pc = "validar"
  BY EnCursoTipo DEF EmailLibre, En
<1>2. tarea' = [tarea EXCEPT ![t] = i]
      /\ UNCHANGED <<cuenta, codigos, usados, solapadas>>
  BY DEF EmailLibre, tablas, historia, InvTipo, TypeOK
<1>3. paso \in {"borrarFoto", "subirFoto", "persona"}
  BY DEF PasoFoto
<1> HIDE DEF paso
<1>4. MismoIntento(i, tarea[t])
  BY <1>1, <1>3 DEF Tarea, MismoIntento
<1> HIDE DEF i
<1> QED
  BY <1>2, <1>4, SeguirSola

LEMMA PersonaSola ==
  ASSUME UnaSola, InvTipo, InvPropia, InvSola, NEW t \in Tareas,
         GuardarPersona(t) \/ InsertarPersona(t)
  PROVE  InvSola'
<1>1. /\ tarea[t] \in Tarea /\ tarea[t].pc = "persona"
      /\ UNCHANGED <<cuenta, codigos, usados, solapadas>>
  BY EnCursoTipo DEF GuardarPersona, InsertarPersona, En, historia
<1>2. CASE GuardarPersona(t) /\ ~tarea[t].conPersona
  <2>1. Terminar(t)
    BY <1>2 DEF GuardarPersona, Terminar, InvTipo, TypeOK
  <2> QED
    BY <1>1, <2>1, TerminarSola
<1>3. ASSUME NEW paso \in {"cargar", "insertar"}, tarea' = [tarea EXCEPT ![t].pc = paso],
             paso = "insertar" => tarea[t].alta
      PROVE  InvSola'
  <2> DEFINE i == [tarea[t] EXCEPT !.pc = paso]
  <2>1. tarea' = [tarea EXCEPT ![t] = i]
    BY <1>3 DEF InvTipo, TypeOK
  <2>2. MismoIntento(i, tarea[t])
    BY <1>1, <1>3 DEF Tarea, MismoIntento
  <2> HIDE DEF i
  <2> QED
    BY <1>1, <2>1, <2>2, SeguirSola
<1>4. CASE InsertarPersona(t)
  BY <1>3, <1>4 DEF InsertarPersona
<1>5. CASE GuardarPersona(t) /\ tarea[t].conPersona
  <2>1. tarea' = [tarea EXCEPT ![t].pc = "cargar"]
    BY <1>5 DEF GuardarPersona, InvTipo, TypeOK
  <2> QED
    BY <1>3, <2>1
<1> QED
  BY <1>2, <1>4, <1>5

LEMMA FotosSola ==
  ASSUME UnaSola, InvTipo, InvSola, NEW t \in Tareas,
         SubirFoto(t) \/ BorrarFoto(t) \/ BorradoFallido(t)
  PROVE  InvSola'
<1>1. PICK n, paso : /\ paso \in {"subirFoto", "persona"}
                     /\ tarea' = [tarea EXCEPT ![t].pc = paso, ![t].fila.foto = n]
  BY DEF SubirFoto, BorrarFoto, BorradoFallido, SinFoto
<1>2. /\ tarea[t] \in Tarea /\ tarea[t].fila \in Fila /\ tarea[t].pc \in {"borrarFoto", "subirFoto"}
      /\ UNCHANGED <<cuenta, codigos, usados, solapadas>>
  BY EnCursoTipo DEF SubirFoto, BorrarFoto, BorradoFallido, En, Bien, ConEntidad, tablas, historia
<1> DEFINE f == [tarea[t].fila EXCEPT !.foto = n]
           i == [tarea[t] EXCEPT !.pc = paso, !.fila = f]
<1>3. f.rec = tarea[t].fila.rec
  BY <1>2 DEF Fila
<1>4. tarea' = [tarea EXCEPT ![t] = i]
  BY <1>1, <1>2 DEF InvTipo, TypeOK, Tarea
<1> HIDE DEF f
<1>5. MismoIntento(i, tarea[t])
  <2>1. /\ i.pc = paso /\ i.fila = f /\ i.cuenta = tarea[t].cuenta /\ i.alta = tarea[t].alta
        /\ i.cod = tarea[t].cod /\ i.pone = tarea[t].pone
    BY <1>2 DEF Tarea
  <2>2. QED
    BY <1>1, <1>2, <1>3, <2>1 DEF MismoIntento
<1> HIDE DEF i
<1> QED
  BY <1>2, <1>4, <1>5, SeguirSola

LEMMA PerdidaSola ==
  ASSUME UnaSola, InvTipo, InvSola, NEW t \in Tareas, CuentaPerdida(t) \/ EmailTomado(t)
  PROVE  InvSola'
<1>1. Terminar(t) /\ UNCHANGED <<codigos, usados, solapadas>>
  BY DEF CuentaPerdida, EmailTomado, historia
<1> QED
  BY <1>1, TerminarSola

(* It goes on with what it reads of the account c.                         *)
LEMMA LeerSola ==
  ASSUME UnaSola, InvTipo, InvSola, NEW t \in Tareas, NEW c \in Cuentas,
         NEW i, tarea' = [tarea EXCEPT ![t] = i], i.pc = "cargar", i.cuenta = c, i.cod = 0,
         i.fila.rec = cuenta[c].rec, UNCHANGED <<cuenta, codigos, usados, solapadas>>
  PROVE  InvSola'
<1>1. CodigoBien(i, cuenta, codigos, usados)
  BY DEF CodigoBien, Conserva
<1>2. solapadas' = {} /\ usados' \subseteq 1..codigos'
  BY DEF InvSola
<1> QED
  BY <1>1, <1>2, PasoSola

LEMMA CambiarSola ==
  ASSUME UnaSola, InvTipo, InvPropia, InvSola, NEW t \in Tareas, CambiarClave(t)
  PROVE  InvSola'
<1> DEFINE k == tarea[t].pone
           fila(c) == [cuenta[c] EXCEPT !.clave = k]
           lee(c) == Entidad(c, fila(c), "cargar")
           i(c) == [lee(c) EXCEPT !.pone = k]
<1>1. PICK c \in ConEmail(tarea[t].fila.email) :
        /\ tarea' = [tarea EXCEPT ![t] = i(c)]
        /\ solapadas' = IF c # tarea[t].cuenta /\ EnCurso(c)
                        THEN solapadas \cup {c} ELSE solapadas
  BY DEF CambiarClave
<1>2. k \in Claves
  BY EnCursoTipo DEF Bien, CambiarClave, En
<1>3. c \in Cuentas /\ Viva(c) /\ cuenta[c] \in Fila
  BY VivaTipo DEF ConEmail
<1>4. fila(c) \in Fila /\ fila(c).rec = cuenta[c].rec
  BY <1>2, <1>3 DEF Fila
<1> HIDE DEF fila
<1>5. Leida(lee(c), c, fila(c), "cargar") 
  BY <1>3, <1>4, EntidadTipo DEF ConEntidad
<1> HIDE DEF lee
<1>6. i(c).pc = "cargar" /\ i(c).cuenta = c /\ i(c).fila = fila(c) /\ i(c).cod = 0
  BY <1>5 DEF Leida, Tarea
<1> HIDE DEF i
<1>8. UNCHANGED <<cuenta, codigos, usados, solapadas>>
  <2>1. ~(c # tarea[t].cuenta /\ EnCurso(c))
    BY DEF UnaSola, EnCurso
  <2> QED
    BY <1>1, <2>1 DEF CambiarClave, tablas
<1> QED
  BY <1>1, <1>3, <1>4, <1>6, <1>8, LeerSola

LEMMA SetVerificationSola ==
  ASSUME UnaSola, InvTipo, InvPropia, InvSola, NEW t \in Tareas, SetVerificationCode(t)
  PROVE  InvSola'
<1> DEFINE c == tarea[t].cuenta
           e == tarea[t].fila
           f == ConCodigoVer(cuenta[c], e.ver, e.verVence)
           i == [tarea[t] EXCEPT !.pc = "cargar", !.fila = f]
<1>1. /\ tarea[t] \in Tarea /\ tarea[t].pc = "codigo" /\ c \in Cuentas /\ ~tarea[t].alta /\ Viva(c)
  BY EnCursoTipo DEF SetVerificationCode, En, Bien, ConEntidad
<1>2. tarea[t].cod = 0
  BY <1>1 DEF InvSola, CodigoBien
<1>3. f.rec = cuenta[c].rec
  BY <1>1, VivaTipo DEF Fila, ConCodigoVer
<1>4. tarea' = [tarea EXCEPT ![t] = i]
      /\ UNCHANGED <<cuenta, codigos, usados, solapadas>>
  BY <1>1 DEF SetVerificationCode, tablas, historia, InvTipo, TypeOK, Tarea
<1> HIDE DEF f
<1>5. i.pc = "cargar" /\ i.cuenta = c /\ i.fila = f /\ i.cod = 0
  BY <1>1, <1>2 DEF Tarea
<1> HIDE DEF i
<1> QED
  BY <1>1, <1>3, <1>4, <1>5, LeerSola

LEMMA TrasAltaSola ==
  ASSUME UnaSola, InvTipo, InvPropia, InvSola, NEW t \in Tareas,
         AccesoTrasAlta(t) \/ MarkEmailVerified(t)
  PROVE  InvSola'
<1> DEFINE c == tarea[t].cuenta
<1>1. /\ c \in Cuentas /\ cuenta[c] \in Fila /\ UNCHANGED <<cuenta, codigos, usados, solapadas>>
  BY EnCursoTipo, VivaTipo DEF AccesoTrasAlta, MarkEmailVerified, En, Bien, tablas, historia
<1>3. ASSUME NEW f \in Fila, NEW i,
             i = Entidad(c, f, "cargar") \/ i = [Entidad(c, f, "cargar") EXCEPT !.luego = "verificar"],
             tarea' = [tarea EXCEPT ![t] = i], f.rec = cuenta[c].rec
      PROVE  InvSola'
  <2>1. Leida(Entidad(c, f, "cargar"), c, f, "cargar")
    BY <1>1, EntidadTipo DEF ConEntidad
  <2>2. i.pc = "cargar" /\ i.cuenta = c /\ i.fila = f /\ i.cod = 0
    BY <1>3, <2>1 DEF Leida, Tarea
  <2> QED
    BY <1>1, <1>3, <2>2, LeerSola
<1>4. CASE AccesoTrasAlta(t)
  BY <1>1, <1>3, <1>4 DEF AccesoTrasAlta
<1>5. CASE MarkEmailVerified(t)
  <2> DEFINE f == Verificada(cuenta[c])
  <2>1. f \in Fila /\ f.rec = cuenta[c].rec
    BY <1>1 DEF Verificada, Fila
  <2>2. tarea' = [tarea EXCEPT ![t] = Entidad(c, f, "cargar")]
    BY <1>5 DEF MarkEmailVerified
  <2> QED
    BY <1>3, <2>1, <2>2
<1> QED
  BY <1>4, <1>5

-----------------------------------------------------------------------------
(* The two writes of a row.                                                *)

(* What the save of the only request writes.                               *)
LEMMA GuardaLaEntidad ==
  ASSUME InvTipo, InvPropia, InvSola, NEW t \in Tareas, GuardarCuenta(t),
         NEW c, c = tarea[t].cuenta, NEW f, f = tarea[t].fila
  PROVE  /\ c \in Cuentas /\ tarea[t] \in Tarea /\ tarea[t].pc = "guardar" /\ ~tarea[t].alta
         /\ f \in Fila /\ ~f.borrado /\ cuenta[c] \in Fila /\ EnUso(cuenta[c])
         /\ cuenta' = [cuenta EXCEPT ![c] = f]
         /\ usados' = usados \cup ({tarea[t].cod} \ {0})
         /\ f.clave = IF tarea[t].pone = Nada THEN cuenta[c].clave ELSE tarea[t].pone
         /\ cuenta[c].rec # 0 => cuenta[c].rec <= codigos
         /\ \/ Conserva(tarea[t], cuenta[c])
            \/ Redime(tarea[t], cuenta[c])
            \/ Estrena(tarea[t], cuenta, codigos, usados)
<1>1. tarea[t].pc = "guardar" /\ ~En(t, "libre")
  BY DEF GuardarCuenta, En
<1>2. /\ c \in Cuentas /\ tarea[t] \in Tarea /\ Bien(tarea[t]) /\ FilaDe(tarea[t], cuenta)
      /\ FilaBien(cuenta[c], persona[c], claveVigente[c], codigos, emision)
      /\ Trabajo(tarea[t], cuenta[c], persona[c], claveVigente[c], codigos, emision)
      /\ CodigoBien(tarea[t], cuenta, codigos, usados)
  BY <1>1, SolaActual
<1>3. ~tarea[t].alta /\ f \in Fila /\ cuenta[c] \in Fila /\ cuenta[c] # Nada
  BY <1>1, <1>2, CuentaAssumption DEF Bien, FilaDe, ConEntidad
<1>4. EnMarcha(tarea[t], cuenta[c], persona[c], claveVigente[c], codigos, emision)
  BY <1>2, <1>3 DEF Trabajo
<1>5. Fusion(cuenta[c], f, tarea[t].cols) = f
  BY <1>1, <1>3, <1>4, FusionEsEntidad DEF EnMarcha
<1>6. cuenta' = [cuenta EXCEPT ![c] = f] /\ usados' = usados \cup ({tarea[t].cod} \ {0})
  BY <1>2, <1>5 DEF GuardarCuenta, InvTipo, TypeOK
<1>7. /\ ~f.borrado /\ ~cuenta[c].borrado
      /\ f.clave = IF tarea[t].pone = Nada THEN cuenta[c].clave ELSE tarea[t].pone
  BY <1>1, <1>2, <1>3, <1>4 DEF EnMarcha, FilaBien, ConEntidad, ParaGuardar
<1>8. cuenta[c].rec # 0 => cuenta[c].rec <= codigos
  BY <1>2, <1>3 DEF FilaBien, VenceBien
<1>9. \/ Conserva(tarea[t], cuenta[c])
      \/ Redime(tarea[t], cuenta[c])
      \/ Estrena(tarea[t], cuenta, codigos, usados)
  BY <1>1, <1>2, <1>3 DEF CodigoBien, ParaGuardar
<1> QED
  BY <1>1, <1>2, <1>3, <1>6, <1>7, <1>8, <1>9 DEF EnUso

LEMMA GuardarSola ==
  ASSUME UnaSola, InvTipo, InvPropia, InvSola, NEW t \in Tareas, GuardarCuenta(t)
  PROVE  InvSola'
<1> DEFINE c == tarea[t].cuenta
           f == tarea[t].fila
           i == IF tarea[t].luego = "libre" THEN Libre
                ELSE [Libre EXCEPT !.pc = tarea[t].luego, !.cuenta = c]
<1>1. /\ c \in Cuentas /\ tarea[t] \in Tarea /\ tarea[t].pc = "guardar" /\ f \in Fila
      /\ EnUso(cuenta[c]) /\ cuenta' = [cuenta EXCEPT ![c] = f]
      /\ usados' = usados \cup ({tarea[t].cod} \ {0})
      /\ cuenta[c] \in Fila /\ (cuenta[c].rec # 0 => cuenta[c].rec <= codigos)
      /\ tarea[t].cod = 0 \/ tarea[t].cod = cuenta[c].rec
  BY GuardaLaEntidad DEF Conserva, Redime, Estrena
<1>2. usados' \subseteq 1..codigos'
  <2>1. codigos' = codigos /\ codigos \in Nat /\ usados \subseteq 1..codigos /\ cuenta[c].rec \in Nat
    BY <1>1 DEF GuardarCuenta, InvTipo, TypeOK, InvSola, Fila
  <2>2. tarea[t].cod = 0 \/ tarea[t].cod \in 1..codigos
    BY <1>1, <2>1
  <2>3. usados' \subseteq usados \cup (1..codigos)
    BY <1>1, <2>2
  <2> QED
    BY <2>1, <2>3
<1>3. tarea' = [tarea EXCEPT ![t] = i] /\ solapadas' = {}
  BY DEF GuardarCuenta, InvSola
<1>4. i.pc \notin ConEntidad /\ (i.pc = "libre" => i = Libre)
  BY <1>1 DEF Tarea, Libre, ConEntidad
<1> HIDE DEF i
<1>5. CodigoBien(i, cuenta', codigos', usados')
  BY <1>4, SinEntidadSola
<1> QED
  BY <1>2, <1>3, <1>4, <1>5, PasoSola

LEMMA InsertarSola ==
  ASSUME UnaSola, InvTipo, InvSola, NEW t \in Tareas, InsertarCuenta(t)
  PROVE  InvSola'
<1> DEFINE i == [Libre EXCEPT !.pc = "acceso", !.cuenta = tarea[t].cuenta]
<1>1. tarea' = [tarea EXCEPT ![t] = i] /\ UNCHANGED <<codigos, usados, solapadas>>
  BY DEF InsertarCuenta
<1>2. i.pc \notin ConEntidad /\ i.pc # "libre"
  BY DEF Libre, ConEntidad
<1> HIDE DEF i
<1>3. CodigoBien(i, cuenta', codigos', usados')
  BY <1>2, SinEntidadSola
<1>4. solapadas' = {} /\ usados' \subseteq 1..codigos'
  BY <1>1 DEF InvSola
<1> QED
  BY <1>1, <1>2, <1>3, <1>4, PasoSola

-----------------------------------------------------------------------------
LEMMA IniciarSola ==
  ASSUME UnaSola, InvTipo, InvPropia, InvSola, NEW t \in Tareas, Iniciar(t)
  PROVE  InvSola'
  BY LoginSola, RestablecerSola, RegistrarSola, CrearCodigoSola, LogoutSola, ResendSola,
     EliminarSola, PedirCambioSola, VerifySola, ActualizarSola DEF Iniciar

LEMMA AvanzarSola ==
  ASSUME UnaSola, InvTipo, InvPropia, InvSola, NEW t \in Tareas, Avanzar(t)
  PROVE  InvSola'
  BY CargarSola, GuardarSola, CambiarSola, PerdidaSola, SetVerificationSola, EmailLibreSola,
     FotosSola, PersonaSola, InsertarSola, TrasAltaSola DEF Avanzar

LEMMA NextSola == UnaSola /\ InvTipo /\ InvPropia /\ InvSola /\ [Next]_vars => InvSola'
<1> SUFFICES ASSUME UnaSola, InvTipo, InvPropia, InvSola, [Next]_vars PROVE InvSola'
  OBVIOUS
<1>1. ASSUME NEW t \in Tareas, Iniciar(t) \/ Avanzar(t) PROVE InvSola'
  BY <1>1, IniciarSola, AvanzarSola
<1>2. ASSUME NEW t \in Tareas, Terminar(t), fallas' = fallas + 1,
             UNCHANGED <<reloj, tablas, subidas, codigos, historia>>
      PROVE  InvSola'
  <2>1. UNCHANGED <<codigos, usados, solapadas>>
    BY <1>2 DEF historia
  <2> QED
    BY <1>2, <2>1, TerminarSola
<1>3. ASSUME NEW t \in Tareas, Fallar(t) PROVE InvSola'
  BY <1>2, <1>3 DEF Fallar
<1>4. CASE Reiniciar
  <2>1. PICK t \in Tareas : Tareas = {t}
    BY DEF UnaSola
  <2>2. Terminar(t)
    BY <1>4, <2>1 DEF Reiniciar, Terminar, InvTipo, TypeOK
  <2> QED
    BY <1>2, <1>4, <2>2 DEF Reiniciar
<1>5. CASE Tictac \/ UNCHANGED vars
  <2>1. UNCHANGED <<tablas, codigos, tarea, usados, solapadas>>
    BY <1>5 DEF Tictac, vars, tablas, historia
  <2> QED
    BY <2>1 DEF tablas, InvSola, En
<1> QED
  BY <1>1, <1>3, <1>4, <1>5 DEF Next

-----------------------------------------------------------------------------
(* Refinement.  What module Credencial sees of the rows.                   *)
EstadoDe(fila) == IF fila = Nada THEN "libre" ELSE IF fila.borrado THEN "eliminada" ELSE "viva"

ClaveDe(fila) == IF fila = Nada THEN Nada ELSE fila.clave

CodigoDe(fila) == IF fila = Nada THEN 0 ELSE fila.rec

Estado == [c \in Cuentas |-> EstadoDe(cuenta[c])]
Clave == [c \in Cuentas |-> ClaveDe(cuenta[c])]
Codigo == [c \in Cuentas |-> CodigoDe(cuenta[c])]

(* The steps of Credencial, with these names for its variables.            *)
LEMMA PasosDePromesa ==
  ASSUME NEW c \in Cuentas
  PROVE  /\ Promesa!vars = <<Estado, Clave, Codigo, usados>>
         /\ \A k : Promesa!Registrar(c, k) <=>
              /\ Estado[c] = "libre"
              /\ Estado' = [Estado EXCEPT ![c] = "viva"] /\ Clave' = [Clave EXCEPT ![c] = k]
              /\ Codigo' = Codigo /\ usados' = usados
         /\ \A k : Promesa!Cambiar(c, k) <=>
              /\ Estado[c] = "viva"
              /\ Clave' = [Clave EXCEPT ![c] = k]
              /\ Estado' = Estado /\ Codigo' = Codigo /\ usados' = usados
         /\ \A n : Promesa!Enviar(c, n) <=>
              /\ Estado[c] = "viva"
              /\ n \notin usados /\ \A d \in Cuentas : Codigo[d] # n
              /\ Codigo' = [Codigo EXCEPT ![c] = n]
              /\ Estado' = Estado /\ Clave' = Clave /\ usados' = usados
         /\ \A k : Promesa!Canjear(c, k) <=>
              /\ Estado[c] = "viva" /\ Codigo[c] # 0
              /\ Clave' = [Clave EXCEPT ![c] = k]
              /\ usados' = usados \cup {Codigo[c]}
              /\ Codigo' = [Codigo EXCEPT ![c] = 0]
              /\ Estado' = Estado
         /\ Promesa!Eliminar(c) <=>
              /\ Estado[c] = "viva"
              /\ Estado' = [Estado EXCEPT ![c] = "eliminada"]
              /\ Clave' = Clave /\ Codigo' = Codigo /\ usados' = usados
<1>1. Promesa!vars = <<Estado, Clave, Codigo, usados>>
  BY DEF Promesa!vars, Estado, Clave, Codigo, EstadoDe, ClaveDe, CodigoDe
<1>2. \A k : Promesa!Registrar(c, k) <=>
        /\ Estado[c] = "libre"
        /\ Estado' = [Estado EXCEPT ![c] = "viva"] /\ Clave' = [Clave EXCEPT ![c] = k]
        /\ Codigo' = Codigo /\ usados' = usados
  BY DEF Promesa!Registrar, Estado, Clave, Codigo, EstadoDe, ClaveDe, CodigoDe
<1>3. \A k : Promesa!Cambiar(c, k) <=>
        /\ Estado[c] = "viva"
        /\ Clave' = [Clave EXCEPT ![c] = k]
        /\ Estado' = Estado /\ Codigo' = Codigo /\ usados' = usados
  BY DEF Promesa!Cambiar, Estado, Clave, Codigo, EstadoDe, ClaveDe, CodigoDe
<1>4. \A n : Promesa!Enviar(c, n) <=>
        /\ Estado[c] = "viva"
        /\ n \notin usados /\ \A d \in Cuentas : Codigo[d] # n
        /\ Codigo' = [Codigo EXCEPT ![c] = n]
        /\ Estado' = Estado /\ Clave' = Clave /\ usados' = usados
  BY DEF Promesa!Enviar, Estado, Clave, Codigo, EstadoDe, ClaveDe, CodigoDe
<1>5. \A k : Promesa!Canjear(c, k) <=>
        /\ Estado[c] = "viva" /\ Codigo[c] # 0
        /\ Clave' = [Clave EXCEPT ![c] = k]
        /\ usados' = usados \cup {Codigo[c]}
        /\ Codigo' = [Codigo EXCEPT ![c] = 0]
        /\ Estado' = Estado
  BY DEF Promesa!Canjear, Estado, Clave, Codigo, EstadoDe, ClaveDe, CodigoDe
<1>6. Promesa!Eliminar(c) <=>
        /\ Estado[c] = "viva"
        /\ Estado' = [Estado EXCEPT ![c] = "eliminada"]
        /\ Clave' = Clave /\ Codigo' = Codigo /\ usados' = usados
  BY DEF Promesa!Eliminar, Estado, Clave, Codigo, EstadoDe, ClaveDe, CodigoDe
<1> QED
  BY <1>1, <1>2, <1>3, <1>4, <1>5, <1>6

(* Functions that differ at one point at most.                             *)
LEMMA PorPuntos ==
  ASSUME NEW S, NEW c \in S, NEW v, NEW g, NEW h,
         g = [d \in S |-> g[d]], h = [d \in S |-> h[d]],
         \A d \in S : h[d] = IF d = c THEN v ELSE g[d]
  PROVE  h = [g EXCEPT ![c] = v] /\ (v = g[c] => h = g)
<1>1. h = [d \in S |-> IF d = c THEN v ELSE g[d]]
  OBVIOUS
<1>2. h = [g EXCEPT ![c] = v]
  BY <1>1
<1>3. ASSUME v = g[c] PROVE h = g
  <2>1. \A d \in S : h[d] = g[d]
    BY <1>3
  <2> QED
    BY <2>1
<1> QED
  BY <1>2, <1>3

(* A write of one row, seen from there.                                    *)
LEMMA FilaEscrita ==
  ASSUME InvTipo, NEW c \in Cuentas, NEW f, cuenta' = [cuenta EXCEPT ![c] = f]
  PROVE  /\ Estado' = [Estado EXCEPT ![c] = EstadoDe(f)]
         /\ (EstadoDe(f) = EstadoDe(cuenta[c]) => Estado' = Estado)
         /\ Clave' = [Clave EXCEPT ![c] = ClaveDe(f)]
         /\ (ClaveDe(f) = ClaveDe(cuenta[c]) => Clave' = Clave)
         /\ Codigo' = [Codigo EXCEPT ![c] = CodigoDe(f)]
         /\ (CodigoDe(f) = CodigoDe(cuenta[c]) => Codigo' = Codigo)
<1>1. cuenta'[c] = f /\ \A d \in Cuentas \ {c} : cuenta'[d] = cuenta[d]
  BY DEF InvTipo, TypeOK
<1>2. Estado' = [Estado EXCEPT ![c] = EstadoDe(f)] /\ (EstadoDe(f) = EstadoDe(cuenta[c]) => Estado' = Estado)
  <2>1. Estado = [d \in Cuentas |-> Estado[d]] /\ Estado' = [d \in Cuentas |-> Estado'[d]]
    BY DEF Estado
  <2>2. \A d \in Cuentas : Estado'[d] = IF d = c THEN EstadoDe(f) ELSE Estado[d]
    BY <1>1 DEF Estado, EstadoDe
  <2>3. Estado[c] = EstadoDe(cuenta[c])
    BY DEF Estado
  <2> QED
    BY <2>1, <2>2, <2>3, PorPuntos
<1>3. Clave' = [Clave EXCEPT ![c] = ClaveDe(f)] /\ (ClaveDe(f) = ClaveDe(cuenta[c]) => Clave' = Clave)
  <2>1. Clave = [d \in Cuentas |-> Clave[d]] /\ Clave' = [d \in Cuentas |-> Clave'[d]]
    BY DEF Clave
  <2>2. \A d \in Cuentas : Clave'[d] = IF d = c THEN ClaveDe(f) ELSE Clave[d]
    BY <1>1 DEF Clave, ClaveDe
  <2>3. Clave[c] = ClaveDe(cuenta[c])
    BY DEF Clave
  <2> QED
    BY <2>1, <2>2, <2>3, PorPuntos
<1>4. Codigo' = [Codigo EXCEPT ![c] = CodigoDe(f)] /\ (CodigoDe(f) = CodigoDe(cuenta[c]) => Codigo' = Codigo)
  <2>1. Codigo = [d \in Cuentas |-> Codigo[d]] /\ Codigo' = [d \in Cuentas |-> Codigo'[d]]
    BY DEF Codigo
  <2>2. \A d \in Cuentas : Codigo'[d] = IF d = c THEN CodigoDe(f) ELSE Codigo[d]
    BY <1>1 DEF Codigo, CodigoDe
  <2>3. Codigo[c] = CodigoDe(cuenta[c])
    BY DEF Codigo
  <2> QED
    BY <2>1, <2>2, <2>3, PorPuntos
<1> QED
  BY <1>2, <1>3, <1>4

LEMMA VistaDeFila ==
  ASSUME NEW c \in Cuentas
  PROVE  /\ Estado[c] = EstadoDe(cuenta[c]) /\ Clave[c] = ClaveDe(cuenta[c])
         /\ Codigo[c] = CodigoDe(cuenta[c])
  BY DEF Estado, Clave, Codigo

LEMMA NadaNuevo ==
  ASSUME UNCHANGED <<cuenta, usados>>
  PROVE  UNCHANGED Promesa!vars
  BY DEF Promesa!vars

(* A save that writes a row changes the password, makes a code known or    *)
(* redeems one, or changes nothing that Credencial sees.                   *)
LEMMA GuardarPromesa ==
  ASSUME InvTipo, InvPropia, InvSola, NEW t \in Tareas, GuardarCuenta(t)
  PROVE  [Promesa!Next]_(Promesa!vars)
<1>1. PICK c \in Cuentas : c = tarea[t].cuenta
  BY GuardaLaEntidad
<1>2. PICK f \in Fila : f = tarea[t].fila
  BY GuardaLaEntidad
<1>3. PICK k \in Claves \cup {Nada} : k = tarea[t].pone
  BY GuardaLaEntidad DEF Tarea
<1>4. /\ ~f.borrado /\ EnUso(cuenta[c]) /\ cuenta' = [cuenta EXCEPT ![c] = f]
      /\ usados' = usados \cup ({tarea[t].cod} \ {0})
      /\ f.clave = IF k = Nada THEN cuenta[c].clave ELSE k
      /\ \/ Conserva(tarea[t], cuenta[c])
         \/ Redime(tarea[t], cuenta[c])
         \/ Estrena(tarea[t], cuenta, codigos, usados)
  BY <1>1, <1>2, <1>3, GuardaLaEntidad
<1>5. /\ EstadoDe(f) = "viva" /\ EstadoDe(cuenta[c]) = "viva"
      /\ ClaveDe(f) = f.clave /\ ClaveDe(cuenta[c]) = cuenta[c].clave
      /\ CodigoDe(f) = f.rec /\ CodigoDe(cuenta[c]) = cuenta[c].rec
  BY <1>4, CuentaAssumption DEF EstadoDe, ClaveDe, CodigoDe, EnUso
<1>6. /\ Estado[c] = "viva" /\ Codigo[c] = cuenta[c].rec
      /\ Estado' = Estado
      /\ Clave' = [Clave EXCEPT ![c] = f.clave]
      /\ Codigo' = [Codigo EXCEPT ![c] = f.rec]
      /\ f.clave = cuenta[c].clave => Clave' = Clave
      /\ f.rec = cuenta[c].rec => Codigo' = Codigo
  <2>1. /\ Estado' = [Estado EXCEPT ![c] = EstadoDe(f)]
        /\ Clave' = [Clave EXCEPT ![c] = ClaveDe(f)]
        /\ Codigo' = [Codigo EXCEPT ![c] = CodigoDe(f)]
        /\ EstadoDe(f) = EstadoDe(cuenta[c]) => Estado' = Estado
        /\ ClaveDe(f) = ClaveDe(cuenta[c]) => Clave' = Clave
        /\ CodigoDe(f) = CodigoDe(cuenta[c]) => Codigo' = Codigo
    BY <1>4, FilaEscrita
  <2> QED
    BY <1>4, <1>5, <2>1, VistaDeFila
<1>7. CASE Conserva(tarea[t], cuenta[c])
  <2>1. f.rec = cuenta[c].rec /\ usados' = usados
    BY <1>2, <1>4, <1>7 DEF Conserva
  <2>2. CASE k = Nada
    <3>1. Estado' = Estado /\ Clave' = Clave /\ Codigo' = Codigo
      BY <1>4, <1>6, <2>1, <2>2
    <3>2. UNCHANGED Promesa!vars
      BY <2>1, <3>1 DEF Promesa!vars, Estado, Clave, Codigo, EstadoDe, ClaveDe, CodigoDe
    <3> QED
      BY <3>2
  <2>3. CASE k # Nada
    <3>1. k \in Claves /\ f.clave = k
      BY <1>4, <2>3
    <3>2. Promesa!Cambiar(c, k)
      BY <1>6, <2>1, <3>1, PasosDePromesa
    <3> QED
      BY <3>1, <3>2 DEF Promesa!Next
  <2> QED
    BY <2>2, <2>3
<1>8. CASE Redime(tarea[t], cuenta[c])
  <2>1. /\ k \in Claves /\ f.clave = k /\ f.rec = 0 /\ cuenta[c].rec # 0
        /\ usados' = usados \cup {cuenta[c].rec}
    BY <1>2, <1>3, <1>4, <1>8, CuentaAssumption DEF Redime
  <2>2. Promesa!Canjear(c, k)
    BY <1>6, <2>1, PasosDePromesa
  <2> QED
    BY <2>1, <2>2 DEF Promesa!Next
<1>9. CASE Estrena(tarea[t], cuenta, codigos, usados)
  <2>1. /\ usados' = usados /\ f.clave = cuenta[c].clave
        /\ f.rec \in 1..codigos /\ f.rec \notin usados
        /\ \A d \in Cuentas : cuenta[d] # Nada => cuenta[d].rec # f.rec
    BY <1>2, <1>3, <1>4, <1>9 DEF Estrena
  <2>2. f.rec \in 1..MaxCodigos /\ f.rec # 0
    BY <2>1, CuentaAssumption DEF InvTipo, TypeOK
  <2>3. \A d \in Cuentas : Codigo[d] # f.rec
    BY <2>1, <2>2 DEF Codigo, CodigoDe
  <2>4. Promesa!Enviar(c, f.rec)
    BY <1>6, <2>1, <2>3, PasosDePromesa
  <2> QED
    BY <2>2, <2>4 DEF Promesa!Next
<1> QED
  BY <1>4, <1>7, <1>8, <1>9

LEMMA InsertarPromesa ==
  ASSUME InvTipo, InvPropia, InvSola, NEW t \in Tareas, InsertarCuenta(t)
  PROVE  Promesa!Next
<1>1. tarea[t].pc = "insertar" /\ ~En(t, "libre") /\ tarea[t].alta
      /\ tarea[t].fila \in Fila /\ tarea[t].pone \in Claves /\ tarea[t].cuenta \in Cuentas
  BY EnCursoTipo DEF InsertarCuenta, En, Bien, ConEntidad
<1>2. PICK c \in Cuentas : c = tarea[t].cuenta
  BY <1>1
<1>3. PICK f \in Fila : f = tarea[t].fila
  BY <1>1
<1>4. PICK k \in Claves : k = tarea[t].pone
  BY <1>1
<1>5. cuenta[c] = Nada /\ f.clave = k /\ ~f.borrado /\ f.rec = 0
  BY <1>1, <1>2, <1>3, <1>4, SolaActual DEF Trabajo, AltaBien
<1>6. cuenta' = [cuenta EXCEPT ![c] = f] /\ usados' = usados
  BY <1>2, <1>3 DEF InsertarCuenta
<1>7. /\ EstadoDe(f) = "viva" /\ EstadoDe(cuenta[c]) = "libre" /\ ClaveDe(f) = k
      /\ CodigoDe(f) = 0 /\ CodigoDe(cuenta[c]) = 0
  BY <1>5, CuentaAssumption DEF EstadoDe, ClaveDe, CodigoDe
<1>8. /\ Estado[c] = "libre" /\ Estado' = [Estado EXCEPT ![c] = "viva"]
      /\ Clave' = [Clave EXCEPT ![c] = k] /\ Codigo' = Codigo
  <2>1. /\ Estado' = [Estado EXCEPT ![c] = EstadoDe(f)]
        /\ Clave' = [Clave EXCEPT ![c] = ClaveDe(f)]
        /\ Codigo' = [Codigo EXCEPT ![c] = CodigoDe(f)]
        /\ EstadoDe(f) = EstadoDe(cuenta[c]) => Estado' = Estado
        /\ ClaveDe(f) = ClaveDe(cuenta[c]) => Clave' = Clave
        /\ CodigoDe(f) = CodigoDe(cuenta[c]) => Codigo' = Codigo
    BY <1>6, FilaEscrita
  <2> QED
    BY <1>6, <1>7, <2>1, VistaDeFila
<1>9. Promesa!Registrar(c, k)
  BY <1>6, <1>8, PasosDePromesa
<1> QED
  BY <1>9 DEF Promesa!Next

LEMMA EliminarPromesa ==
  ASSUME InvTipo, NEW t \in Tareas, NEW c \in Cuentas, Eliminar(t, c)
  PROVE  Promesa!Next
<1>1. cuenta[c] \in Fila /\ cuenta[c] # Nada /\ ~cuenta[c].borrado
  BY VivaTipo DEF Eliminar, Viva
<1>2. PICK f \in Fila : f = [cuenta[c] EXCEPT !.borrado = TRUE]
  BY <1>1 DEF Fila
<1>3. cuenta' = [cuenta EXCEPT ![c] = f] /\ usados' = usados
  BY <1>2 DEF Eliminar
<1>4. f.borrado /\ f.clave = cuenta[c].clave /\ f.rec = cuenta[c].rec /\ f # Nada
  BY <1>1, <1>2, CuentaAssumption DEF Fila
<1>5. /\ EstadoDe(f) = "eliminada" /\ EstadoDe(cuenta[c]) = "viva"
      /\ ClaveDe(f) = ClaveDe(cuenta[c]) /\ CodigoDe(f) = CodigoDe(cuenta[c])
  BY <1>1, <1>4 DEF EstadoDe, ClaveDe, CodigoDe
<1>6. /\ Estado[c] = "viva" /\ Estado' = [Estado EXCEPT ![c] = "eliminada"]
      /\ Clave' = Clave /\ Codigo' = Codigo
  <2>1. /\ Estado' = [Estado EXCEPT ![c] = EstadoDe(f)]
        /\ Clave' = [Clave EXCEPT ![c] = ClaveDe(f)]
        /\ Codigo' = [Codigo EXCEPT ![c] = CodigoDe(f)]
        /\ EstadoDe(f) = EstadoDe(cuenta[c]) => Estado' = Estado
        /\ ClaveDe(f) = ClaveDe(cuenta[c]) => Clave' = Clave
        /\ CodigoDe(f) = CodigoDe(cuenta[c]) => Codigo' = Codigo
    BY <1>3, FilaEscrita
  <2> QED
    BY <1>3, <1>5, <2>1, VistaDeFila
<1>7. Promesa!Eliminar(c)
  BY <1>3, <1>6, PasosDePromesa
<1> QED
  BY <1>7 DEF Promesa!Next

LEMMA NextPromesa ==
  ASSUME InvTipo, InvPropia, InvSola, [Next]_vars
  PROVE  [Promesa!Next]_(Promesa!vars)
<1>1. CASE UNCHANGED vars
  <2>1. UNCHANGED <<cuenta, usados>>
    BY <1>1 DEF vars, tablas, historia
  <2> QED
    BY <2>1, NadaNuevo
<1>2. CASE Next
  BY <1>2, NextEscribe, NadaNuevo, GuardarPromesa, InsertarPromesa, EliminarPromesa
<1> QED
  BY <1>1, <1>2

LEMMA IniciaPromesa == Init => Promesa!Init
  BY DEF Init, Promesa!Init

(* With one request at a time the handlers keep the promise of module      *)
(* Credencial: a password changes when its owner changes it or redeems a   *)
(* code, a code that sets one is fresh and of this account, and a removed  *)
(* account is left alone, through failures and restarts (change-password,  *)
(* forgot-password, reset-password, register, update and remove).          *)
THEOREM CredencialCumplida ==
  ASSUME UnaSola
  PROVE  Spec => CumpleCredencial
<1> DEFINE I == InvTipo /\ InvPropia /\ InvSola
<1>1. Init => I /\ Promesa!Init
  BY InitTipo, InitPropia, InitSola, IniciaPromesa
<1>2. I /\ [Next]_vars => I' /\ [Promesa!Next]_(Promesa!vars)
  BY NextTipo, NextPropia, NextSola, NextPromesa
<1> HIDE DEF I
<1> QED
  BY <1>1, <1>2, PTL DEF Spec, CumpleCredencial, Promesa!Spec

=============================================================================
