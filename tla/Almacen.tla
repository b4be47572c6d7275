------------------------------ MODULE Almacen -------------------------------
(***************************************************************************)
(* Profile photos on their way to the R2 bucket:                           *)
(* UsuarioProfileImageService, ImageOptimizationService, R2StorageService. *)
(*                                                                         *)
(* A photo over 1 MB is sent shrunk to a JPEG; if shrinking or sending     *)
(* that fails, the original is sent under the same key.  Each send is a    *)
(* PUT the S3 client tries three times.  A PUT nobody answered may have    *)
(* been applied, may not, or may be applied later; and it may never end.   *)
(***************************************************************************)
EXTENDS Integers, FiniteSets

CONSTANTS
  Subidas,      \* requests that bring a photo
  Fotos,        \* the photos, see Foto
  Nombres,      \* file names, as the client gives them
  NombreLimpio, \* each name with _ for what is no letter, digit, point or dash
  Nada,
  MaxWidth, MaxHeight,      \* defaultMaxWidth and defaultMaxHeight
  MaxIntentos,              \* maxAttempts of the S3 client
  MaxReloj, MaxFallas       \* bounds: milliseconds that pass, failures

(* ancho and alto are 0 when sharp finds no size in the file; legible says *)
(* if sharp can decode it; kb is its length; mime is the type the client   *)
(* declares, and mayusculas if it is not in lower case.                    *)
Foto == [mime: STRING, mayusculas: BOOLEAN, kb: Nat, ancho: Nat, alto: Nat, legible: BOOLEAN]

AllowedMimeTypes ==
  {"application/pdf", "image/jpeg", "image/jpg", "image/png", "image/gif", "image/webp",
   "image/bmp", "image/tiff", "image/svg+xml"}
ImageTypes == AllowedMimeTypes \ {"application/pdf"}
MaxFileSize == 50 * 1024
UnMega == 1024

Formas == {"original", "optimizada"}
Claves == {NombreLimpio[n] : n \in Nombres} \X (0..MaxReloj)
Medida == [width: 0..MaxWidth, height: 0..MaxHeight]

(* de is history: the request whose PUT stored the object.                 *)
Objeto == [de: Subidas, foto: Fotos, forma: Formas, contentType: AllowedMimeTypes]

ASSUME AlmacenAssumption ==
  /\ Fotos \subseteq Foto
  /\ MaxWidth \in Nat \ {0} /\ MaxHeight \in Nat \ {0} /\ MaxIntentos \in Nat \ {0}
  /\ MaxReloj \in Nat /\ MaxFallas \in Nat
  /\ Nada \notin Fotos \cup Claves \cup Medida \cup Objeto

VARIABLES
  configurado, \* the R2 variables are set (isConfigured)
  bucket,      \* the objects, by key
  tardios,     \* unanswered PUTs that may still be applied
  subida,      \* each request
  borradas,    \* history: keys a DELETE was sent for
  reloj, fallas

vars == <<configurado, bucket, tardios, subida, borradas, reloj, fallas>>

Pasos == {"libre", "optimizar", "enviar", "colgada", "respondida", "error"}

Subida ==
  [pc: Pasos, foto: Fotos \cup {Nada}, nombre: Nombres \cup {Nada}, llego: 0..MaxReloj,
   clave: Claves \cup {Nada}, forma: Formas, medida: Medida \cup {Nada},
   intento: 1..MaxIntentos]

Libre ==
  [pc |-> "libre", foto |-> Nada, nombre |-> Nada, llego |-> 0, clave |-> Nada,
   forma |-> "original", medida |-> Nada, intento |-> 1]

Init ==
  /\ configurado \in BOOLEAN
  /\ bucket = [c \in Claves |-> Nada]
  /\ tardios = {}
  /\ subida = [s \in Subidas |-> Libre]
  /\ borradas = {}
  /\ reloj = 0 /\ fallas = 0

En(s, paso) == subida[s].pc = paso

-----------------------------------------------------------------------------
(* ImageOptimizationService.                                               *)

(* Math.round(a * b / c).  The floating-point quotient of the code is      *)
(* taken for exact: they differ only on ties.                              *)
Redondeo(a, b, c) == (2 * a * b + c) \div (2 * c)

(* Mutant of CalculateDimensions: each side is cut by itself.              *)
CalculateDimensionsSuelta(w, h) ==
  [width |-> IF w > MaxWidth THEN MaxWidth ELSE w,
   height |-> IF h > MaxHeight THEN MaxHeight ELSE h]

(* Mutant of CalculateDimensions: the width is never compared.             *)
CalculateDimensionsAncha(w, h) ==
  IF h > MaxHeight THEN [width |-> Redondeo(MaxHeight, w, h), height |-> MaxHeight]
  ELSE [width |-> w, height |-> h]

CalculateDimensions(w, h) ==
  IF w = 0 \/ h = 0 THEN [width |-> MaxWidth, height |-> MaxHeight]
  ELSE LET alto == IF w > MaxWidth THEN Redondeo(MaxWidth, h, w) ELSE h
           ancho == IF w > MaxWidth THEN MaxWidth ELSE w
       IN IF alto > MaxHeight
          THEN [width |-> Redondeo(MaxHeight, w, h), height |-> MaxHeight]
          ELSE [width |-> ancho, height |-> alto]

(* isImage looks at the type as the client wrote it.                       *)
IsImage(f) == ~f.mayusculas /\ f.mime \in ImageTypes

ShouldOptimize(f) == IsImage(f) /\ f.kb > UnMega

(* sharp refuses a file it cannot decode, and a side of 0 pixels.          *)
SharpPuede(f, m) == f.legible /\ m.width > 0 /\ m.height > 0

-----------------------------------------------------------------------------
(* R2StorageService.                                                       *)

(* The ending of a key is never an extension: a time follows the name.     *)
NormalizeContentType(mime) == IF mime = "image/jpg" THEN "image/jpeg" ELSE mime

ValidateMimeType(f) == f.mime \in AllowedMimeTypes
ValidateFileSize(f) == f.kb <= MaxFileSize

TipoEnviado(f, forma) ==
  IF forma = "optimizada" THEN "image/jpeg" ELSE NormalizeContentType(f.mime)

(* Mutant of ClaveArchivo: only the name.                                  *)
ClaveSinHora(nombre, ms) == <<NombreLimpio[nombre], 0>>

ClaveArchivo(nombre, ms) == <<NombreLimpio[nombre], ms>>

(* A request arrives with a file that is not empty (hasFotoUpload).        *)
Recibir(s, f, nombre) ==
  /\ En(s, "libre")
  /\ f.kb > 0
  /\ subida' = [subida EXCEPT ![s] =
       [Libre EXCEPT !.foto = f, !.nombre = nombre, !.llego = reloj,
                     !.clave = ClaveArchivo(nombre, reloj),
                     !.pc = IF ~ValidateMimeType(f) \/ ~ValidateFileSize(f) THEN "error"
                            ELSE IF ShouldOptimize(f) THEN "optimizar" ELSE "enviar"]]
  /\ UNCHANGED <<configurado, bucket, tardios, borradas, reloj, fallas>>

(* Mutant of Caer: the failure of the shrunk photo is the request's.       *)
CaerSinOriginal(i) == [i EXCEPT !.pc = "error"]

(* subirArchivo throws: what was the shrunk photo is now the original.     *)
Caer(i) ==
  IF i.forma = "optimizada" THEN [i EXCEPT !.forma = "original", !.intento = 1]
  ELSE [i EXCEPT !.pc = "error"]

Optimizar(s) ==
  LET f == subida[s].foto
      m == CalculateDimensions(f.ancho, f.alto)
  IN
  /\ En(s, "optimizar")
  /\ subida' = [subida EXCEPT ![s].pc = "enviar",
                  ![s].forma = IF SharpPuede(f, m) THEN "optimizada" ELSE "original",
                  ![s].medida = IF SharpPuede(f, m) THEN m ELSE Nada]
  /\ UNCHANGED <<configurado, bucket, tardios, borradas, reloj, fallas>>

Put(s) ==
  [de |-> s, foto |-> subida[s].foto, forma |-> subida[s].forma,
   contentType |-> TipoEnviado(subida[s].foto, subida[s].forma)]

(* getClientOrThrow *)
SinCliente(s) ==
  /\ En(s, "enviar")
  /\ ~configurado
  /\ subida' = [subida EXCEPT ![s] = Caer(@)]
  /\ UNCHANGED <<configurado, bucket, tardios, borradas, reloj, fallas>>

Enviar(s) ==
  /\ En(s, "enviar")
  /\ configurado
  /\ bucket' = [bucket EXCEPT ![subida[s].clave] = Put(s)]
  /\ subida' = [subida EXCEPT ![s].pc = "respondida"]
  /\ UNCHANGED <<configurado, tardios, borradas, reloj, fallas>>

(* The client tries again what got an error, or whose connection broke.    *)
Reintentar(i) ==
  IF i.intento < MaxIntentos THEN [i EXCEPT !.pc = "enviar", !.intento = @ + 1]
  ELSE Caer([i EXCEPT !.pc = "enviar"])

(* A try that ends without an answer, or with an error the client tries    *)
(* again; or one that hangs: httpOptions is no option of this client, so   *)
(* no time limit is set.                                                   *)
EnvioPerdido(s) ==
  LET i == subida[s] IN
  /\ En(s, "enviar")
  /\ configurado
  /\ fallas < MaxFallas
  /\ fallas' = fallas + 1
  /\ \/ subida' = [subida EXCEPT ![s] = Reintentar(i)]
     \/ subida' = [subida EXCEPT ![s].pc = "colgada"]
  /\ \/ UNCHANGED <<bucket, tardios>>
     \/ bucket' = [bucket EXCEPT ![i.clave] = Put(s)] /\ UNCHANGED tardios
     \/ tardios' = tardios \cup {<<i.clave, Put(s)>>} /\ UNCHANGED bucket
  /\ UNCHANGED <<configurado, borradas, reloj>>

(* The connection of a try that hung breaks at last.                       *)
Cortar(s) ==
  /\ En(s, "colgada")
  /\ subida' = [subida EXCEPT ![s] = Reintentar(@)]
  /\ UNCHANGED <<configurado, bucket, tardios, borradas, reloj, fallas>>

(* An answer the client does not try again.                                *)
EnvioRechazado(s) ==
  /\ En(s, "enviar")
  /\ configurado
  /\ fallas < MaxFallas
  /\ fallas' = fallas + 1
  /\ subida' = [subida EXCEPT ![s] = Caer(@)]
  /\ UNCHANGED <<configurado, bucket, tardios, borradas, reloj>>

AplicarTarde ==
  \E p \in tardios :
    /\ bucket' = [bucket EXCEPT ![p[1]] = p[2]]
    /\ tardios' = tardios \ {p}
    /\ UNCHANGED <<configurado, subida, borradas, reloj, fallas>>

(* eliminarArchivo, of the photo an account has and is changing.  Without  *)
(* R2 it does nothing; deleteFotoFromUrl carries on when it fails.         *)
EliminarArchivo(s) ==
  LET c == subida[s].clave IN
  /\ En(s, "respondida")
  /\ configurado
  /\ c \notin borradas
  /\ borradas' = borradas \cup {c}
  /\ \/ bucket' = [bucket EXCEPT ![c] = Nada] /\ UNCHANGED fallas
     \/ fallas < MaxFallas /\ fallas' = fallas + 1 /\ UNCHANGED bucket
  /\ UNCHANGED <<configurado, tardios, subida, reloj>>

Tic ==
  /\ reloj < MaxReloj
  /\ reloj' = reloj + 1
  /\ UNCHANGED <<configurado, bucket, tardios, subida, borradas, fallas>>

Avanzar(s) == Optimizar(s) \/ SinCliente(s) \/ Enviar(s)

Next ==
  \/ \E s \in Subidas, f \in Fotos, n \in Nombres : Recibir(s, f, n)
  \/ \E s \in Subidas :
       \/ Avanzar(s) \/ EnvioPerdido(s) \/ Cortar(s) \/ EnvioRechazado(s)
       \/ EliminarArchivo(s)
  \/ AplicarTarde \/ Tic

(* Every try is answered, refused, lost or hangs.  Nothing makes one that  *)
(* hangs end: Cortar is not fair.                                          *)
Spec == Init /\ [][Next]_vars /\ \A s \in Subidas : WF_vars(Avanzar(s))

-----------------------------------------------------------------------------
(* What the other requests of the service see of a key.                    *)
ArchivoExiste(c) == configurado /\ bucket[c] # Nada
ObtenerArchivo(c) == IF ArchivoExiste(c) THEN bucket[c].foto ELSE Nada
ObtenerInformacionArchivo(c) == IF ArchivoExiste(c) THEN bucket[c].contentType ELSE Nada
ListarArchivos(n) == {c \in Claves : c[1] = n /\ ArchivoExiste(c)}

-----------------------------------------------------------------------------
TypeOK ==
  /\ configurado \in BOOLEAN
  /\ bucket \in [Claves -> Objeto \cup {Nada}]
  /\ tardios \subseteq Claves \X Objeto
  /\ subida \in [Subidas -> Subida]
  /\ borradas \subseteq Claves
  /\ reloj \in 0..MaxReloj /\ fallas \in 0..MaxFallas

MismaClave(s, o) ==
  /\ subida[o].pc # "libre"
  /\ NombreLimpio[subida[o].nombre] = NombreLimpio[subida[s].nombre]
  /\ subida[o].llego = subida[s].llego

(* What a request answered with can be fetched and is listed, whatever was *)
(* lost, sent again or applied late, until it is deleted; and it is the    *)
(* request's own photo, or that of another that brought, in the same       *)
(* millisecond, a name that cleans to the same one (uploadFotoPerfil).     *)
SubidaQueda ==
  \A s \in Subidas :
    LET i == subida[s] IN
    En(s, "respondida") /\ i.clave \notin borradas =>
      /\ \E o \in Subidas : MismaClave(s, o) /\ ObtenerArchivo(i.clave) = subida[o].foto
      /\ i.clave \in ListarArchivos(NombreLimpio[i.nombre])

(* "Calcula las nuevas dimensiones manteniendo el aspect ratio"            *)
(* (image-optimization.service.ts:133): inside the box, never larger than  *)
(* the photo, and its proportion off by what a pixel is of the photo.      *)
DimensionesEnCaja ==
  \A s \in Subidas :
    LET f == subida[s].foto
        m == subida[s].medida
        dif == m.width * f.alto - m.height * f.ancho
    IN m # Nada /\ f.ancho > 0 /\ f.alto > 0 =>
         /\ m.width <= MaxWidth /\ m.height <= MaxHeight
         /\ m.width <= f.ancho /\ m.height <= f.alto
         /\ \A lado \in {f.ancho, f.alto} :
              lado >= f.ancho /\ lado >= f.alto => -lado <= dif /\ dif <= lado

(* "Si la optimización falla, hace fallback y sube el archivo original": a *)
(* request ends unless a PUT of its hangs for good, and a photo the        *)
(* service admits is stored unless there is no bucket or the failures      *)
(* outlast the tries of its original.                                      *)
SubidaTermina ==
  \A s \in Subidas :
    ~En(s, "libre") ~>
      \/ En(s, "respondida") \/ En(s, "colgada")
      \/ En(s, "error") /\ (\/ ~ValidateMimeType(subida[s].foto)
                            \/ ~ValidateFileSize(subida[s].foto)
                            \/ ~configurado
                            \/ subida[s].forma = "original" /\ fallas > 0)

=============================================================================
