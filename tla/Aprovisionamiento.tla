-------------------------- MODULE Aprovisionamiento --------------------------
(* What follows a change of the inventory on disk, and who reads both: a     *)
(* request that inserted a device makes a directory (mkdir, and rm -rf and   *)
(* mkdir again if it is there) and runs crRRD.py, which makes the archives;  *)
(* one that deleted a device removes the directory; Monitorizacion.php lists *)
(* the devices to be monitored once and takes its time over each.            *)
(* The directory that PHP makes and removes is not the one of crRRD.py: the  *)
(* address is appended to a path that already ends in it.                    *)
EXTENDS Inventario, FiniteSets

CONSTANT Campos                \* the archives of a device, one of each

VARIABLES carpetas,            \* devices whose directory of mkdir exists
          raiz,                \* the directory that is to hold them exists
          archivos,            \* of a device: the archives in crRRD's directory
          interrumpidas,       \* devices a registration of which was killed
          lista                \* devices a pass of the monitor has still to do

discoVars == <<carpetas, raiz, archivos, interrumpidas>>
vars == <<tablasVars, peticionVars, discoVars, lista>>

ip(p) == orden[p].fila.llave["ip"]

EnAlta(p, d) == /\ paso[p] \in {"carpeta", "repite", "archivos"}
                /\ ip(p) = d

-----------------------------------------------------------------------------
MkdirSaleBien(d) == raiz /\ d \notin carpetas

Mkdir(p) ==
  /\ paso[p] = "carpeta"
  /\ UNCHANGED <<tablasVars, raiz, archivos, interrumpidas, lista>>
  /\ IF MkdirSaleBien(ip(p))
     THEN carpetas' = carpetas \cup {ip(p)} /\ Va(p, "archivos", 1)
     ELSE UNCHANGED carpetas /\ Va(p, "repite", 1)

LoBorraTodo(d) == /\ carpetas' = carpetas \ {d}
                  /\ archivos' = [archivos EXCEPT ![d] = {}]

RmRf(d) == /\ carpetas' = carpetas \ {d}
           /\ UNCHANGED archivos

Limpia(p) ==         \* before the next mkdir, or at the end of a removal
  /\ paso[p] \in {"repite", "limpia"}
  /\ RmRf(ip(p))
  /\ UNCHANGED <<tablasVars, raiz, interrumpidas, lista>>
  /\ Va(p, IF paso[p] = "repite" THEN "carpeta" ELSE "libre", 1)

\* crRRD.py makes the archives one after the other; one that is there starts
\* again from nothing.
CreaArchivo(p, c) ==
  /\ paso[p] = "archivos"
  /\ c \notin archivos[ip(p)]
  /\ archivos' = [archivos EXCEPT ![ip(p)] = @ \cup {c}]
  /\ UNCHANGED <<tablasVars, peticionVars, carpetas, raiz, interrumpidas, lista>>

TerminaAlta(p) ==
  /\ paso[p] = "archivos" /\ archivos[ip(p)] = Campos
  /\ UNCHANGED <<tablasVars, discoVars, lista>>
  /\ Va(p, "libre", 1)

Interrumpe(p) ==               \* the process is killed, wherever it is
  /\ paso[p] \notin {"libre", "fallida"}
  /\ interrumpidas' = interrumpidas \cup
       {d \in Dispositivos : \E q \in {p} : EnAlta(q, d)}
  /\ UNCHANGED <<tablasVars, carpetas, raiz, archivos, lista>>
  /\ Va(p, "libre", 1)

-----------------------------------------------------------------------------
Consulta ==                    \* obtenerDispositivos
  /\ lista = {} /\ activas # {}
  /\ lista' = activas
  /\ UNCHANGED <<tablasVars, peticionVars, discoVars>>

\* ping, SNMP and upRRD.py for one device; without its archives the update
\* fails, and the pass goes on.
Mide(d) ==
  /\ d \in lista
  /\ lista' = lista \ {d}
  /\ UNCHANGED <<tablasVars, peticionVars, discoVars>>

Init == /\ InventarioInit
        /\ carpetas = {} /\ raiz \in BOOLEAN
        /\ archivos = [d \in Dispositivos |-> {}]
        /\ interrumpidas = {} /\ lista = {}

Peticion(p) == \/ Pide(p) /\ UNCHANGED <<discoVars, lista>>
               \/ Mkdir(p) \/ Limpia(p) \/ TerminaAlta(p)
               \/ \E c \in Campos : CreaArchivo(p, c)
               \/ Interrumpe(p)

Next == \/ \E p \in Peticiones : Peticion(p)
        \/ Consulta
        \/ \E d \in Dispositivos : Mide(d)

Spec == Init /\ [][Next]_vars
-----------------------------------------------------------------------------
\* A device that is registered, or that the monitor is about to update, has all
\* its archives, unless a request is just registering it or one that did was
\* killed: a removal whose rm -rf comes after the next registration of the same
\* device does not take the new archives away (Dispositivo.php:100-131).
RegistradoConArchivos ==
  \A d \in Dispositivos :
    \/ archivos[d] = Campos
    \/ d \in interrumpidas
    \/ \E p \in Peticiones : EnAlta(p, d)
    \/ d \notin lista /\ \A x \in filas :
                            x.tabla = "dispositivo" => x.llave["ip"] # d
=============================================================================
