SPECIFICATION DeviceFairSpec
CONSTANTS
    Devices = {camera}
    Cameras = {camera}
    MaxClients = 2
    None = none
PROPERTIES
    RepointReconnects
