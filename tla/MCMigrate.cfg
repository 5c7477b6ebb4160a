CONSTANTS
    up1 = up1
    up2 = up2
    up3 = up3
    status = status
    blue = blue
    green = green
    Calls = {up1, up2, up3, status}
    Upgrades = {up1, up2, up3}
    Processes = {blue, green}
    Process <- Deploy
    Nobody = Nobody
    Newest = 3
SPECIFICATION Spec
INVARIANTS
    
    NewestOnSuccess
PROPERTY CallsReturn
